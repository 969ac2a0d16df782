------------------------ MODULE LockFreeQueue_proofs ------------------------
(***************************************************************************)
(* For every Capacity >= 2, every number of items and whoever closes the   *)
(* queue: TypeOK and Inv are invariants of LockFreeQueue, and with them    *)
(* FIFO delivery, race freedom and the drain guarantee.                    *)
(***************************************************************************)
EXTENDS LockFreeQueue, TLAPS

USE ConstAssumption DEF closed

\* Indices stay in the ring, and differ where their distances from a do.
LEMMA WrapInSlots ==
  ASSUME NEW i \in 0 .. 2 * Capacity - 1
  PROVE  Wrap(i) \in Slots
BY SMT DEF Wrap, Slots

\* Two slots at different distances from a are different slots.
LEMMA WrapInjective ==
  ASSUME NEW a \in Slots, NEW j \in Slots, NEW k \in Slots, j # k
  PROVE  Wrap(a + j) # Wrap(a + k)
BY SMT DEF Wrap, Slots

\* Dist is the distance: b + Dist(a, b) is a.
LEMMA DistBack ==
  ASSUME NEW a \in Slots, NEW b \in Slots
  PROVE  Dist(a, b) \in Slots /\ Wrap(b + Dist(a, b)) = a
BY SMT DEF Wrap, Slots, Dist

\* Moving an end of an interval changes its length by as much.
LEMMA DistGrow ==
  ASSUME NEW a \in Slots, NEW b \in Slots, NEW m \in Nat,
         Dist(a, b) + m <= Capacity - 1
  PROVE  Dist(Wrap(a + m), b) = Dist(a, b) + m
BY SMT DEF Wrap, Slots, Dist

\* Moving the far end of a non-empty interval one slot on shortens it by one.
LEMMA DistShrink ==
  ASSUME NEW a \in Slots, NEW b \in Slots, a # b
  PROVE  Dist(a, Wrap(b + 1)) = Dist(a, b) - 1
BY SMT DEF Wrap, Slots, Dist

\* Two indices are equal exactly when their distance is zero.
LEMMA DistZero ==
  ASSUME NEW a \in Slots, NEW b \in Slots
  PROVE  Dist(a, b) = 0 <=> a = b
BY SMT DEF Wrap, Slots, Dist

\* What the two room tests compute, when the snapshot's index is right.
LEMMA SpaceMeansRoom ==
  ASSUME NEW c \in Store, NEW h \in Slots, h = head, NEW isBatch \in BOOLEAN,
         NEW n \in 1 .. Capacity - 1, ~isBatch => n = 1,
         HasSpace(isBatch, n, c)
  PROVE  Dist(h, c.idx) + n <= Capacity - 1
BY SMT DEF HasSpace, Wrap, Dist, Slots, Store

\* The initial state.
LEMMA InitInv == Init => TypeOK /\ Inv
<1> SUFFICES ASSUME Init PROVE TypeOK /\ Inv
  OBVIOUS
<1>1. TypeOK
  BY DEF Init, TypeOK, Slots, Store
<1>2. Inv
  BY DEF Init, Inv, ProducerInv, ConsumerInv, HeadInv, TailInv, RingInv,
         CloseInv, Delivered, Dist, Wrap, Slots, Reserved, Stored
<1> QED BY <1>1, <1>2
-----------------------------------------------------------------------------
(* Type correctness is inductive together with the bounds of Inv. *)

\* Every step, of either thread or of whoever closes, keeps the types: the
\* stores of head_ and tail_ keep their indices in the ring.
LEMMA TypeStep == TypeOK /\ Inv /\ [Next]_vars => TypeOK'
<1> SUFFICES ASSUME TypeOK, Inv, [Next]_vars PROVE TypeOK'
  OBVIOUS
<1> USE DEF TypeOK, Store, prodVars, consVars
<1>1. ASSUME NEW isBatch \in BOOLEAN, NEW n \in 1 .. Capacity - 1,
             PushEnter(isBatch, n)
      PROVE  TypeOK'
  BY <1>1 DEF PushEnter, SeesOpen
<1>2. CASE PushThrow
  BY <1>2 DEF PushThrow, SeesClosed
<1>3. CASE PushSpin
  BY <1>3 DEF PushSpin, SeesOpen
<1>4. CASE LoadTail
  BY <1>4 DEF LoadTail
<1>5. CASE WriteSlot
  <2>0. head + written \in 0 .. 2 * Capacity - 1
    BY <1>5 DEF WriteSlot, Inv, ProducerInv, Slots
  <2>1. Wrap(head + written) \in Slots
    BY <2>0, WrapInSlots
  <2> QED BY <1>5, <2>1 DEF WriteSlot
<1>6. CASE Publish
  <2>1. Wrap(head + count) \in Slots
    BY <1>6, WrapInSlots DEF Publish, Inv, ProducerInv, Slots
  <2> QED BY <1>6, <2>1 DEF Publish
<1>7. CASE PopEnter
  BY <1>7 DEF PopEnter
<1>8. ASSUME NEW empty \in {"spin", "done"}, LoadHead(empty) PROVE TypeOK'
  BY <1>8 DEF LoadHead
<1>9. CASE PopSpin
  BY <1>9 DEF PopSpin, SeesOpen
<1>10. CASE PopSeesClosed
  BY <1>10 DEF PopSeesClosed, SeesClosed
<1>11. CASE ReadSlot
  BY <1>11 DEF ReadSlot
<1>12. CASE ReleaseSlot
  <2>1. Wrap(tail + 1) \in Slots
    BY WrapInSlots DEF Slots
  <2>2. Append(received, item) \in Seq(Nat)
    OBVIOUS
  <2> QED BY <1>12, <2>1, <2>2 DEF ReleaseSlot
<1>13. CASE ProducerClose
  BY <1>13 DEF ProducerClose
<1>14. CASE OtherClose
  BY <1>14 DEF OtherClose
<1>15. CASE Terminated \/ UNCHANGED vars
  BY <1>15 DEF Terminated, vars
<1>16. 1 \in 1 .. Capacity - 1
  OBVIOUS
<1> QED BY <1>1, <1>2, <1>3, <1>4, <1>5, <1>6, <1>7, <1>8, <1>9, <1>10,
           <1>11, <1>12, <1>13, <1>14, <1>15, <1>16
        DEF Next, Push, Producer, Consumer, PopLoad, PopRespin, PopRecheck
-----------------------------------------------------------------------------
(* Every action preserves Inv. *)

\* Actions that touch neither the ring nor the snapshots nor closed_.
LEMMA PushEnterInv ==
  ASSUME TypeOK, Inv, NEW isBatch \in BOOLEAN, NEW n \in 1 .. Capacity - 1,
         ~isBatch => n = 1, PushEnter(isBatch, n)
  PROVE  Inv'
<1> USE DEF PushEnter, SeesOpen, prodVars, consVars
<1>1. ppc' = "write" => Dist(head, tail_cached.idx) + n <= Capacity - 1
  BY SpaceMeansRoom DEF TypeOK
<1>2. ProducerInv'
  BY DEF ProducerInv, TypeOK
<1>3. ConsumerInv' /\ HeadInv' /\ Delivered'
  BY DEF Inv, ConsumerInv, HeadInv, Delivered, Dist
<1>4. TailInv'
  <2>1. Dist(head, tail_cached.idx) = published - tail_cached.n
    BY DEF Inv, TailInv
  <2>2. Reserved = 0 /\ Reserved' \in {0, n}
    BY DEF Reserved
  <2>3. Reserved' # 0 => published + n - tail_cached.n <= Capacity - 1
    BY <1>1, <2>1 DEF Reserved, TypeOK, Store
  <2>4. \A s \in tailVis \union {tail_cached} :
           s \in Store /\ tail_cached.n <= s.n
                       /\ published - s.n <= Capacity - 1
    BY <2>2 DEF Inv, TailInv, TypeOK, Store
  <2>5. \A s \in tailVis \union {tail_cached} :
           published + Reserved' - s.n <= Capacity - 1
    BY <2>2, <2>3, <2>4 DEF TypeOK, Store
  <2> QED BY <2>5 DEF Inv, TailInv, Dist
<1>5. RingInv'
  BY DEF Inv, RingInv, Stored, Dist
<1>6. CloseInv'
  BY DEF Inv, CloseInv
<1> QED BY <1>2, <1>3, <1>4, <1>5, <1>6 DEF Inv

\* push_impl and push_batch_impl finding closed_ set (throw) or not (spin on).
LEMMA PushWaitInv ==
  ASSUME TypeOK, Inv, PushThrow \/ PushSpin
  PROVE  Inv'
<1> USE DEF PushThrow, PushSpin, SeesOpen, SeesClosed, prodVars, consVars
<1>1. ppc \in {"idle", "spin"} /\ ppc' \in {"idle", "refresh"}
  OBVIOUS
<1>2. ProducerInv'
  BY <1>1 DEF Inv, ProducerInv, TypeOK
<1>3. ConsumerInv' /\ HeadInv' /\ Delivered'
  BY DEF Inv, ConsumerInv, HeadInv, Delivered, Dist
<1>4. TailInv' /\ RingInv'
  BY <1>1 DEF Inv, TailInv, RingInv, Reserved, Stored, Dist
<1>5. CloseInv'
  BY DEF Inv, CloseInv
<1> QED BY <1>2, <1>3, <1>4, <1>5 DEF Inv

\* The refresh of tail_cached_: whatever store of tail_ it loads, room for the
\* batch by that snapshot is room in the ring.
LEMMA LoadTailInv ==
  ASSUME TypeOK, Inv, LoadTail
  PROVE  Inv'
<1> USE DEF LoadTail, prodVars, consVars
<1>0. PICK s \in tailVis :
        /\ tail_cached' = s
        /\ tailVis' = {x \in tailVis : x.n >= s.n}
        /\ ppc' = IF HasSpace(batch, count, s) THEN "write" ELSE "spin"
  OBVIOUS
<1>1. s \in Store /\ count \in 1 .. Capacity - 1 /\ (~batch => count = 1)
  BY DEF Inv, ProducerInv, TypeOK
<1>2. ppc' = "write" => Dist(head, s.idx) + count <= Capacity - 1
  BY <1>0, <1>1, SpaceMeansRoom DEF TypeOK
<1>3. ProducerInv'
  BY <1>0, <1>1 DEF Inv, ProducerInv, TypeOK
<1>4. ConsumerInv' /\ HeadInv' /\ Delivered'
  BY DEF Inv, ConsumerInv, HeadInv, Delivered, Dist
<1>5. TailInv'
  <2>1. Reserved = 0 /\ Reserved' \in {0, count}
    BY <1>0 DEF Reserved
  <2>2. Dist(head, s.idx) = published - s.n
    BY DEF Inv, TailInv
  <2>3. Reserved' # 0 => published + count - s.n <= Capacity - 1
    BY <1>0, <1>1, <1>2, <2>2 DEF Reserved, TypeOK, Store
  <2>4. SUFFICES ASSUME NEW x \in tailVis, x.n >= s.n
                 PROVE  /\ s.n <= x.n /\ x.n <= released
                        /\ published + Reserved' - x.n <= Capacity - 1
                        /\ Dist(head, x.idx) = published - x.n
    BY <1>0, <1>1 DEF TailInv, Dist, TypeOK, Store
  <2>5. /\ x \in Store /\ x.n <= released
        /\ published + Reserved - x.n <= Capacity - 1
        /\ Dist(head, x.idx) = published - x.n
    BY DEF Inv, TailInv, TypeOK
  <2>6. s.n \in Nat /\ x.n \in Nat /\ published \in Nat /\ count \in Nat
    BY <1>1, <2>5 DEF TypeOK, Store
  <2>7. CASE Reserved' = 0
    BY <2>1, <2>4, <2>5, <2>6, <2>7
  <2>8. CASE Reserved' # 0
    BY <2>1, <2>3, <2>4, <2>5, <2>6, <2>8
  <2> QED BY <2>7, <2>8
<1>6. RingInv'
  <2>1. Stored = 0 /\ Stored' = 0
    BY <1>0 DEF Stored, Inv, ProducerInv
  <2> QED BY <2>1 DEF Inv, RingInv, Dist
<1>7. CloseInv'
  BY DEF Inv, CloseInv
<1> QED BY <1>3, <1>4, <1>5, <1>6, <1>7 DEF Inv

\* The copy loop: the slot written lies beyond every slot still to be read.
LEMMA WriteSlotInv ==
  ASSUME TypeOK, Inv, WriteSlot
  PROVE  Inv'
<1> USE DEF WriteSlot, prodVars, consVars
<1>1. written < count /\ count \in 1 .. Capacity - 1 /\ written \in Nat
  BY DEF Inv, ProducerInv, TypeOK
<1>2. ProducerInv'
  BY <1>1 DEF Inv, ProducerInv
<1>3. ConsumerInv' /\ HeadInv' /\ CloseInv' /\ Delivered'
  BY <1>1 DEF Inv, ConsumerInv, HeadInv, CloseInv, Delivered, Dist
<1>4. TailInv'
  BY DEF Inv, TailInv, Reserved, Dist
<1>5. RingInv'
  <2> DEFINE n == published - released
  <2>1. /\ n = Dist(head, tail) /\ n \in Slots /\ released \in Nat
        /\ published \in Nat
    BY DistBack DEF Inv, RingInv, TypeOK
  <2>2. n + count <= Capacity - 1
    <3>1. /\ tail_cached.n <= released /\ tail_cached \in Store
          /\ published + count - tail_cached.n <= Capacity - 1
      BY DEF Inv, TailInv, Reserved, TypeOK
    <3> QED BY <1>1, <2>1, <3>1 DEF Store
  <2>3. n + written \in Slots /\ Wrap(head + written) = Wrap(tail + (n + written))
    <3>1. n + written \in Slots
      BY <1>1, <2>1, <2>2 DEF Slots
    <3>2. Wrap(tail + n) = head
      BY <2>1, DistBack DEF TypeOK
    <3>3. tail \in Slots /\ head \in Slots
      BY DEF TypeOK
    <3> QED BY <1>1, <2>1, <2>2, <3>1, <3>2, <3>3 DEF Wrap, Slots
  <2>4. ASSUME NEW k \in 0 .. Capacity - 1, k < n + (written + 1)
        PROVE  buffer'[Wrap(tail + k)] = released + k + 1
    <3>0. tail \in Slots /\ k \in Slots /\ Wrap(tail + k) \in Slots
      BY WrapInSlots DEF TypeOK, Slots
    <3>1. CASE k = n + written
      BY <1>1, <2>1, <2>3, <3>0, <3>1 DEF TypeOK
    <3>2. CASE k < n + written
      <4>1. buffer[Wrap(tail + k)] = released + k + 1
        BY <1>1, <2>1, <3>2 DEF Inv, RingInv, Stored
      <4>2. Wrap(tail + k) # Wrap(head + written)
        BY <1>1, <2>1, <2>3, <3>0, <3>2, WrapInjective
      <4> QED BY <3>0, <4>1, <4>2 DEF TypeOK
    <3> QED BY <1>1, <2>1, <2>4, <3>1, <3>2
  <2>5. Stored' = written + 1
    BY <1>1 DEF Stored
  <2> QED BY <1>1, <2>1, <2>4, <2>5 DEF Inv, RingInv, Dist
<1> QED BY <1>2, <1>3, <1>4, <1>5 DEF Inv

\* The release store of head_ hands over exactly the slots written.
LEMMA PublishInv ==
  ASSUME TypeOK, Inv, Publish
  PROVE  Inv'
<1> USE DEF Publish, prodVars, consVars
<1>1. /\ written = count /\ count \in 1 .. Capacity - 1
      /\ Reserved = count /\ Stored = count /\ Reserved' = 0 /\ Stored' = 0
  BY DEF Inv, ProducerInv, Reserved, Stored
<1>2. head \in Slots /\ tail \in Slots /\ published \in Nat /\ released \in Nat
  BY DEF TypeOK
<1>3. \A s \in tailVis \union {tail_cached} :
        /\ s.idx \in Slots /\ s.n \in Nat
        /\ Dist(head, s.idx) = published - s.n
        /\ published + count - s.n <= Capacity - 1
        /\ tail_cached.n <= s.n /\ s.n <= released
  BY <1>1 DEF Inv, TailInv, TypeOK, Store
<1>4. Dist(head, tail) + count <= Capacity - 1
  BY <1>1, <1>2, <1>3 DEF Inv, RingInv
<1>5. Dist(head', tail) = published' - released
  BY <1>1, <1>2, <1>4, DistGrow DEF Inv, RingInv
<1>6. ProducerInv' /\ ConsumerInv' /\ Delivered'
  BY DEF Inv, ProducerInv, ConsumerInv, Delivered
<1>7. HeadInv'
  <2>1. head_cached \in Store /\ head_cached.n <= published
    BY DEF Inv, HeadInv, TypeOK
  <2>2. SUFFICES ASSUME NEW s \in headVis' \union {head_cached}
                 PROVE  /\ head_cached.n <= s.n /\ released <= s.n
                        /\ s.n <= published'
                        /\ Dist(s.idx, tail) = s.n - released
    BY DEF HeadInv, Dist
  <2>3. CASE s = [idx |-> head', n |-> published']
    BY <1>1, <1>2, <1>5, <2>1, <2>3 DEF Inv, RingInv, Store
  <2>4. CASE s \in headVis \union {head_cached}
    <3>1. /\ s \in Store /\ head_cached.n <= s.n /\ released <= s.n
          /\ s.n <= published /\ Dist(s.idx, tail) = s.n - released
      BY <2>4 DEF Inv, HeadInv, TypeOK
    <3> QED BY <1>1, <1>2, <3>1 DEF Store
  <2> QED BY <2>3, <2>4
<1>8. TailInv'
  <2>1. SUFFICES ASSUME NEW s \in tailVis \union {tail_cached}
                 PROVE  Dist(head', s.idx) = published' - s.n
    BY <1>1, <1>2, <1>3 DEF TailInv, Dist
  <2> QED BY <1>1, <1>2, <1>3, DistGrow
<1>9. RingInv'
  BY <1>1, <1>2, <1>5 DEF Inv, RingInv, Dist
<1>10. CloseInv'
  <2>1. closedBy # "producer"
    BY DEF Inv, CloseInv
  <2>2. /\ "consumer" \in knowsClosed => closed
        /\ closeKnows \in Nat /\ closeKnows <= published
    BY DEF Inv, CloseInv, TypeOK
  <2>3. published' >= closeKnows
    BY <1>1, <1>2, <2>2
  <2> QED BY <2>1, <2>2, <2>3 DEF Inv, CloseInv
<1> QED BY <1>6, <1>7, <1>8, <1>9, <1>10 DEF Inv

\* pop_impl's fast-path test and its view of closed_ being FALSE.
LEMMA PopEnterInv ==
  ASSUME TypeOK, Inv, PopEnter \/ PopSpin
  PROVE  Inv'
<1> USE DEF PopEnter, PopSpin, SeesOpen, prodVars, consVars
<1>1. ConsumerInv'
  <2>1. head_cached.n \in Nat /\ head_cached.idx \in Slots /\ tail \in Slots
        /\ released \in Nat
    BY DEF TypeOK, Store
  <2>2. /\ Dist(head_cached.idx, tail) = head_cached.n - released
        /\ released <= head_cached.n
    BY DEF Inv, HeadInv
  <2>3. tail # head_cached.idx => head_cached.n > released
    BY <2>1, <2>2, DistZero
  <2> QED BY <2>3 DEF ConsumerInv
<1>2. ProducerInv' /\ HeadInv' /\ TailInv' /\ RingInv' /\ Delivered'
  BY DEF Inv, ProducerInv, HeadInv, TailInv, RingInv, Delivered, Dist,
         Reserved, Stored
<1>3. CloseInv'
  BY DEF Inv, CloseInv
<1> QED BY <1>1, <1>2, <1>3 DEF Inv

\* The three loads of head_ in pop_impl: whatever store one returns, the slots
\* up to it have been written.
LEMMA LoadHeadInv ==
  ASSUME TypeOK, Inv, NEW empty \in {"spin", "done"}, LoadHead(empty),
         cpc # "recheck" => empty = "spin"
  PROVE  Inv'
<1> USE DEF LoadHead, prodVars, consVars
<1>1. PICK s \in headVis :
        /\ head_cached' = s
        /\ headVis' = {x \in headVis : x.n >= s.n}
        /\ cpc' = IF tail = s.idx THEN empty ELSE "read"
  OBVIOUS
<1>2. /\ s.idx \in Slots /\ s.n \in Nat /\ tail \in Slots /\ released \in Nat
      /\ closeKnows \in Nat
      /\ released <= s.n /\ Dist(s.idx, tail) = s.n - released
  BY DEF Inv, HeadInv, TypeOK, Store
<1>3. tail # s.idx <=> s.n > released
  BY <1>2, DistZero
<1>4. ConsumerInv'
  <2>1. cpc' = "done" => s.n = released /\ "consumer" \in knowsClosed
    BY <1>1, <1>2, <1>3 DEF Inv, ConsumerInv
  <2>2. cpc' = "done" => released >= closeKnows
    BY <1>1, <2>1 DEF Inv, CloseInv
  <2> QED BY <1>1, <1>3, <2>1, <2>2 DEF ConsumerInv
<1>5. HeadInv'
  BY <1>1, <1>2 DEF Inv, HeadInv, Dist, TypeOK, Store
<1>6. ProducerInv' /\ TailInv' /\ RingInv' /\ Delivered'
  BY DEF Inv, ProducerInv, TailInv, RingInv, Delivered, Dist, Reserved, Stored
<1>7. CloseInv'
  BY <1>1 DEF Inv, CloseInv
<1> QED BY <1>4, <1>5, <1>6, <1>7 DEF Inv

\* Loading closed_ = TRUE makes every publication the closer knew of visible.
LEMMA PopSeesClosedInv ==
  ASSUME TypeOK, Inv, PopSeesClosed
  PROVE  Inv'
<1> USE DEF PopSeesClosed, SeesClosed, prodVars, consVars
<1>1. ProducerInv' /\ TailInv' /\ RingInv' /\ Delivered'
  BY DEF Inv, ProducerInv, TailInv, RingInv, Delivered, Dist, Reserved, Stored
<1>2. ConsumerInv' /\ HeadInv'
  BY DEF Inv, ConsumerInv, HeadInv, Dist
<1>3. CloseInv'
  BY DEF Inv, CloseInv
<1> QED BY <1>1, <1>2, <1>3 DEF Inv

\* The slot at tail_ holds the next item to be delivered.
LEMMA ReadSlotInv ==
  ASSUME TypeOK, Inv, ReadSlot
  PROVE  Inv'
<1> USE DEF ReadSlot, prodVars, consVars
<1>1. buffer[tail] = released + 1
  <2>1. head_cached.n > released /\ head_cached.n <= published
        /\ head_cached.n \in Nat /\ released \in Nat /\ published \in Nat
    BY DEF Inv, ConsumerInv, HeadInv, TypeOK, Store
  <2>2. Stored \in Nat /\ tail \in Slots /\ Wrap(tail + 0) = tail
    BY DEF Stored, TypeOK, Wrap, Slots
  <2>3. 0 < published + Stored - released /\ 0 \in 0 .. Capacity - 1
    BY <2>1, <2>2
  <2>4. buffer[Wrap(tail + 0)] = released + 0 + 1
    BY <2>3 DEF Inv, RingInv
  <2> QED BY <2>1, <2>2, <2>4
<1>2. ConsumerInv'
  BY <1>1 DEF Inv, ConsumerInv
<1>3. ProducerInv' /\ HeadInv' /\ TailInv' /\ RingInv' /\ CloseInv' /\ Delivered'
  BY DEF Inv, ProducerInv, HeadInv, TailInv, RingInv, CloseInv, Delivered,
         Dist, Reserved, Stored
<1> QED BY <1>2, <1>3 DEF Inv

\* The release store of tail_ and the call of fn: the item delivered is the
\* next one, and the slot given back is no longer needed.
LEMMA ReleaseSlotInv ==
  ASSUME TypeOK, Inv, ReleaseSlot
  PROVE  Inv'
<1> USE DEF ReleaseSlot, prodVars, consVars
<1>1. /\ head_cached.n > released /\ head_cached.n <= published
      /\ head_cached.n \in Nat /\ released \in Nat /\ published \in Nat
      /\ head \in Slots /\ tail \in Slots /\ item = released + 1
  BY DEF Inv, ConsumerInv, HeadInv, TypeOK, Store
<1>2. \A s \in headVis \union {head_cached} :
        /\ s.idx \in Slots /\ s.n \in Nat /\ head_cached.n <= s.n
        /\ Dist(s.idx, tail) = s.n - released
  BY DEF Inv, HeadInv, TypeOK, Store
<1>3. Dist(head, tail) = published - released /\ head # tail
  <2>1. Dist(head, tail) = published - released
    BY DEF Inv, RingInv
  <2> QED BY <1>1, <2>1, DistZero
<1>4. Dist(head, tail') = published - released'
  BY <1>1, <1>3, DistShrink
<1>5. ProducerInv' /\ CloseInv'
  BY DEF Inv, ProducerInv, CloseInv
<1>6. ConsumerInv'
  <2>1. cpc' = "idle"
    OBVIOUS
  <2> QED BY <2>1 DEF ConsumerInv
<1>7. Delivered'
  <2>1. received = [k \in 1 .. released |-> k] /\ received \in Seq(Nat)
    BY DEF Inv, Delivered, TypeOK
  <2>2. received' = [k \in 1 .. released' |-> k]
    BY <1>1, <2>1
  <2> QED BY <2>2 DEF Delivered
<1>8. HeadInv'
  <2>1. ASSUME NEW s \in headVis \union {head_cached}
        PROVE  Dist(s.idx, tail') = s.n - released' /\ released' <= s.n
    <3>1. s.n > released
      BY <1>1, <1>2
    <3>2. s.idx # tail
      BY <1>1, <1>2, <3>1, DistZero
    <3> QED BY <1>1, <1>2, <3>1, <3>2, DistShrink
  <2> QED BY <2>1 DEF Inv, HeadInv, Dist
<1>9. TailInv'
  <2>1. SUFFICES ASSUME NEW s \in tailVis' \union {tail_cached}
                 PROVE  /\ tail_cached.n <= s.n /\ s.n <= released'
                        /\ published + Reserved - s.n <= Capacity - 1
                        /\ Dist(head, s.idx) = published - s.n
    BY DEF TailInv, Dist, Reserved
  <2>2. \A x \in tailVis \union {tail_cached} :
          /\ tail_cached.n <= x.n /\ x.n <= released /\ x.n \in Nat
          /\ published + Reserved - x.n <= Capacity - 1
          /\ Dist(head, x.idx) = published - x.n
    BY DEF Inv, TailInv, TypeOK, Store
  <2>3. Reserved \in Nat
    BY DEF Reserved, TypeOK
  <2>4. CASE s = [idx |-> tail', n |-> released']
    BY <1>1, <1>4, <2>2, <2>3, <2>4
  <2>5. CASE s \in tailVis \union {tail_cached}
    BY <1>1, <2>2, <2>5
  <2> QED BY <2>4, <2>5
<1>10. RingInv'
  <2>1. Stored \in Nat /\ Stored' = Stored
    BY DEF Stored, TypeOK
  <2>2. ASSUME NEW k \in 0 .. Capacity - 1,
               k < published + Stored - (released + 1)
        PROVE  buffer[Wrap(Wrap(tail + 1) + k)] = (released + 1) + k + 1
    <3>1. k + 1 <= Capacity - 1
      <4>1. published + Reserved - tail_cached.n <= Capacity - 1
            /\ tail_cached.n <= released /\ tail_cached.n \in Nat
        BY DEF Inv, TailInv, TypeOK, Store
      <4>2. Stored <= Reserved /\ Reserved \in Nat
        BY DEF Inv, ProducerInv, Stored, Reserved, TypeOK
      <4> QED BY <1>1, <2>1, <2>2, <4>1, <4>2
    <3>2. Wrap(Wrap(tail + 1) + k) = Wrap(tail + (k + 1))
      BY <1>1, <3>1 DEF Wrap, Slots
    <3>3. buffer[Wrap(tail + (k + 1))] = released + (k + 1) + 1
      <4>1. k + 1 \in 0 .. Capacity - 1 /\ k + 1 < published + Stored - released
        BY <1>1, <2>1, <2>2, <3>1
      <4> QED BY <4>1 DEF Inv, RingInv
    <3> QED BY <1>1, <3>2, <3>3
  <2>3. released' <= published
    BY <1>1
  <2> QED BY <1>4, <2>1, <2>2, <2>3 DEF RingInv, Dist
<1> QED BY <1>5, <1>6, <1>7, <1>8, <1>9, <1>10 DEF Inv

\* close_impl, by the producer or by another thread.
LEMMA CloseStepInv ==
  ASSUME TypeOK, Inv, ProducerClose \/ OtherClose
  PROVE  Inv'
<1> USE DEF ProducerClose, OtherClose, prodVars, consVars
<1>1. ProducerInv' /\ HeadInv' /\ TailInv' /\ RingInv' /\ Delivered'
  BY DEF Inv, ProducerInv, HeadInv, TailInv, RingInv, Delivered, Dist,
         Reserved, Stored
<1>2. knowsClosed = {} /\ "consumer" \notin knowsClosed'
  BY DEF Inv, CloseInv
<1>3. ConsumerInv'
  BY <1>2 DEF Inv, ConsumerInv
<1>4. CloseInv'
  BY <1>2 DEF CloseInv, TypeOK
<1> QED BY <1>1, <1>3, <1>4 DEF Inv

\* Steps that change nothing.
LEMMA StutterInv ==
  ASSUME Inv, UNCHANGED vars
  PROVE  Inv'
BY DEF vars, Inv, ProducerInv, ConsumerInv, HeadInv, TailInv, RingInv,
       CloseInv, Delivered, Dist, Reserved, Stored

\* Inv is inductive relative to TypeOK.
LEMMA NextInv == TypeOK /\ Inv /\ [Next]_vars => Inv'
<1> SUFFICES ASSUME TypeOK, Inv, [Next]_vars PROVE Inv'
  OBVIOUS
<1>1. CASE Push
  <2>1. CASE PushEnter(FALSE, 1)
    <3>1. 1 \in 1 .. Capacity - 1
      OBVIOUS
    <3> QED BY <2>1, <3>1, PushEnterInv
  <2>2. ASSUME NEW n \in 1 .. Capacity - 1, PushEnter(TRUE, n) PROVE Inv'
    BY <2>2, PushEnterInv
  <2> QED BY <1>1, <2>1, <2>2, PushWaitInv DEF Push
<1>2. CASE Producer
  BY <1>2, PushWaitInv, LoadTailInv, WriteSlotInv, PublishInv DEF Producer
<1>3. CASE Consumer
  <2>1. CASE PopLoad \/ PopRespin \/ PopRecheck
    BY <2>1, LoadHeadInv DEF PopLoad, PopRespin, PopRecheck
  <2> QED BY <1>3, <2>1, PopEnterInv, PopSeesClosedInv, ReadSlotInv,
             ReleaseSlotInv DEF Consumer
<1>4. CASE ProducerClose \/ OtherClose
  BY <1>4, CloseStepInv
<1>5. CASE Terminated \/ UNCHANGED vars
  BY <1>5, StutterInv DEF Terminated
<1> QED BY <1>1, <1>2, <1>3, <1>4, <1>5 DEF Next
-----------------------------------------------------------------------------
\* TypeOK is an invariant, and so is Inv.
THEOREM Typing == Spec => [](TypeOK /\ Inv)
<1>1. TypeOK /\ Inv /\ [Next]_vars => (TypeOK /\ Inv)'
  BY TypeStep, NextInv
<1> QED BY InitInv, <1>1, PTL DEF Spec

\* fn is called with the items in push order, each one once.
THEOREM FifoDelivery == Spec => []Delivered
<1>1. Inv => Delivered
  BY DEF Inv
<1> QED BY <1>1, Typing, PTL

\* The two threads never access a slot without an ordering between them.
THEOREM NoDataRace == Spec => []RaceFree
<1>1. TypeOK /\ Inv => RaceFree
  <2> SUFFICES ASSUME TypeOK, Inv PROVE RaceFree
    OBVIOUS
  <2>1. ASSUME ppc = "write"
        PROVE  published + written + 1 - Capacity <= tail_cached.n
    <3>1. published + Reserved - tail_cached.n <= Capacity - 1
      BY DEF Inv, TailInv
    <3>2. Reserved = count /\ written < count
      BY <2>1 DEF Inv, ProducerInv, Reserved
    <3> QED BY <3>1, <3>2 DEF TypeOK, Store
  <2>2. cpc = "read" => released + 1 <= head_cached.n
    BY DEF Inv, ConsumerInv, TypeOK, Store
  <2> QED BY <2>1, <2>2 DEF RaceFree
<1> QED BY <1>1, Typing, PTL

\* pop returns false only when what was pushed before close() was delivered.
THEOREM DrainedAtEnd == Spec => []EndMeansDrained
<1>1. TypeOK /\ Inv => EndMeansDrained
  BY DEF EndMeansDrained, TypeOK, Inv, ConsumerInv, CloseInv, RingInv
<1> QED BY <1>1, Typing, PTL
-----------------------------------------------------------------------------
(* The ring buffer implements Channel. *)

\* The content of the abstract queue is a sequence; nothing but the two indices
\* changes it.
Content == [k \in 1 .. published - released |-> released + k]

\* The queue's content, the items released + 1 .. published, as a sequence.
LEMMA ContentSeq ==
  ASSUME TypeOK, Inv
  PROVE  /\ Content \in Seq(Nat) /\ Len(Content) = published - released
         /\ published - released \in Nat
<1>1. published - released \in Nat /\ released \in Nat
  BY DEF TypeOK, Inv, RingInv
<1> QED BY <1>1 DEF Content

\* The store of head_ appends the items of the push.
LEMMA PublishSends ==
  ASSUME TypeOK, Inv, Inv', TypeOK', Publish
  PROVE  Abstract!Send
<1>1. /\ count \in 1 .. Capacity - 1 /\ published \in Nat /\ released \in Nat
      /\ published' = published + count /\ released' = released
      /\ closedBy # "producer" /\ closedBy' = closedBy /\ cpc' = cpc
  BY DEF Publish, consVars, Inv, ProducerInv, CloseInv, TypeOK
<1>2. Content' = [k \in 1 .. (published + count) - released |-> released + k]
  BY <1>1 DEF Content
<1>3. SubSeq(Content', 1, published - released) = Content
  BY <1>1, <1>2, ContentSeq DEF Content
<1>4. Len(Content') > Len(Content)
  BY <1>1, <1>2, ContentSeq
<1> QED BY <1>1, <1>3, <1>4, ContentSeq DEF Abstract!Send, Content

\* The store of tail_ takes the oldest item.
LEMMA ReleaseTakes ==
  ASSUME TypeOK, Inv, ReleaseSlot
  PROVE  Abstract!Take
<1>1. /\ published \in Nat /\ released \in Nat /\ released < published
      /\ released' = released + 1 /\ published' = published
      /\ closedBy' = closedBy /\ cpc = "release" /\ cpc' = "idle"
  BY DEF ReleaseSlot, Inv, ConsumerInv, HeadInv, TypeOK, Store
<1>2. Content' = [k \in 1 .. published - (released + 1) |-> (released + 1) + k]
  BY <1>1 DEF Content
<1>3. Content' = Tail(Content) /\ Content # <<>>
  BY <1>1, <1>2, ContentSeq DEF Content
<1> QED BY <1>1, <1>3 DEF Abstract!Take, Content

\* The producer's close closes the channel; another thread's changes nothing.
LEMMA CloseCloses ==
  ASSUME TypeOK, Inv, ProducerClose \/ OtherClose
  PROVE  Abstract!Next \/ UNCHANGED Abstract!vars
<1>1. /\ closedBy = "none" /\ closedBy' \in {"producer", "other"}
      /\ published' = published /\ released' = released
      /\ cpc # "done" /\ cpc' = cpc
  BY DEF ProducerClose, OtherClose, prodVars, consVars, Inv, ConsumerInv,
         CloseInv
<1>2. Content' = Content
  BY <1>1 DEF Content
<1>3. CASE closedBy' = "producer"
  BY <1>1, <1>2, <1>3 DEF Abstract!Next, Abstract!Close, Content
<1>4. CASE closedBy' = "other"
  BY <1>1, <1>2, <1>4 DEF Abstract!vars, Content
<1> QED BY <1>1, <1>3, <1>4

\* A load of head_ ends the channel or changes nothing of it.
LEMMA LoadEnds ==
  ASSUME TypeOK, Inv, TypeOK', Inv', NEW empty \in {"spin", "done"},
         LoadHead(empty), cpc # "done"
  PROVE  Abstract!Next \/ UNCHANGED Abstract!vars
<1>1. /\ closedBy' = closedBy /\ published' = published /\ released' = released
      /\ closeKnows' = closeKnows
  BY DEF LoadHead, prodVars
<1>2. Content' = Content
  BY <1>1 DEF Content
<1>3. CASE closedBy = "producer" /\ cpc' = "done"
  <2>1. released = published /\ released \in Nat
    BY <1>1, <1>3 DEF TypeOK, Inv, ConsumerInv, CloseInv, RingInv
  <2>2. Content = <<>>
    BY <2>1 DEF Content
  <2> QED BY <1>1, <1>2, <1>3, <2>2 DEF Abstract!Next, Abstract!End, Content
<1>4. CASE ~(closedBy = "producer" /\ cpc' = "done")
  BY <1>1, <1>2, <1>4 DEF Abstract!vars, Content
<1> QED BY <1>3, <1>4

\* The other actions leave what the channel shows alone.
LEMMA OtherStutters ==
  ASSUME \/ Push \/ PushSpin \/ LoadTail \/ WriteSlot \/ PopEnter \/ PopSpin
         \/ PopSeesClosed \/ ReadSlot \/ Terminated \/ UNCHANGED vars
  PROVE  UNCHANGED Abstract!vars
<1>1. published' = published /\ released' = released /\ closedBy' = closedBy
  BY DEF Push, PushEnter, PushThrow, PushSpin, LoadTail, WriteSlot, PopEnter,
         PopSpin, PopSeesClosed, ReadSlot, Terminated, vars, prodVars, consVars
<1>2. (cpc' = "done") = (cpc = "done")
  BY DEF Push, PushEnter, PushThrow, PushSpin, LoadTail, WriteSlot, PopEnter,
         PopSpin, PopSeesClosed, ReadSlot, Terminated, vars, prodVars, consVars
<1> QED BY <1>1, <1>2 DEF Abstract!vars

\* Every step of the ring buffer is a step of the channel or none.
LEMMA StepImplements ==
  TypeOK /\ Inv /\ TypeOK' /\ Inv' /\ [Next]_vars => [Abstract!Next]_(Abstract!vars)
<1> SUFFICES ASSUME TypeOK, Inv, TypeOK', Inv', [Next]_vars
             PROVE  Abstract!Next \/ UNCHANGED Abstract!vars
  OBVIOUS
<1>1. CASE Publish
  BY <1>1, PublishSends DEF Abstract!Next
<1>2. CASE ReleaseSlot
  BY <1>2, ReleaseTakes DEF Abstract!Next
<1>3. CASE ProducerClose \/ OtherClose
  BY <1>3, CloseCloses
<1>4. CASE PopLoad \/ PopRespin \/ PopRecheck
  BY <1>4, LoadEnds DEF PopLoad, PopRespin, PopRecheck
<1> QED BY <1>1, <1>2, <1>3, <1>4, OtherStutters DEF Next, Producer, Consumer

\* The ring buffer is a FIFO channel with one end-of-stream: push appends, pop
\* takes from the front, and the end comes when it is closed and empty.
THEOREM IsChannel == Spec => ImplementsChannel
<1>1. Init => Abstract!Init
  BY DEF Init, Abstract!Init
<1>2. TypeOK /\ Inv /\ TypeOK' /\ Inv' /\ [Next]_vars
        => [Abstract!Next]_(Abstract!vars)
  BY StepImplements
<1> QED BY <1>1, <1>2, Typing, PTL DEF Spec, Abstract!Spec, ImplementsChannel
=============================================================================
