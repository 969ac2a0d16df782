--------------------------- MODULE LockFreeQueue ---------------------------
(***************************************************************************)
(* The SPSC ring buffer of src/common/LockFreeQueue.hpp, one action per    *)
(* access to shared memory.                                                *)
(*                                                                         *)
(* Memory model.  head_ and tail_ have a single writer each, which stores  *)
(* them with release; the other thread loads them with acquire.  An        *)
(* acquire load need not return the newest store: it may return any store  *)
(* not older than one the thread already knows of.  headVis (tailVis) is   *)
(* the set of head_ (tail_) stores the consumer (producer) may still load; *)
(* loading one discards the older ones.  The store of closed_ is also a    *)
(* release, so a thread that loads TRUE knows every head_ store its closer *)
(* knew of.  What one thread learns of closed_ through head_ or tail_ is   *)
(* not tracked, so the model has all the executions the C++ memory model   *)
(* allows, and some more.                                                  *)
(*                                                                         *)
(* A store is a record [idx, n]: idx is the stored index, n the number of  *)
(* items published (released) by it.  n is auxiliary: no guard reads it    *)
(* except to order the stores.  The n-th item published is the number n.   *)
(***************************************************************************)
EXTENDS Integers, Sequences

CONSTANTS Capacity,     \* slots of the ring; one is always left free
          MaxItems      \* bound on the number of items pushed

\* Capacity is a power of two in the code (static_assert); only Capacity >= 2
\* matters here.
ASSUME ConstAssumption == /\ Capacity \in Nat /\ Capacity >= 2
                          /\ MaxItems \in Nat

VARIABLES
  buffer,       \* buffer_: slot -> item, 0 where nothing was stored yet
  head,         \* newest value of head_, the next slot to write
  tail,         \* newest value of tail_, the next slot to read
  headVis,      \* head_ stores the consumer may still load
  tailVis,      \* tail_ stores the producer may still load
  tail_cached,  \* the producer's snapshot of tail_
  head_cached,  \* the consumer's snapshot of head_
  closedBy,     \* who stored closed_ = TRUE: "none", "producer" or "other"
  knowsClosed,  \* the threads that have loaded (or stored) closed_ = TRUE
  closeKnows,   \* items whose publication happens before the close
  published,    \* auxiliary: items made visible through head_
  released,     \* auxiliary: slots given back through tail_
  ppc, count, batch, written,  \* producer: location, locals count and i
  cpc, item,                   \* consumer: location, local item
  received      \* auxiliary: what fn was called with, in order

prodVars == <<ppc, count, batch, written, tail_cached, tailVis>>
consVars == <<cpc, item, received, head_cached, released, tail>>
vars == <<buffer, head, tail, headVis, tailVis, tail_cached, head_cached,
          closedBy, knowsClosed, closeKnows, published, released,
          ppc, count, batch, written, cpc, item, received>>

closed == closedBy # "none"   \* closed_

Slots == 0 .. Capacity - 1
Store == [idx : Slots, n : Nat]

\* i & MASK for the i < 2 * Capacity the code forms.
Wrap(i) == IF i < Capacity THEN i ELSE i - Capacity

Init ==
  /\ buffer = [s \in Slots |-> 0]
  /\ head = 0 /\ tail = 0
  /\ headVis = {[idx |-> 0, n |-> 0]} /\ tailVis = {[idx |-> 0, n |-> 0]}
  /\ tail_cached = [idx |-> 0, n |-> 0] /\ head_cached = [idx |-> 0, n |-> 0]
  /\ closedBy = "none" /\ knowsClosed = {} /\ closeKnows = 0
  /\ published = 0 /\ released = 0
  /\ ppc = "idle" /\ count = 0 /\ batch = FALSE /\ written = 0
  /\ cpc = "idle" /\ item = 0 /\ received = <<>>

\* closed_.load(acquire) returning TRUE, or FALSE, in thread t.
SeesClosed(t) == closed /\ knowsClosed' = knowsClosed \union {t}
SeesOpen(t)   == t \notin knowsClosed /\ UNCHANGED knowsClosed
-----------------------------------------------------------------------------
(* Producer: push_impl and push_batch_impl *)

\* Faulty variant: the free slot that tells full from empty is given away.
HasSpace_noGap(isBatch, n, c) ==
  IF isBatch THEN Wrap(c.idx - head - 1 + Capacity) + 1 >= n
             ELSE Wrap(head + 1) # c.idx

\* Is there room for n items, going by the snapshot c of tail_?  push_impl
\* compares next_h with it, push_batch_impl counts the free slots.
HasSpace(isBatch, n, c) ==
  IF isBatch THEN Wrap(c.idx - head - 1 + Capacity) >= n
             ELSE Wrap(head + 1) # c.idx

\* The closed_ check on entry and the fast-path test of the snapshot.  A batch
\* of 0, or of Capacity or more, returns or throws without touching the queue.
PushEnter(isBatch, n) ==
  /\ ppc = "idle"
  /\ published + n <= MaxItems
  /\ SeesOpen("producer")
  /\ count' = n /\ batch' = isBatch /\ written' = 0
  /\ ppc' = IF HasSpace(isBatch, n, tail_cached) THEN "write" ELSE "spin"
  /\ UNCHANGED <<buffer, head, headVis, tailVis, tail_cached, closedBy,
                 closeKnows, published, consVars>>

\* "queue is closed": on entry, or in the spin loop with nothing yet stored.
PushThrow ==
  /\ ppc \in {"idle", "spin"}
  /\ SeesClosed("producer")
  /\ ppc' = "idle"
  /\ UNCHANGED <<buffer, head, headVis, tailVis, tail_cached, closedBy,
                 closeKnows, published, count, batch, written, consVars>>

\* Spin loop: closed_ is still seen open ...
PushSpin ==
  /\ ppc = "spin"
  /\ SeesOpen("producer")
  /\ ppc' = "refresh"
  /\ UNCHANGED <<buffer, head, headVis, tailVis, tail_cached, closedBy,
                 closeKnows, published, count, batch, written, consVars>>

\* Faulty variant: the spin loop never refreshes the snapshot.
LoadTail_stale ==
  /\ ppc = "refresh"
  /\ ppc' = IF HasSpace(batch, count, tail_cached) THEN "write" ELSE "spin"
  /\ UNCHANGED <<buffer, head, headVis, tailVis, tail_cached, closedBy,
                 knowsClosed, closeKnows, published, count, batch, written,
                 consVars>>

\* ... so tail_ is loaded again and the room tested again.
LoadTail ==
  /\ ppc = "refresh"
  /\ \E s \in tailVis :
       /\ tail_cached' = s
       /\ tailVis' = {x \in tailVis : x.n >= s.n}
       /\ ppc' = IF HasSpace(batch, count, s) THEN "write" ELSE "spin"
  /\ UNCHANGED <<buffer, head, headVis, closedBy, knowsClosed, closeKnows,
                 published, count, batch, written, consVars>>

\* Faulty variant: the copy loop stops one item short.
WriteSlot_short ==
  /\ ppc = "write"
  /\ buffer' = [buffer EXCEPT ![Wrap(head + written)] = published + written + 1]
  /\ written' = written + 1
  /\ ppc' = IF written + 2 >= count THEN "publish" ELSE "write"
  /\ UNCHANGED <<head, headVis, tailVis, tail_cached, closedBy, knowsClosed,
                 closeKnows, published, count, batch, consVars>>

\* buffer_[(h + i) & MASK] = std::move(items[i])
WriteSlot ==
  /\ ppc = "write"
  /\ buffer' = [buffer EXCEPT ![Wrap(head + written)] = published + written + 1]
  /\ written' = written + 1
  /\ ppc' = IF written + 1 = count THEN "publish" ELSE "write"
  /\ UNCHANGED <<head, headVis, tailVis, tail_cached, closedBy, knowsClosed,
                 closeKnows, published, count, batch, consVars>>

\* head_.store((h + count) & MASK, release)
Publish ==
  /\ ppc = "publish"
  /\ head' = Wrap(head + count)
  /\ published' = published + count
  /\ headVis' = headVis \union {[idx |-> head', n |-> published']}
  /\ ppc' = "idle"
  /\ UNCHANGED <<buffer, tailVis, tail_cached, closedBy, knowsClosed,
                 closeKnows, count, batch, written, consVars>>
-----------------------------------------------------------------------------
(* Consumer: pop_impl, called until it returns false *)

\* tail_ is the consumer's own; the snapshot says whether the queue is empty.
PopEnter ==
  /\ cpc = "idle"
  /\ cpc' = IF tail = head_cached.idx THEN "load" ELSE "read"
  /\ UNCHANGED <<buffer, head, headVis, closedBy, knowsClosed, closeKnows,
                 published, prodVars, item, received, head_cached, released,
                 tail>>

\* head_cached_ = head_.load(acquire), then on to empty if it equals t.
LoadHead(empty) ==
  /\ \E s \in headVis :
       /\ head_cached' = s
       /\ headVis' = {x \in headVis : x.n >= s.n}
       /\ cpc' = IF tail = s.idx THEN empty ELSE "read"
  /\ UNCHANGED <<buffer, head, closedBy, knowsClosed, closeKnows, published,
                 prodVars, item, received, released, tail>>

PopLoad    == cpc = "load"    /\ LoadHead("spin")   \* slow path
PopRespin  == cpc = "respin"  /\ LoadHead("spin")   \* end of the spin loop
\* Faulty variant: closed means the end, without another look at head_.
PopRecheck_missing ==
  /\ cpc = "recheck" /\ cpc' = "done"
  /\ UNCHANGED <<buffer, head, headVis, closedBy, knowsClosed, closeKnows,
                 published, prodVars, item, received, head_cached, released,
                 tail>>

PopRecheck == cpc = "recheck" /\ LoadHead("done")   \* closed: look once more

\* The closed_ test of the spin loop, seeing FALSE ...
PopSpin ==
  /\ cpc = "spin"
  /\ SeesOpen("consumer")
  /\ cpc' = "respin"
  /\ UNCHANGED <<buffer, head, headVis, closedBy, closeKnows, published,
                 prodVars, item, received, head_cached, released, tail>>

\* Faulty variants: closed_ loaded without acquire; closed_ not loaded at all.
PopSeesClosed_relaxed ==
  /\ cpc = "spin"
  /\ SeesClosed("consumer")
  /\ cpc' = "recheck"
  /\ UNCHANGED <<buffer, head, headVis, closedBy, closeKnows, published, prodVars,
                 item, received, head_cached, released, tail>>
PopSeesClosed_missing == FALSE /\ UNCHANGED vars

\* ... or TRUE: every publication the closer knew of is now visible.
PopSeesClosed ==
  /\ cpc = "spin"
  /\ SeesClosed("consumer")
  /\ headVis' = {x \in headVis : x.n >= closeKnows}
  /\ cpc' = "recheck"
  /\ UNCHANGED <<buffer, head, closedBy, closeKnows, published, prodVars, item,
                 received, head_cached, released, tail>>

\* T item = std::move(buffer_[t])
ReadSlot ==
  /\ cpc = "read"
  /\ item' = buffer[tail]
  /\ cpc' = "release"
  /\ UNCHANGED <<buffer, head, headVis, closedBy, knowsClosed, closeKnows,
                 published, prodVars, received, head_cached, released, tail>>

\* tail_.store((t + 1) & MASK, release), then fn(item), which is private to
\* the consumer.
ReleaseSlot ==
  /\ cpc = "release"
  /\ tail' = Wrap(tail + 1)
  /\ released' = released + 1
  /\ tailVis' = tailVis \union {[idx |-> tail', n |-> released']}
  /\ received' = Append(received, item)
  /\ cpc' = "idle"
  /\ UNCHANGED <<buffer, head, headVis, closedBy, knowsClosed, closeKnows,
                 published, ppc, count, batch, written, tail_cached, item,
                 head_cached>>
-----------------------------------------------------------------------------
(* close_impl, by the producer between two pushes or by another thread *)

ProducerClose ==
  /\ ~closed /\ ppc = "idle"
  /\ closedBy' = "producer"
  /\ closeKnows' = published
  /\ knowsClosed' = knowsClosed \union {"producer"}
  /\ UNCHANGED <<buffer, head, headVis, published, prodVars, consVars>>

\* Another thread may know of fewer publications than there are.
OtherClose ==
  /\ ~closed
  /\ closedBy' = "other"
  /\ closeKnows' \in 0 .. published
  /\ UNCHANGED <<buffer, head, headVis, knowsClosed, published, prodVars,
                 consVars>>

\* All calls have returned: the producer will not push again (it has closed
\* the queue), the consumer was told the end.
Terminated == closed /\ ppc = "idle" /\ cpc = "done" /\ UNCHANGED vars

Push == \/ PushEnter(FALSE, 1)
        \/ \E n \in 1 .. Capacity - 1 : PushEnter(TRUE, n)
        \/ PushThrow

Producer == PushSpin \/ LoadTail \/ WriteSlot \/ Publish
Consumer == \/ PopEnter \/ PopLoad \/ PopSpin \/ PopSeesClosed \/ PopRespin
            \/ PopRecheck \/ ReadSlot \/ ReleaseSlot

Next == Push \/ Producer \/ Consumer \/ ProducerClose \/ OtherClose \/ Terminated

Spec == Init /\ [][Next]_vars

\* A thread in a call keeps running, and a store becomes visible in finite
\* time: a load does not return the old value for ever.
SeesNewestTail == LoadTail /\ tail_cached'.n = released
SeesNewestHead == (PopLoad \/ PopRespin) /\ head_cached'.n = published
Fairness == /\ WF_vars(Producer) /\ WF_vars(Consumer)
            /\ SF_vars(ppc = "spin" /\ PushThrow)
            /\ SF_vars(SeesNewestTail) /\ SF_vars(SeesNewestHead)
            /\ SF_vars(PopSeesClosed)

FairSpec == Spec /\ Fairness
-----------------------------------------------------------------------------
(* Properties *)

\* Every variable keeps its type; in particular the indices stay in the ring.
TypeOK ==
  /\ buffer \in [Slots -> Nat]
  /\ head \in Slots /\ tail \in Slots
  /\ headVis \subseteq Store /\ tailVis \subseteq Store
  /\ tail_cached \in Store /\ head_cached \in Store
  /\ closedBy \in {"none", "producer", "other"} /\ knowsClosed \subseteq {"producer", "consumer"}
  /\ closeKnows \in Nat /\ published \in Nat /\ released \in Nat
  /\ ppc \in {"idle", "spin", "refresh", "write", "publish"}
  /\ count \in Nat /\ batch \in BOOLEAN /\ written \in Nat
  /\ cpc \in {"idle", "load", "spin", "recheck", "respin", "read", "release",
              "done"}
  /\ item \in Nat
  /\ received \in Seq(Nat)

\* fn is called with the items in the order they were pushed, each one once:
\* none is lost, repeated, overwritten in its slot or read before it is stored,
\* however stale the indices each side works with (push_impl, pop_impl).
Delivered == received = [k \in 1 .. released |-> k]

\* buffer_ is never accessed by both threads without an ordering between them
\* (a data race).  The previous occupant of the slot about to be written, item
\* published + written + 1 - Capacity, was read before a store of tail_ the
\* producer has loaded; the item about to be read was written before a store
\* of head_ the consumer has loaded (class comment on memory ordering).
RaceFree ==
  /\ ppc = "write" => published + written + 1 - Capacity <= tail_cached.n
  /\ cpc = "read" => released + 1 <= head_cached.n

\* pop returns false only when everything whose push happened before close()
\* was delivered (the re-check in pop_impl), which is everything there will
\* ever be when the producer closed the queue.
EndMeansDrained ==
  cpc = "done" => /\ released >= closeKnows
                  /\ closedBy = "producer" => released = published /\ ppc = "idle"

\* After close() the consumer's drain loop ends, whoever closed the queue.
EndIsReached == closed ~> cpc = "done"

\* A push waiting for room returns or throws: it does not spin for ever.
PushReturns == ppc = "spin" ~> ppc = "idle"

\* The queue is a FIFO channel: the items are appended by the store of head_
\* and taken by the store of tail_.  A close() by another thread, which a push
\* in progress may outrun, does not close the channel; its end is the subject
\* of EndMeansDrained and EndIsReached.
Abstract == INSTANCE Channel WITH
              queue <- [k \in 1 .. published - released |-> released + k],
              closed <- (closedBy = "producer"),
              ended <- (closedBy = "producer" /\ cpc = "done")
ImplementsChannel == Abstract!Spec
-----------------------------------------------------------------------------
(* The inductive invariant behind Delivered, RaceFree and EndMeansDrained *)

\* Slots from index b forward to index a.
Dist(a, b) == Wrap(a - b + Capacity)

\* Slots reserved by, and stored by, a push that has not published them yet.
Reserved == IF ppc \in {"write", "publish"} THEN count ELSE 0
Stored   == IF ppc \in {"write", "publish"} THEN written ELSE 0

\* The producer's progress through a call.
ProducerInv ==
  /\ ppc # "idle" => count \in 1 .. Capacity - 1 /\ (~batch => count = 1)
  /\ ppc \in {"spin", "refresh"} => written = 0
  /\ ppc = "write" => written < count
  /\ ppc = "publish" => written = count

\* The consumer's progress through a call.
ConsumerInv ==
  /\ cpc \in {"read", "release"} => head_cached.n > released
  /\ cpc \in {"recheck", "done"} => "consumer" \in knowsClosed
  /\ cpc = "done" => released >= closeKnows
  /\ cpc = "release" => item = released + 1

\* A store of head_ (tail_) that can still be loaded is no older than the
\* snapshot, and its index and its count agree.
HeadInv ==
  \A s \in headVis \union {head_cached} :
    /\ head_cached.n <= s.n /\ released <= s.n /\ s.n <= published
    /\ Dist(s.idx, tail) = s.n - released
TailInv ==
  \A s \in tailVis \union {tail_cached} :
    /\ tail_cached.n <= s.n /\ s.n <= released
    /\ published + Reserved - s.n <= Capacity - 1
    /\ Dist(head, s.idx) = published - s.n

\* head_ and tail_ themselves, and the slots between them.
RingInv ==
  /\ released <= published
  /\ Dist(head, tail) = published - released
  /\ \A k \in 0 .. Capacity - 1 :
       k < published + Stored - released =>
         buffer[Wrap(tail + k)] = released + k + 1

\* What a closed queue has told whom.
CloseInv ==
  /\ closeKnows <= published
  /\ knowsClosed # {} => closed
  /\ "consumer" \in knowsClosed => \A s \in headVis : s.n >= closeKnows
  /\ closedBy = "producer" =>
       ppc = "idle" /\ "producer" \in knowsClosed /\ closeKnows = published

Inv == /\ ProducerInv /\ ConsumerInv /\ HeadInv /\ TailInv /\ RingInv
       /\ CloseInv /\ Delivered
=============================================================================
