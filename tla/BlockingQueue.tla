--------------------------- MODULE BlockingQueue ---------------------------
(***************************************************************************)
(* The MPMC queue of src/common/BlockingQueue.hpp: a std::queue and a      *)
(* closed flag under mutex_, a condition variable not_empty_.  A critical  *)
(* section of mutex_ is one action.  The notification follows the unlock,  *)
(* so it is a step of its own, and so is the call of fn in pop.  A waiter  *)
(* that was notified must win the mutex again before it tests the          *)
(* predicate; a waiter may also wake spuriously.                           *)
(*                                                                         *)
(* The k-th item accepted from producer p is the pair <<p, k>>.            *)
(***************************************************************************)
EXTENDS Naturals, Sequences, FiniteSets

CONSTANTS Producers,  \* threads that call push, push_batch and close
          Consumers,  \* threads that call pop until it returns false
          MaxItems    \* bound on the items each producer pushes

ASSUME ConstAssumption == /\ IsFiniteSet(Producers) /\ IsFiniteSet(Consumers)
                          /\ MaxItems \in Nat

VARIABLES queue,     \* queue_
          closed,    \* closed_
          ppc,       \* producer -> where it is
          sent,      \* producer -> number of its items accepted
          cpc,       \* consumer -> where it is; "waiting" is in not_empty_.wait
          item,      \* consumer -> local item of pop
          delivered  \* consumer -> auxiliary: what its fn was called with

vars == <<queue, closed, ppc, sent, cpc, item, delivered>>

Item == Producers \X (Nat \ {0})
NoItem == <<>>

Init ==
  /\ queue = <<>> /\ closed = FALSE
  /\ ppc = [p \in Producers |-> "idle"] /\ sent = [p \in Producers |-> 0]
  /\ cpc = [c \in Consumers |-> "idle"] /\ item = [c \in Consumers |-> NoItem]
  /\ delivered = [c \in Consumers |-> <<>>]

At(pc, l) == {t \in DOMAIN pc : pc[t] = l}
Waiting == At(cpc, "waiting")
-----------------------------------------------------------------------------
(* Producers *)

\* The critical section of push (n = 1) and push_batch, then the notification
\* that it owes.
AppendItems(p, n, notify) ==
  /\ ppc[p] = "idle" /\ ~closed
  /\ sent[p] + n <= MaxItems
  /\ queue' = queue \o [k \in 1 .. n |-> <<p, sent[p] + k>>]
  /\ sent' = [sent EXCEPT ![p] = @ + n]
  /\ ppc' = [ppc EXCEPT ![p] = notify]
  /\ UNCHANGED <<closed, cpc, item, delivered>>

\* Faulty variants: push notifies nobody; a batch notifies one consumer.
Push_silent(p) == AppendItems(p, 1, "idle")
PushBatch_notifyOne(p) == \E n \in 0 .. MaxItems : AppendItems(p, n, "notify_one")

Push(p) == AppendItems(p, 1, "notify_one")

\* A batch may be empty; it notifies all the same.
PushBatch(p) == \E n \in 0 .. MaxItems : AppendItems(p, n, "notify_all")

\* push and push_batch throw when the queue is closed; the caller gives up.
PushThrow(p) ==
  /\ ppc[p] = "idle" /\ closed
  /\ ppc' = [ppc EXCEPT ![p] = "threw"]
  /\ UNCHANGED <<queue, closed, sent, cpc, item, delivered>>

\* Faulty variant: close() does not notify.
Close_silent(p) ==
  /\ ppc[p] \in {"idle", "threw"}
  /\ closed' = TRUE
  /\ ppc' = [ppc EXCEPT ![p] = "finished"]
  /\ UNCHANGED <<queue, sent, cpc, item, delivered>>

\* close(), also called by the destructor; it may be repeated.
Close(p) ==
  /\ ppc[p] \in {"idle", "threw"}
  /\ closed' = TRUE
  /\ ppc' = [ppc EXCEPT ![p] = "notify_closed"]
  /\ UNCHANGED <<queue, sent, cpc, item, delivered>>

\* not_empty_.notify_one(): one of the waiters, if there is any, wakes.
NotifyOne(p) ==
  /\ ppc[p] = "notify_one"
  /\ ppc' = [ppc EXCEPT ![p] = "idle"]
  /\ IF Waiting = {} THEN UNCHANGED cpc
     ELSE \E c \in Waiting : cpc' = [cpc EXCEPT ![c] = "woken"]
  /\ UNCHANGED <<queue, closed, sent, item, delivered>>

\* not_empty_.notify_all(); nothing follows close().
NotifyAll(p) ==
  /\ ppc[p] \in {"notify_all", "notify_closed"}
  /\ ppc' = [ppc EXCEPT ![p] = IF @ = "notify_all" THEN "idle" ELSE "finished"]
  /\ cpc' = [c \in Consumers |-> IF cpc[c] = "waiting" THEN "woken" ELSE cpc[c]]
  /\ UNCHANGED <<queue, closed, sent, item, delivered>>
-----------------------------------------------------------------------------
(* Consumers *)

\* Faulty variants: the item is not popped; the newest one is taken.
PopTake_peek(c) ==
  /\ cpc[c] \in {"idle", "woken"} /\ queue # <<>>
  /\ item' = [item EXCEPT ![c] = Head(queue)]
  /\ cpc' = [cpc EXCEPT ![c] = "fn"]
  /\ UNCHANGED <<queue, closed, ppc, sent, delivered>>
PopTake_newest(c) ==
  /\ cpc[c] \in {"idle", "woken"} /\ queue # <<>>
  /\ item' = [item EXCEPT ![c] = queue[Len(queue)]]
  /\ queue' = SubSeq(queue, 1, Len(queue) - 1)
  /\ cpc' = [cpc EXCEPT ![c] = "fn"]
  /\ UNCHANGED <<closed, ppc, sent, delivered>>

\* The mutex is won, on entry or after a wake-up, and an item is there ...
PopTake(c) ==
  /\ cpc[c] \in {"idle", "woken"} /\ queue # <<>>
  /\ item' = [item EXCEPT ![c] = Head(queue)]
  /\ queue' = Tail(queue)
  /\ cpc' = [cpc EXCEPT ![c] = "fn"]
  /\ UNCHANGED <<closed, ppc, sent, delivered>>

\* ... or the predicate is false ...
PopWait(c) ==
  /\ cpc[c] \in {"idle", "woken"} /\ queue = <<>> /\ ~closed
  /\ cpc' = [cpc EXCEPT ![c] = "waiting"]
  /\ UNCHANGED <<queue, closed, ppc, sent, item, delivered>>

\* Faulty variant: a waiter that wakes does not test the predicate again.
PopEnd_noPredicate(c) ==
  /\ cpc[c] = "woken" \/ (cpc[c] = "idle" /\ closed)
  /\ queue = <<>>
  /\ cpc' = [cpc EXCEPT ![c] = "end"]
  /\ UNCHANGED <<queue, closed, ppc, sent, item, delivered>>

\* ... or the queue is closed and empty: return false.
PopEnd(c) ==
  /\ cpc[c] \in {"idle", "woken"} /\ queue = <<>> /\ closed
  /\ cpc' = [cpc EXCEPT ![c] = "end"]
  /\ UNCHANGED <<queue, closed, ppc, sent, item, delivered>>

SpuriousWake(c) ==
  /\ cpc[c] = "waiting"
  /\ cpc' = [cpc EXCEPT ![c] = "woken"]
  /\ UNCHANGED <<queue, closed, ppc, sent, item, delivered>>

\* fn(std::move(item)), outside the lock; return true.
RunFn(c) ==
  /\ cpc[c] = "fn"
  /\ delivered' = [delivered EXCEPT ![c] = Append(@, item[c])]
  /\ item' = [item EXCEPT ![c] = NoItem]
  /\ cpc' = [cpc EXCEPT ![c] = "idle"]
  /\ UNCHANGED <<queue, closed, ppc, sent>>
-----------------------------------------------------------------------------
Notify(p) == NotifyOne(p) \/ NotifyAll(p)
Pop(c) == PopTake(c) \/ PopWait(c) \/ PopEnd(c) \/ RunFn(c)

\* Every thread has finished.
Terminated == /\ \A p \in Producers : ppc[p] = "finished"
              /\ \A c \in Consumers : cpc[c] = "end"
              /\ UNCHANGED vars

Next == \/ \E p \in Producers :
             Push(p) \/ PushBatch(p) \/ PushThrow(p) \/ Close(p) \/ Notify(p)
        \/ \E c \in Consumers : Pop(c) \/ SpuriousWake(c)
        \/ Terminated

Spec == Init /\ [][Next]_vars

\* A thread in a call keeps running and gets the mutex it asks for; consumers
\* call pop again and again.  Nobody is obliged to push or to close.
Fairness == /\ \A p \in Producers : WF_vars(Notify(p))
            /\ \A c \in Consumers : WF_vars(Pop(c))

FairSpec == Spec /\ Fairness
-----------------------------------------------------------------------------
(* Properties *)

\* Every variable keeps its type; only items that were pushed are ever held.
TypeOK ==
  /\ queue \in Seq(Item) /\ closed \in BOOLEAN
  /\ ppc \in [Producers -> {"idle", "notify_one", "notify_all",
                            "notify_closed", "threw", "finished"}]
  /\ sent \in [Producers -> Nat]
  /\ cpc \in [Consumers -> {"idle", "waiting", "woken", "fn", "end"}]
  /\ item \in [Consumers -> Item \union {NoItem}]
  /\ delivered \in [Consumers -> Seq(Item)]

\* No wake-up is lost: while a consumer waits, there are at least as many
\* notify_one calls still to come and consumers on their way to the mutex as
\* there are items, or a notify_all is still to come.  After close() a waiter
\* is always about to be woken (push notifies after the unlock; pop's wait).
WakeupsSuffice ==
  Waiting # {} =>
    \/ At(ppc, "notify_all") \union At(ppc, "notify_closed") # {}
    \/ ~closed /\ Len(queue) <= Cardinality(At(ppc, "notify_one"))
                                + Cardinality(At(cpc, "woken"))

\* An item accepted is in the queue, in the hands of one consumer or delivered
\* by one, and only once; what one consumer gets from one producer comes in
\* the order it was pushed, although fn runs outside the lock.
Handed(c) == IF item[c] = NoItem THEN delivered[c] ELSE Append(delivered[c], item[c])
IndicesIn(s, x) == {i \in DOMAIN s : s[i] = x}
OncePerItem ==
  \A p \in Producers : \A k \in 1 .. sent[p] :
    Cardinality(IndicesIn(queue, <<p, k>>))
      + Cardinality({c \in Consumers : IndicesIn(Handed(c), <<p, k>>) # {}}) = 1
ProducerOrder ==
  \A c \in Consumers : \A i, j \in DOMAIN Handed(c) :
    i < j /\ Handed(c)[i][1] = Handed(c)[j][1] => Handed(c)[i][2] < Handed(c)[j][2]

\* close() lets every consumer's drain loop end, waiting or not.
EndIsReached == closed ~> \A c \in Consumers : cpc[c] = "end"

\* An item pushed is delivered, with the queue open or closed.
ItemsArrive ==
  \A p \in Producers, k \in 1 .. MaxItems :
    sent[p] >= k ~> \E c \in Consumers : IndicesIn(delivered[c], <<p, k>>) # {}

\* The queue is a FIFO channel, whatever the threads do.
Abstract == INSTANCE Channel WITH ended <- (At(cpc, "end") # {})
ImplementsChannel == Abstract!Spec
=============================================================================
