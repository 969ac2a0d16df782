----------------------- MODULE ShardedOrderBookRouter -----------------------
(***************************************************************************)
(* ShardedOrderBookRouter.hpp: the caller's thread hands every event to    *)
(* the BlockingQueue of the shard its instrument belongs to; each shard    *)
(* has a worker that applies them to a SimpleOrderBookRouter of its own.   *)
(* Before it reads the shards' books the caller pushes a promise into      *)
(* every queue and waits until all are fulfilled (sync_all).  A simple     *)
(* router given the same events is the reference.                          *)
(***************************************************************************)
EXTENDS SimpleOrderBookRouter

CONSTANTS NumShards,
          MaxEvents,  \* bound on the number of events applied
          MaxReads    \* bound on the number of times the books are read

ASSUME ShardAssumption == /\ NumShards \in Nat \ {0}
                          /\ MaxEvents \in Nat /\ MaxReads \in Nat

Shards == 0 .. NumShards - 1
Promise == [kind |-> "promise"]

VARIABLES
  instrumentOf,  \* order_to_instrument_ of the sharded router
  queue,         \* queues_: each shard's items, oldest first
  queueClosed,   \* each queue's closed_
  taken,         \* what each worker has popped and not finished: <<>> or <<item>>
  wpc,           \* each worker: "loop", "run", "exit"
  router,        \* shard_routers_
  cpc,           \* caller: "idle", "push" (promises), "wait", "read",
                 \*   "close", "join", "closed"
  next,          \* caller: the shard sync_all or close is at
  fulfilled,     \* the promises of the running sync_all that are set
  reads,         \* bounded by MaxReads
  history,       \* auxiliary: the events given to apply, in order
  reference      \* auxiliary: a simple router given the same events

workVars == <<taken, wpc, router>>
callVars == <<cpc, next, reads>>
vars == <<instrumentOf, queue, queueClosed, workVars, callVars, fulfilled,
          history, reference>>

Init ==
  /\ instrumentOf = [o \in OrderIds |-> 0]
  /\ queue = [s \in Shards |-> <<>>]
  /\ queueClosed = [s \in Shards |-> FALSE]
  /\ taken = [s \in Shards |-> <<>>] /\ wpc = [s \in Shards |-> "loop"]
  /\ router = [s \in Shards |-> NewRouter]
  /\ cpc = "idle" /\ next = 0 /\ fulfilled = {} /\ reads = 0
  /\ history = <<>> /\ reference = NewRouter

\* The events: each is told apart by its number.
Event == [kind : {"event"}, n : {Len(history) + 1},
          order : OrderIds, instr : Instruments]

Send(s, item) == queue' = [queue EXCEPT ![s] = Append(@, item)]
-----------------------------------------------------------------------------
(* The caller *)

\* Faulty variant: the sharded router does not remember the order.
Apply_forgets(e) ==
  /\ cpc = "idle" /\ Len(history) < MaxEvents
  /\ IF e.instr = 0 /\ e.order # 0 THEN UNCHANGED queue
     ELSE Send(e.instr % NumShards, e)
  /\ history' = Append(history, e)
  /\ reference' = ApplyTo(reference, e)
  /\ UNCHANGED <<instrumentOf, queueClosed, workVars, callVars, fulfilled>>

\* apply_impl: the event's own instrument, or else the one of its order; an
\* event with an order but no known instrument is dropped.
Apply(e) ==
  /\ cpc = "idle" /\ Len(history) < MaxEvents
  /\ LET m == Learn(instrumentOf, e)
         i == IF e.instr # 0 THEN e.instr
              ELSE IF e.order # 0 THEN m[e.order] ELSE 0
     IN  /\ instrumentOf' = m
         /\ IF i = 0 /\ e.order # 0 THEN UNCHANGED queue
            ELSE Send(i % NumShards, e)
  /\ history' = Append(history, e)
  /\ reference' = ApplyTo(reference, e)
  /\ UNCHANGED <<queueClosed, workVars, callVars, fulfilled>>

\* After close() push throws, or the event is dropped as above; the order's
\* instrument has been remembered already.
ApplyAfterClose(e) ==
  /\ cpc = "closed"
  /\ instrumentOf' = Learn(instrumentOf, e)
  /\ UNCHANGED <<queue, queueClosed, workVars, callVars, fulfilled, history,
                 reference>>

\* A print or snapshot function begins: sync_all, which does nothing once the
\* router is closed.
BeginRead ==
  /\ cpc = "idle" /\ reads < MaxReads
  /\ cpc' = "push" /\ next' = 0 /\ fulfilled' = {} /\ reads' = reads + 1
  /\ UNCHANGED <<instrumentOf, queue, queueClosed, workVars, history, reference>>

\* q.push(p), to one queue after the other.
PushPromise ==
  /\ cpc = "push"
  /\ Send(next, Promise)
  /\ next' = (next + 1) % NumShards
  /\ cpc' = IF next' = 0 THEN "wait" ELSE "push"
  /\ UNCHANGED <<instrumentOf, queueClosed, workVars, reads, fulfilled, history,
                 reference>>

\* Faulty variant: one promise is enough.
Synced_early ==
  /\ cpc = "wait" /\ fulfilled # {}
  /\ cpc' = "read"
  /\ UNCHANGED <<instrumentOf, queue, queueClosed, workVars, next, reads,
                 fulfilled, history, reference>>

\* f.wait(), for every future.
Synced ==
  /\ cpc = "wait" /\ fulfilled = Shards
  /\ cpc' = "read"
  /\ UNCHANGED <<instrumentOf, queue, queueClosed, workVars, next, reads,
                 fulfilled, history, reference>>

\* The books have been read.
EndRead ==
  /\ cpc = "read"
  /\ cpc' = "idle"
  /\ UNCHANGED <<instrumentOf, queue, queueClosed, workVars, next, reads,
                 fulfilled, history, reference>>

\* close(), also by the destructor: closed_ = TRUE ...
BeginClose ==
  /\ cpc = "idle"
  /\ cpc' = "close" /\ next' = 0
  /\ UNCHANGED <<instrumentOf, queue, queueClosed, workVars, reads, fulfilled,
                 history, reference>>

\* Faulty variant: only the first queue is closed.
CloseQueue_first ==
  /\ cpc = "close"
  /\ queueClosed' = [queueClosed EXCEPT ![0] = TRUE]
  /\ cpc' = "join"
  /\ UNCHANGED <<instrumentOf, queue, workVars, next, reads, fulfilled, history,
                 reference>>

\* ... q.close(), one queue after the other ...
CloseQueue ==
  /\ cpc = "close"
  /\ queueClosed' = [queueClosed EXCEPT ![next] = TRUE]
  /\ next' = (next + 1) % NumShards
  /\ cpc' = IF next' = 0 THEN "join" ELSE "close"
  /\ UNCHANGED <<instrumentOf, queue, workVars, reads, fulfilled, history,
                 reference>>

\* ... t.join(), for every worker.
Joined ==
  /\ cpc = "join" /\ \A s \in Shards : wpc[s] = "exit"
  /\ cpc' = "closed"
  /\ UNCHANGED <<instrumentOf, queue, queueClosed, workVars, next, reads,
                 fulfilled, history, reference>>

Caller == BeginRead \/ PushPromise \/ Synced \/ EndRead \/ BeginClose
          \/ CloseQueue \/ Joined
-----------------------------------------------------------------------------
(* The workers: worker_loop *)

\* queue.pop takes the item under the queue's lock and runs the visitor after
\* releasing it.
Take(s) ==
  /\ wpc[s] = "loop" /\ queue[s] # <<>>
  /\ taken' = [taken EXCEPT ![s] = <<Head(queue[s])>>]
  /\ queue' = [queue EXCEPT ![s] = Tail(@)]
  /\ wpc' = [wpc EXCEPT ![s] = "run"]
  /\ UNCHANGED <<instrumentOf, queueClosed, router, callVars, fulfilled, history,
                 reference>>

\* Faulty variant: the promise is not set.
Visit_silent(s) ==
  /\ wpc[s] = "run"
  /\ router' = IF taken[s][1] = Promise THEN router
               ELSE [router EXCEPT ![s] = ApplyTo(@, taken[s][1])]
  /\ taken' = [taken EXCEPT ![s] = <<>>]
  /\ wpc' = [wpc EXCEPT ![s] = "loop"]
  /\ UNCHANGED <<instrumentOf, queue, queueClosed, callVars, fulfilled, history,
                 reference>>

\* ItemVisitor: router.apply(e), or p->set_value().
Visit(s) ==
  /\ wpc[s] = "run"
  /\ LET item == taken[s][1]
     IN  IF item = Promise
         THEN fulfilled' = fulfilled \union {s} /\ UNCHANGED router
         ELSE /\ router' = [router EXCEPT ![s] = ApplyTo(@, item)]
              /\ UNCHANGED fulfilled
  /\ taken' = [taken EXCEPT ![s] = <<>>]
  /\ wpc' = [wpc EXCEPT ![s] = "loop"]
  /\ UNCHANGED <<instrumentOf, queue, queueClosed, callVars, history, reference>>

\* pop returns false.
Exit(s) ==
  /\ wpc[s] = "loop" /\ queue[s] = <<>> /\ queueClosed[s]
  /\ wpc' = [wpc EXCEPT ![s] = "exit"]
  /\ UNCHANGED <<instrumentOf, queue, queueClosed, taken, router, callVars,
                 fulfilled, history, reference>>

Worker(s) == Take(s) \/ Visit(s) \/ Exit(s)

Next == \/ \E e \in Event : Apply(e) \/ ApplyAfterClose(e)
        \/ Caller
        \/ \E s \in Shards : Worker(s)

Spec == Init /\ [][Next]_vars

\* A call that has begun goes on; every worker runs whenever it can.
FairSpec == /\ Spec
            /\ WF_vars(PushPromise \/ Synced \/ CloseQueue \/ Joined)
            /\ \A s \in Shards : WF_vars(Worker(s))
-----------------------------------------------------------------------------
(* Properties *)

\* Every variable keeps its type; a promise set is one that was pushed.
TypeOK ==
  /\ instrumentOf \in [OrderIds -> Instruments]
  /\ queueClosed \in [Shards -> BOOLEAN]
  /\ wpc \in [Shards -> {"loop", "run", "exit"}]
  /\ \A s \in Shards : (wpc[s] = "run") = (taken[s] # <<>>)
  /\ cpc \in {"idle", "push", "wait", "read", "close", "join", "closed"}
  /\ next \in Shards /\ reads \in 0 .. MaxReads
  /\ fulfilled \subseteq IF cpc = "push" THEN 0 .. next - 1 ELSE Shards

\* While the caller reads the books, and once close() has returned, no worker
\* is applying an event or has one left: the reads race with nothing.
Quiet == cpc \in {"read", "closed"} =>
           \A s \in Shards : queue[s] = <<>> /\ taken[s] = <<>>

\* What the caller reads then is what a simple router would show: the book of
\* every instrument has had the same events in the same order, however the
\* shards interleaved and wherever an order moved.  Book 0 is left out: every
\* shard has one of its own.
ShardOf(i) == i % NumShards
AgreesWithSimple ==
  cpc \in {"read", "closed"} =>
    \A i \in Instruments \ {0} : router[ShardOf(i)].books[i] = reference.books[i]

\* sync_all returns: every promise is fulfilled.
SyncReturns == cpc = "push" ~> cpc = "read"

\* close() returns, and with it the destructor.
CloseReturns == cpc = "close" ~> cpc = "closed"

\* "Clear ... Remove all resting orders for the instrument" (Action,
\* MarketDataEvent.hpp:19), which is an event of an instrument without an
\* order: an event that names an instrument goes to the book of it.
NamedInstrumentIsReached ==
  \A n \in DOMAIN history :
    history[n].instr # 0 =>
      \E k \in DOMAIN reference.books[history[n].instr] :
        reference.books[history[n].instr][k] = history[n]
=============================================================================
