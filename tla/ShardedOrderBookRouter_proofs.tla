-------------------- MODULE ShardedOrderBookRouter_proofs --------------------
(***************************************************************************)
(* ShardedOrderBookRouter, for every number of shards: reads race with     *)
(* nothing, and show the books that a simple router would.  What a worker  *)
(* has in its hands and in its queue is one sequence, its backlog; where   *)
(* in it the promise of a running sync_all is, and what the shard's router *)
(* will be at the end of it, are the two invariants.                       *)
(***************************************************************************)
EXTENDS ShardedOrderBookRouter, SequenceTheorems, TLAPS

Events  == [kind : {"event"}, n : Nat, order : OrderIds, instr : Instruments]
Items   == Events \union {Promise}
Routers == [instrumentOf : [OrderIds -> Instruments],
            books : [Instruments -> Seq(Events)]]

Backlog(s) == taken[s] \o queue[s]

Types ==
  /\ instrumentOf \in [OrderIds -> Instruments]
  /\ queueClosed \in [Shards -> BOOLEAN] /\ wpc \in [Shards -> {"loop", "run", "exit"}]
  /\ \A s \in Shards : (wpc[s] = "run") = (taken[s] # <<>>)
  /\ cpc \in {"idle", "push", "wait", "read", "close", "join", "closed"}
  /\ next \in Shards /\ reads \in 0 .. MaxReads /\ fulfilled \subseteq Shards
  /\ queue \in [Shards -> Seq(Items)] /\ taken \in [Shards -> Seq(Items)]
  /\ \A s \in Shards : taken[s] = <<>> \/ \E x \in Items : taken[s] = <<x>>
  /\ router \in [Shards -> Routers] /\ reference \in Routers
  /\ history \in Seq(Events)

\* An event is not a promise.
LEMMA EventIsNoPromise == \A e \in Events : e # Promise
<1> SUFFICES ASSUME NEW e \in Events PROVE e # Promise
  OBVIOUS
<1>1. e.kind = "event" /\ Promise.kind = "promise"
  BY DEF Events, Promise
<1> QED BY <1>1

\* The event that apply is called with.
LEMMA EventType == history \in Seq(Events) => Event \subseteq Events
BY DEF Event, Events

\* The shard of an instrument is one of the shards.
LEMMA ShardIsShard ==
  ASSUME NEW i \in Nat
  PROVE  i % NumShards \in Shards /\ 0 \in Shards /\ NumShards \in Nat /\ NumShards > 0
BY ShardAssumption DEF Shards

\* What is remembered of orders, and a router, keep their types ...
LEMMA LearnType ==
  ASSUME NEW m \in [OrderIds -> Instruments], NEW e \in Events
  PROVE  Learn(m, e) \in [OrderIds -> Instruments]
BY DEF Learn, Events

\* ... also when an event is applied to it.
LEMMA ApplyType ==
  ASSUME NEW r \in Routers, NEW e \in Events
  PROVE  ApplyTo(r, e) \in Routers
<1> DEFINE m == Learn(r.instrumentOf, e)
           i == m[e.order]
           b == IF i = 0 /\ e.order # 0 THEN r.books
                ELSE [r.books EXCEPT ![i] = Append(@, e)]
<1>1. /\ r.instrumentOf \in [OrderIds -> Instruments]
      /\ r.books \in [Instruments -> Seq(Events)]
      /\ e.order \in OrderIds /\ e.instr \in Instruments
  BY DEF Routers, Events
<1>2. m \in [OrderIds -> Instruments] /\ i \in Instruments
  BY <1>1, LearnType
<1>3. Append(r.books[i], e) \in Seq(Events)
  BY <1>1, <1>2, AppendProperties
<1>4. b \in [Instruments -> Seq(Events)]
  BY <1>1, <1>2, <1>3
<1>5. ApplyTo(r, e) = [instrumentOf |-> m, books |-> b]
  BY DEF ApplyTo
<1> QED BY <1>2, <1>4, <1>5 DEF Routers

\* What is in a hand.
LEMMA TakenIs ==
  ASSUME Types, NEW s \in Shards
  PROVE  /\ taken[s] \in Seq(Items) /\ queue[s] \in Seq(Items) /\ Backlog(s) \in Seq(Items)
         /\ wpc[s] = "run" => taken[s] = <<taken[s][1]>> /\ taken[s][1] \in Items
         /\ wpc[s] # "run" => taken[s] = <<>>
<1>1. taken[s] \in Seq(Items) /\ queue[s] \in Seq(Items) /\ Backlog(s) \in Seq(Items)
  BY ConcatProperties DEF Types, Backlog
<1>2. (wpc[s] = "run") = (taken[s] # <<>>)
  BY DEF Types
<1>3. taken[s] = <<>> \/ \E x \in Items : taken[s] = <<x>>
  BY DEF Types
<1>4. \A x \in Items : <<x>>[1] = x /\ <<x>> # <<>>
  OBVIOUS
<1> QED BY <1>1, <1>2, <1>3, <1>4

\* The types at first.
LEMMA InitTypes == Init => Types
<1> SUFFICES ASSUME Init PROVE Types
  OBVIOUS
<1>1. NewRouter \in Routers
  BY IdAssumption, EmptySeq DEF NewRouter, Routers
<1>2. 0 \in Shards /\ 0 \in Instruments /\ 0 \in 0 .. MaxReads
  BY IdAssumption, ShardAssumption DEF Shards
<1>3. <<>> \in Seq(Items) /\ <<>> \in Seq(Events)
  BY EmptySeq
<1> QED BY <1>1, <1>2, <1>3 DEF Init, Types

\* apply, before and after close().
LEMMA ApplyTypes ==
  ASSUME Types, NEW e \in Event, Apply(e) \/ ApplyAfterClose(e)
  PROVE  Types'
<1>1. e \in Events /\ history \in Seq(Events)
  BY EventType DEF Types
<1>2. Learn(instrumentOf, e) \in [OrderIds -> Instruments]
  BY <1>1, LearnType DEF Types
<1>3. CASE ApplyAfterClose(e)
  BY <1>2, <1>3 DEF ApplyAfterClose, Types, workVars, callVars
<1>4. CASE Apply(e)
  <2> DEFINE m == Learn(instrumentOf, e)
             i == IF e.instr # 0 THEN e.instr ELSE IF e.order # 0 THEN m[e.order] ELSE 0
  <2>1. /\ instrumentOf' = m /\ history' = Append(history, e)
        /\ reference' = ApplyTo(reference, e)
        /\ UNCHANGED <<queueClosed, taken, wpc, router, cpc, next, reads, fulfilled>>
    BY <1>4 DEF Apply, workVars, callVars
  <2>2. history' \in Seq(Events) /\ reference' \in Routers
    BY <1>1, <2>1, AppendProperties, ApplyType DEF Types
  <2>3. i \in Nat
    BY <1>1, <1>2, IdAssumption DEF Events
  <2>4. queue' = queue \/ queue' = [queue EXCEPT ![i % NumShards] = Append(@, e)]
    BY <1>4 DEF Apply, Send
  <2> HIDE DEF i
  <2>5. queue' \in [Shards -> Seq(Items)]
    <3>1. \A s \in Shards : Append(queue[s], e) \in Seq(Items)
      BY <1>1, AppendProperties DEF Types, Items
    <3>2. i % NumShards \in Shards
      BY <2>3, ShardIsShard
    <3> QED BY <2>4, <3>1, <3>2 DEF Types
  <2> QED BY <1>2, <2>1, <2>2, <2>5 DEF Types
<1> QED BY <1>3, <1>4

\* sync_all, the reads and close().
LEMMA CallerTypes ==
  ASSUME Types, Caller
  PROVE  Types'
<1>1. NumShards \in Nat /\ NumShards > 0 /\ MaxReads \in Nat /\ 0 \in Shards
  BY ShardAssumption DEF Shards
<1>2. next \in Shards /\ next \in Nat /\ next < NumShards
  BY <1>1 DEF Types, Shards
<1>3. /\ (next + 1) % NumShards \in Shards
      /\ (next + 1) % NumShards = IF next + 1 = NumShards THEN 0 ELSE next + 1
  BY <1>1, <1>2 DEF Shards
<1>4. CASE PushPromise
  <2>1. /\ queue' = [queue EXCEPT ![next] = Append(@, Promise)] /\ cpc = "push"
        /\ next' = (next + 1) % NumShards /\ cpc' = IF next' = 0 THEN "wait" ELSE "push"
        /\ UNCHANGED <<instrumentOf, queueClosed, taken, wpc, router, reads, fulfilled,
                       history, reference>>
    BY <1>4 DEF PushPromise, Send, workVars
  <2>2. queue' \in [Shards -> Seq(Items)]
    <3>1. Append(queue[next], Promise) \in Seq(Items)
      BY <1>2, AppendProperties DEF Types, Items
    <3> QED BY <1>2, <2>1, <3>1 DEF Types
  <2>3. next' \in Shards /\ cpc' \in {"push", "wait"}
    BY <1>3, <2>1
  <2> QED BY <2>1, <2>2, <2>3 DEF Types
<1>5. CASE BeginRead
  BY <1>1, <1>5 DEF BeginRead, Types, workVars
<1>6. CASE Synced \/ EndRead \/ Joined
  BY <1>6 DEF Synced, EndRead, Joined, Types, workVars
<1>7. CASE BeginClose
  BY <1>1, <1>7 DEF BeginClose, Types, workVars
<1>8. CASE CloseQueue
  BY <1>3, <1>8 DEF CloseQueue, Types, workVars
<1> QED BY <1>4, <1>5, <1>6, <1>7, <1>8 DEF Caller

\* A worker pops, works, or leaves.
LEMMA WorkerTypes ==
  ASSUME Types, NEW s \in Shards, Worker(s)
  PROVE  Types'
<1>1. CASE Take(s)
  <2>1. /\ wpc[s] = "loop" /\ queue[s] # <<>> /\ queue[s] \in Seq(Items)
        /\ taken' = [taken EXCEPT ![s] = <<Head(queue[s])>>]
        /\ queue' = [queue EXCEPT ![s] = Tail(@)]
        /\ wpc' = [wpc EXCEPT ![s] = "run"]
        /\ UNCHANGED <<instrumentOf, queueClosed, router, cpc, next, reads, fulfilled,
                       history, reference>>
    BY <1>1 DEF Take, callVars, Types
  <2>2. Head(queue[s]) \in Items /\ Tail(queue[s]) \in Seq(Items)
    BY <2>1, HeadTailProperties
  <2>3. <<Head(queue[s])>> \in Seq(Items) /\ <<Head(queue[s])>> # <<>>
    BY <2>2
  <2> QED BY <2>1, <2>2, <2>3 DEF Types
<1>2. CASE Visit(s)
  <2>1. /\ wpc[s] = "run" /\ taken' = [taken EXCEPT ![s] = <<>>]
        /\ wpc' = [wpc EXCEPT ![s] = "loop"]
        /\ UNCHANGED <<instrumentOf, queue, queueClosed, cpc, next, reads, history, reference>>
        /\ taken[s][1] \in Items
    BY <1>2, TakenIs DEF Visit, callVars
  <2>2. <<>> \in Seq(Items)
    BY EmptySeq
  <2>3. CASE taken[s][1] = Promise
    <3>1. fulfilled' = fulfilled \union {s} /\ UNCHANGED router
      BY <1>2, <2>3 DEF Visit
    <3> QED BY <2>1, <2>2, <3>1 DEF Types
  <2>4. CASE taken[s][1] # Promise
    <3>1. router' = [router EXCEPT ![s] = ApplyTo(@, taken[s][1])] /\ UNCHANGED fulfilled
      BY <1>2, <2>4 DEF Visit
    <3>2. taken[s][1] \in Events
      BY <2>1, <2>4 DEF Items
    <3>3. ApplyTo(router[s], taken[s][1]) \in Routers
      BY <3>2, ApplyType DEF Types
    <3> QED BY <2>1, <2>2, <3>1, <3>3 DEF Types
  <2> QED BY <2>3, <2>4
<1>3. CASE Exit(s)
  <2>1. /\ wpc[s] = "loop" /\ wpc' = [wpc EXCEPT ![s] = "exit"]
        /\ UNCHANGED <<instrumentOf, queue, queueClosed, taken, router, cpc, next, reads,
                       fulfilled, history, reference>>
    BY <1>3 DEF Exit, callVars
  <2> QED BY <2>1 DEF Types
<1> QED BY <1>1, <1>2, <1>3 DEF Worker

\* The types, in every step.
LEMMA TypesStep == Types /\ [Next]_vars => Types'
<1> SUFFICES ASSUME Types, [Next]_vars PROVE Types'
  OBVIOUS
<1>1. CASE UNCHANGED vars
  BY <1>1 DEF vars, workVars, callVars, Types
<1> QED BY <1>1, ApplyTypes, CallerTypes, WorkerTypes DEF Next
-----------------------------------------------------------------------------
(* The promise of a shard *)

NoPromise(q)   == \A k \in 1 .. Len(q) : q[k] # Promise
PromiseLast(q) == /\ Len(q) > 0 /\ q[Len(q)] = Promise
                  /\ \A k \in 1 .. Len(q) - 1 : q[k] # Promise

\* sync_all has put its promise into the queue of s.
Pushed(s) == cpc = "wait" \/ (cpc = "push" /\ s < next)

\* The promise of a running sync_all is the last item of a shard's backlog
\* until it is fulfilled, and then there is no backlog; a worker has left only
\* when it had nothing to do and its queue was closed.
ShardSynced(s) ==
  /\ IF Pushed(s) /\ s \notin fulfilled THEN PromiseLast(Backlog(s))
     ELSE NoPromise(Backlog(s))
  /\ Pushed(s) /\ s \in fulfilled => Backlog(s) = <<>>
  /\ cpc = "push" /\ ~Pushed(s) => s \notin fulfilled
  /\ cpc = "read" => Backlog(s) = <<>>
  /\ queueClosed[s] => cpc \in {"close", "join", "closed"}
  /\ wpc[s] = "exit" => queueClosed[s] /\ Backlog(s) = <<>>
  /\ cpc = "closed" => wpc[s] = "exit"
Sync == \A s \in Shards : ShardSynced(s)

\* What is appended to a queue.
LEMMA PromiseAppended ==
  ASSUME NEW q \in Seq(Items), NEW x \in Items
  PROVE  /\ NoPromise(q) /\ x # Promise => NoPromise(Append(q, x))
         /\ NoPromise(q) => PromiseLast(Append(q, Promise))
<1>1. Len(q) \in Nat
  BY LenProperties
<1>2. \A y \in Items : /\ Len(Append(q, y)) = Len(q) + 1 /\ Append(q, y)[Len(q) + 1] = y
                       /\ \A k \in 1 .. Len(q) : Append(q, y)[k] = q[k]
  BY AppendProperties
<1>3. Promise \in Items
  BY DEF Items
<1>4. ASSUME NoPromise(q), x # Promise
      PROVE  NoPromise(Append(q, x))
  BY <1>1, <1>2, <1>4 DEF NoPromise
<1>5. ASSUME NoPromise(q)
      PROVE  PromiseLast(Append(q, Promise))
  BY <1>1, <1>2, <1>3, <1>5 DEF NoPromise, PromiseLast
<1> QED BY <1>4, <1>5

\* What is taken out.
LEMMA PromiseTaken ==
  ASSUME NEW q \in Seq(Items), q # <<>>
  PROVE  /\ NoPromise(q) => Head(q) # Promise /\ NoPromise(Tail(q))
         /\ PromiseLast(q) => IF Head(q) = Promise THEN Tail(q) = <<>> ELSE PromiseLast(Tail(q))
<1>1. /\ Len(q) \in Nat /\ Len(q) > 0 /\ Head(q) = q[1] /\ Tail(q) \in Seq(Items)
      /\ Len(Tail(q)) = Len(q) - 1
      /\ \A k \in 1 .. Len(Tail(q)) : Tail(q)[k] = q[k + 1]
  BY HeadTailProperties, LenProperties, EmptySeq
<1>2. ASSUME NoPromise(q)
      PROVE  Head(q) # Promise /\ NoPromise(Tail(q))
  BY <1>1, <1>2 DEF NoPromise
<1>3. ASSUME PromiseLast(q), Head(q) = Promise
      PROVE  Tail(q) = <<>>
  <2>1. Len(Tail(q)) = 0
    BY <1>1, <1>3 DEF PromiseLast
  <2> QED BY <1>1, <2>1, EmptySeq
<1>4. ASSUME PromiseLast(q), Head(q) # Promise
      PROVE  PromiseLast(Tail(q))
  BY <1>1, <1>4 DEF PromiseLast
<1> QED BY <1>2, <1>3, <1>4

\* The empty backlog.
LEMMA NothingPromised == NoPromise(<<>>)
BY EmptySeq DEF NoPromise

\* A backlog grows when an item is sent to its queue ...
LEMMA BacklogSent ==
  ASSUME Types, NEW s \in Shards, NEW x \in Items, Send(s, x), UNCHANGED taken
  PROVE  /\ Backlog(s)' = Append(Backlog(s), x)
         /\ \A t \in Shards \ {s} : Backlog(t)' = Backlog(t)
<1>1. /\ queue'[s] = Append(queue[s], x)
      /\ \A t \in Shards \ {s} : queue'[t] = queue[t]
  BY DEF Types, Send
<1>2. taken[s] \in Seq(Items) /\ queue[s] \in Seq(Items)
  BY DEF Types
<1>3. taken[s] \o Append(queue[s], x) = Append(taken[s] \o queue[s], x)
  <2>1. <<x>> \in Seq(Items) /\ taken[s] \o queue[s] \in Seq(Items)
    BY <1>2, ConcatProperties
  <2>2. taken[s] \o (queue[s] \o <<x>>) = (taken[s] \o queue[s]) \o <<x>>
    <3> DEFINE a == taken[s]
               b == queue[s]
               c == <<x>>
    <3>1. a \in Seq(Items) /\ b \in Seq(Items) /\ c \in Seq(Items)
      BY <1>2, <2>1
    <3> HIDE DEF a, b, c
    <3>2. a \o (b \o c) = (a \o b) \o c
      BY <3>1, ConcatAssociative
    <3> QED BY <3>2 DEF a, b, c
  <2> QED BY <1>2, <2>1, <2>2, AppendIsConcat
<1> QED BY <1>1, <1>3 DEF Backlog

\* ... is as it was when the worker takes its first item ...
LEMMA BacklogTaken ==
  ASSUME Types, NEW s \in Shards, Take(s)
  PROVE  \A t \in Shards : Backlog(t)' = Backlog(t)
<1>1. /\ wpc[s] = "loop" /\ queue[s] # <<>>
      /\ taken' = [taken EXCEPT ![s] = <<Head(queue[s])>>]
      /\ queue' = [queue EXCEPT ![s] = Tail(@)]
  BY DEF Take
<1>2. taken[s] = <<>> /\ queue[s] \in Seq(Items)
  BY <1>1, TakenIs
<1>3. <<Head(queue[s])>> \o Tail(queue[s]) = queue[s] /\ <<>> \o queue[s] = queue[s]
  BY <1>1, <1>2
<1> QED BY <1>1, <1>2, <1>3 DEF Backlog, Types

\* ... and loses that item when it has been worked on.
LEMMA BacklogVisited ==
  ASSUME Types, NEW s \in Shards, Visit(s)
  PROVE  /\ Backlog(s) \in Seq(Items) /\ Backlog(s) # <<>>
         /\ Head(Backlog(s)) = taken[s][1] /\ Backlog(s)' = Tail(Backlog(s))
         /\ \A t \in Shards \ {s} : Backlog(t)' = Backlog(t)
<1>1. /\ wpc[s] = "run" /\ UNCHANGED queue
      /\ taken' = [taken EXCEPT ![s] = <<>>]
  BY DEF Visit
<1>2. taken[s] = <<taken[s][1]>> /\ taken[s][1] \in Items /\ queue[s] \in Seq(Items)
  BY <1>1, TakenIs
<1> DEFINE x == taken[s][1]
           q == queue[s]
<1>3. /\ <<x>> \o q # <<>> /\ <<x>> \o q \in Seq(Items)
      /\ Head(<<x>> \o q) = x /\ Tail(<<x>> \o q) = q /\ <<>> \o q = q
  <2>1. x \in Items /\ q \in Seq(Items)
    BY <1>2
  <2> HIDE DEF x, q
  <2> QED BY <2>1
<1> QED BY <1>1, <1>2, <1>3 DEF Backlog, Types

\* At first no queue has anything in it.
LEMMA InitSync == Init => Sync
<1> SUFFICES ASSUME Init, NEW s \in Shards PROVE ShardSynced(s)
  BY DEF Sync
<1>1. Backlog(s) = <<>>
  <2>1. <<>> \o <<>> = <<>>
    OBVIOUS
  <2> QED BY <2>1 DEF Init, Backlog
<1> QED BY <1>1, NothingPromised DEF Init, ShardSynced, Pushed

\* What sends nothing and takes nothing leaves the backlogs alone.
LEMMA BacklogsSame ==
  ASSUME UNCHANGED <<queue, taken>>
  PROVE  \A s \in Shards : Backlog(s)' = Backlog(s)
BY DEF Backlog

\* An event is sent only while no promise is on its way.
LEMMA ApplySync ==
  ASSUME Types, Sync, NEW e \in Event, Apply(e) \/ ApplyAfterClose(e)
  PROVE  Sync'
<1>1. e \in Items /\ e # Promise
  BY EventType, EventIsNoPromise DEF Types, Items
<1>2. UNCHANGED <<queueClosed, taken, wpc, cpc, next, fulfilled>>
  BY DEF Apply, ApplyAfterClose, workVars, callVars
<1>3. CASE UNCHANGED queue
  <2> SUFFICES ASSUME NEW s \in Shards PROVE ShardSynced(s)'
    BY DEF Sync
  <2>1. Backlog(s)' = Backlog(s) /\ ShardSynced(s)
    BY <1>2, <1>3, BacklogsSame DEF Sync
  <2> QED BY <1>2, <2>1 DEF ShardSynced, Pushed
<1>4. ASSUME Apply(e), NEW n \in Nat, Send(n % NumShards, e)
      PROVE  Sync'
  <2> DEFINE s == n % NumShards
  <2>1. s \in Shards /\ cpc = "idle" /\ taken' = taken
    BY <1>2, <1>4, ShardIsShard DEF Apply
  <2>2. Send(s, e)
    BY <1>4
  <2> HIDE DEF s
  <2>3. /\ Backlog(s)' = Append(Backlog(s), e)
        /\ \A t \in Shards \ {s} : Backlog(t)' = Backlog(t)
    BY <1>1, <2>1, <2>2, BacklogSent
  <2>4. ShardSynced(s)'
    <3>1. ShardSynced(s) /\ NoPromise(Backlog(s)) /\ ~queueClosed[s] /\ wpc[s] # "exit"
      BY <2>1 DEF Sync, ShardSynced, Pushed
    <3>2. NoPromise(Backlog(s)')
      BY <1>1, <2>1, <2>3, <3>1, TakenIs, PromiseAppended
    <3> QED BY <1>2, <2>1, <3>1, <3>2 DEF ShardSynced, Pushed
  <2>5. ASSUME NEW t \in Shards \ {s} PROVE ShardSynced(t)'
    <3>1. ShardSynced(t) /\ Backlog(t)' = Backlog(t)
      BY <2>3 DEF Sync
    <3> QED BY <1>2, <3>1 DEF ShardSynced, Pushed
  <2> QED BY <2>4, <2>5 DEF Sync
<1>5. CASE ApplyAfterClose(e)
  BY <1>3, <1>5 DEF ApplyAfterClose
<1>6. CASE Apply(e)
  <2> DEFINE m == Learn(instrumentOf, e)
             i == IF e.instr # 0 THEN e.instr ELSE IF e.order # 0 THEN m[e.order] ELSE 0
  <2>1. i \in Nat
    <3>1. e \in Events /\ m \in [OrderIds -> Instruments]
      BY EventType, LearnType DEF Types
    <3> QED BY <3>1, IdAssumption DEF Events
  <2>2. UNCHANGED queue \/ Send(i % NumShards, e)
    BY <1>6 DEF Apply
  <2> HIDE DEF i
  <2> QED BY <1>3, <1>4, <1>6, <2>1, <2>2
<1> QED BY <1>5, <1>6

\* sync_all pushes a promise behind all that its queue holds; close() closes the
\* queues one by one.
LEMMA CallerSync ==
  ASSUME Types, Sync, Caller
  PROVE  Sync'
<1>1. NumShards \in Nat /\ NumShards > 0 /\ next \in Nat /\ next < NumShards
      /\ next \in Shards /\ Promise \in Items
  BY ShardAssumption DEF Types, Shards, Items
<1>2. (next + 1) % NumShards = IF next + 1 = NumShards THEN 0 ELSE next + 1
  BY <1>1
<1>3. CASE PushPromise
  <2>1. /\ cpc = "push" /\ Send(next, Promise)
        /\ next' = (next + 1) % NumShards /\ cpc' = IF next' = 0 THEN "wait" ELSE "push"
        /\ UNCHANGED <<queueClosed, taken, wpc, fulfilled>>
    BY <1>3 DEF PushPromise, workVars
  <2>0. PICK n \in Shards : n = next
    BY <1>1
  <2>2. /\ Backlog(n)' = Append(Backlog(n), Promise)
        /\ \A t \in Shards \ {n} : Backlog(t)' = Backlog(t)
    BY <1>1, <2>0, <2>1, BacklogSent
  <2>3. \A t \in Shards : Pushed(t)' <=> t <= next
    BY <1>1, <1>2, <2>1 DEF Pushed, Shards
  <2>4. \A t \in Shards : Pushed(t) <=> t < next
    BY <2>1 DEF Pushed
  <2>5. ShardSynced(n)'
    <3>1. ShardSynced(n) /\ ~Pushed(n)
      BY <1>1, <2>0, <2>4 DEF Sync
    <3>2. NoPromise(Backlog(n)) /\ n \notin fulfilled /\ ~queueClosed[n]
          /\ wpc[n] # "exit"
      BY <2>1, <3>1 DEF ShardSynced
    <3>3. PromiseLast(Backlog(n)') /\ Pushed(n)'
      BY <1>1, <2>0, <2>2, <2>3, <3>2, TakenIs, PromiseAppended
    <3> QED BY <2>1, <3>2, <3>3 DEF ShardSynced, Pushed
  <2>6. ASSUME NEW t \in Shards \ {n} PROVE ShardSynced(t)'
    <3>1. ShardSynced(t) /\ Backlog(t)' = Backlog(t)
      BY <2>2 DEF Sync
    <3>2. Pushed(t)' <=> Pushed(t)
      BY <1>1, <2>0, <2>3, <2>4 DEF Shards
    <3> QED BY <2>1, <3>1, <3>2 DEF ShardSynced
  <2> QED BY <2>5, <2>6 DEF Sync
<1>4. ASSUME BeginRead \/ Synced \/ EndRead \/ BeginClose \/ CloseQueue \/ Joined,
             NEW s \in Shards
      PROVE  ShardSynced(s)'
  <2>1. UNCHANGED <<queue, taken, wpc>>
    BY <1>4 DEF BeginRead, Synced, EndRead, BeginClose, CloseQueue, Joined, workVars
  <2>2. Backlog(s)' = Backlog(s) /\ ShardSynced(s)
    BY <2>1, BacklogsSame DEF Sync
  <2>3. CASE BeginRead
    BY <1>1, <2>1, <2>2, <2>3 DEF BeginRead, ShardSynced, Pushed, Shards
  <2>4. CASE Synced
    <3>1. Pushed(s) /\ s \in fulfilled /\ Backlog(s) = <<>>
      BY <2>2, <2>4 DEF Synced, Pushed, ShardSynced
    <3> QED BY <2>1, <2>2, <2>4, <3>1, NothingPromised DEF Synced, ShardSynced, Pushed
  <2>5. CASE EndRead \/ BeginClose \/ Joined
    BY <2>1, <2>2, <2>5 DEF EndRead, BeginClose, Joined, ShardSynced, Pushed
  <2>6. CASE CloseQueue
    <3>1. queueClosed' = [queueClosed EXCEPT ![next] = TRUE] /\ cpc = "close"
          /\ cpc' \in {"close", "join"} /\ UNCHANGED fulfilled
      BY <2>6 DEF CloseQueue
    <3>2. queueClosed[s] => queueClosed'[s]
      BY <1>1, <3>1 DEF Types
    <3> QED BY <2>1, <2>2, <3>1, <3>2 DEF ShardSynced, Pushed
  <2> QED BY <1>4, <2>3, <2>4, <2>5, <2>6
<1> QED BY <1>3, <1>4 DEF Caller, Sync

\* A promise is fulfilled when nothing is left behind or before it.
LEMMA WorkerSync ==
  ASSUME Types, Sync, NEW s \in Shards, Worker(s)
  PROVE  Sync'
<1>1. UNCHANGED <<queueClosed, cpc, next>>
  BY DEF Worker, Take, Visit, Exit, callVars
<1>2. \A t \in Shards : Pushed(t)' <=> Pushed(t)
  BY <1>1 DEF Pushed
<1>3. CASE Take(s)
  <2> SUFFICES ASSUME NEW t \in Shards PROVE ShardSynced(t)'
    BY DEF Sync
  <2>1. Backlog(t)' = Backlog(t) /\ ShardSynced(t) /\ UNCHANGED fulfilled
    BY <1>3, BacklogTaken DEF Sync, Take
  <2>2. wpc'[t] = "exit" => wpc[t] = "exit"
    BY <1>3 DEF Take, Types
  <2>3. wpc[t] = "exit" => wpc'[t] = "exit"
    BY <1>3 DEF Take, Types
  <2> QED BY <1>1, <1>2, <2>1, <2>2, <2>3 DEF ShardSynced
<1>4. CASE Exit(s)
  <2> SUFFICES ASSUME NEW t \in Shards PROVE ShardSynced(t)'
    BY DEF Sync
  <2>1. /\ UNCHANGED <<queue, taken, fulfilled>> /\ wpc[s] = "loop" /\ queue[s] = <<>>
        /\ queueClosed[s] /\ wpc' = [wpc EXCEPT ![s] = "exit"]
    BY <1>4 DEF Exit
  <2>2. Backlog(t)' = Backlog(t) /\ ShardSynced(t)
    BY <2>1, BacklogsSame DEF Sync
  <2>3. Backlog(s) = <<>>
    <3>1. taken[s] = <<>> /\ <<>> \o <<>> = <<>>
      BY <2>1, TakenIs
    <3> QED BY <2>1, <3>1 DEF Backlog
  <2> QED BY <1>1, <1>2, <2>1, <2>2, <2>3 DEF ShardSynced, Types
<1>5. CASE Visit(s)
  <2>1. /\ Backlog(s) \in Seq(Items) /\ Backlog(s) # <<>>
        /\ Head(Backlog(s)) = taken[s][1] /\ Backlog(s)' = Tail(Backlog(s))
        /\ \A t \in Shards \ {s} : Backlog(t)' = Backlog(t)
    BY <1>5, BacklogVisited
  <2>2. /\ wpc' = [wpc EXCEPT ![s] = "loop"] /\ wpc[s] = "run"
        /\ fulfilled' = IF taken[s][1] = Promise THEN fulfilled \union {s} ELSE fulfilled
    BY <1>5 DEF Visit
  <2>3. ASSUME NEW t \in Shards \ {s} PROVE ShardSynced(t)'
    <3>1. ShardSynced(t) /\ Backlog(t)' = Backlog(t) /\ (t \in fulfilled' <=> t \in fulfilled)
      BY <2>1, <2>2 DEF Sync
    <3>2. wpc'[t] = wpc[t]
      BY <2>2 DEF Types
    <3> QED BY <1>1, <1>2, <3>1, <3>2 DEF ShardSynced
  <2>4. ShardSynced(s)'
    <3>1. ShardSynced(s) /\ cpc \notin {"read", "closed"} /\ wpc'[s] = "loop"
      BY <2>1, <2>2 DEF Sync, ShardSynced, Types
    <3>2. CASE taken[s][1] = Promise
      <4>1. Pushed(s) /\ s \notin fulfilled /\ PromiseLast(Backlog(s))
        BY <2>1, <3>1, <3>2, PromiseTaken DEF ShardSynced
      <4>2. Backlog(s)' = <<>> /\ s \in fulfilled'
        BY <2>1, <2>2, <3>2, <4>1, PromiseTaken
      <4> QED BY <1>1, <1>2, <3>1, <4>1, <4>2, NothingPromised DEF ShardSynced
    <3>3. CASE taken[s][1] # Promise
      <4>1. fulfilled' = fulfilled
        BY <2>2, <3>3
      <4>2. /\ NoPromise(Backlog(s)) => NoPromise(Backlog(s)')
            /\ PromiseLast(Backlog(s)) => PromiseLast(Backlog(s)')
        BY <2>1, <3>3, PromiseTaken
      <4> QED BY <1>1, <1>2, <2>1, <3>1, <4>1, <4>2 DEF ShardSynced
    <3> QED BY <3>2, <3>3
  <2> QED BY <2>3, <2>4 DEF Sync
<1> QED BY <1>3, <1>4, <1>5 DEF Worker

\* Where the promises are, in every step.
LEMMA SyncStep == Types /\ Sync /\ [Next]_vars => Sync'
<1> SUFFICES ASSUME Types, Sync, [Next]_vars PROVE Sync'
  OBVIOUS
<1>1. CASE UNCHANGED vars
  <2> SUFFICES ASSUME NEW s \in Shards PROVE ShardSynced(s)'
    BY DEF Sync
  <2>1. Backlog(s)' = Backlog(s) /\ ShardSynced(s)
    BY <1>1, BacklogsSame DEF Sync, vars, workVars
  <2> QED BY <1>1, <2>1 DEF ShardSynced, Pushed, vars, workVars, callVars
<1> QED BY <1>1, ApplySync, CallerSync, WorkerSync DEF Next

\* The types hold for every number of shards; a promise that is fulfilled is one
\* that sync_all has pushed.
THEOREM Typing == Spec => []TypeOK
<1>1. Types /\ Sync => TypeOK
  <2> SUFFICES ASSUME Types, Sync PROVE TypeOK
    OBVIOUS
  <2>1. \A s \in Shards : cpc = "push" /\ s \in fulfilled => s < next
    BY DEF Sync, ShardSynced, Pushed
  <2>2. fulfilled \subseteq IF cpc = "push" THEN 0 .. next - 1 ELSE Shards
    BY <2>1, ShardAssumption DEF Types, Shards
  <2> QED BY <2>2 DEF Types, TypeOK
<1> QED BY <1>1, InitTypes, TypesStep, InitSync, SyncStep, PTL DEF Spec

\* When sync_all has returned, and when close() has, no worker has an event in its
\* hands or its queue.
THEOREM ReadsAreQuiet == Spec => []Quiet
<1>1. Types /\ Sync => Quiet
  <2> SUFFICES ASSUME Types, Sync, cpc \in {"read", "closed"}, NEW s \in Shards
               PROVE  queue[s] = <<>> /\ taken[s] = <<>>
    BY DEF Quiet
  <2>1. Backlog(s) = <<>>
    BY DEF Sync, ShardSynced
  <2>2. taken[s] \in Seq(Items) /\ queue[s] \in Seq(Items)
    BY DEF Types
  <2> QED BY <2>1, <2>2, ConcatEmptySeq, ConcatProperties, LenProperties, EmptySeq DEF Backlog
<1> QED BY <1>1, InitTypes, TypesStep, InitSync, SyncStep, PTL DEF Spec
-----------------------------------------------------------------------------
(* The books *)

\* What an item does to the router of its shard.
After(r, x) == IF x = Promise THEN r ELSE ApplyTo(r, x)

\* The items of q take the router r to R.
LeadsTo(q, r, R) ==
  \E F \in [0 .. Len(q) -> Routers] :
    F[0] = r /\ F[Len(q)] = R /\ \A k \in 1 .. Len(q) : F[k] = After(F[k - 1], q[k])

\* An item makes a router of a router.
LEMMA AfterType ==
  ASSUME NEW r \in Routers, NEW x \in Items
  PROVE  After(r, x) \in Routers
BY ApplyType DEF After, Items

\* No items, no change.
LEMMA LeadsNowhere ==
  ASSUME NEW r \in Routers
  PROVE  LeadsTo(<<>>, r, r) /\ \A R : LeadsTo(<<>>, r, R) => R = r
<1>1. Len(<<>>) = 0
  OBVIOUS
<1>2. LeadsTo(<<>>, r, r)
  <2> DEFINE F == [k \in 0 .. 0 |-> r]
  <2>1. F \in [0 .. Len(<<>>) -> Routers] /\ F[0] = r
    BY <1>1
  <2> HIDE DEF F
  <2> QED BY <1>1, <2>1 DEF LeadsTo
<1> QED BY <1>1, <1>2 DEF LeadsTo

\* One item more ...
LEMMA LeadsOn ==
  ASSUME NEW q \in Seq(Items), NEW x \in Items, NEW r \in Routers, NEW R, LeadsTo(q, r, R)
  PROVE  LeadsTo(Append(q, x), r, After(R, x))
<1>1. PICK F \in [0 .. Len(q) -> Routers] :
        F[0] = r /\ F[Len(q)] = R /\ \A k \in 1 .. Len(q) : F[k] = After(F[k - 1], q[k])
  BY DEF LeadsTo
<1>2. Len(q) \in Nat
  BY LenProperties
<1>3. /\ Len(Append(q, x)) = Len(q) + 1 /\ Append(q, x)[Len(q) + 1] = x
      /\ \A k \in 1 .. Len(q) : Append(q, x)[k] = q[k]
  BY AppendProperties
<1>4. After(R, x) \in Routers
  BY <1>1, <1>2, AfterType
<1> DEFINE n == Len(q)
           G == [k \in 0 .. n + 1 |-> IF k = n + 1 THEN After(R, x) ELSE F[k]]
<1>5. G \in [0 .. n + 1 -> Routers]
  BY <1>1, <1>2, <1>4
<1>6. /\ G[0] = r /\ G[n + 1] = After(R, x) /\ \A k \in 0 .. n : G[k] = F[k]
  BY <1>1, <1>2
<1> HIDE DEF G
<1>7. ASSUME NEW k \in 1 .. n + 1
      PROVE  G[k] = After(G[k - 1], Append(q, x)[k])
  <2>1. CASE k = n + 1
    BY <1>1, <1>2, <1>3, <1>6, <2>1
  <2>2. CASE k # n + 1
    <3>1. k \in 1 .. n /\ k - 1 \in 0 .. n /\ k \in 0 .. n
      BY <1>2, <2>2
    <3> QED BY <1>1, <1>3, <1>6, <3>1
  <2> QED BY <2>1, <2>2
<1> QED BY <1>3, <1>5, <1>6, <1>7 DEF LeadsTo

\* ... or one less.
LEMMA LeadsFrom ==
  ASSUME NEW q \in Seq(Items), q # <<>>, NEW r \in Routers, NEW R, LeadsTo(q, r, R)
  PROVE  LeadsTo(Tail(q), After(r, Head(q)), R)
<1>1. PICK F \in [0 .. Len(q) -> Routers] :
        F[0] = r /\ F[Len(q)] = R /\ \A k \in 1 .. Len(q) : F[k] = After(F[k - 1], q[k])
  BY DEF LeadsTo
<1>2. /\ Len(q) \in Nat /\ Len(q) > 0 /\ Head(q) = q[1]
      /\ Len(Tail(q)) = Len(q) - 1
      /\ \A k \in 1 .. Len(Tail(q)) : Tail(q)[k] = q[k + 1]
  BY HeadTailProperties, LenProperties, EmptySeq
<1> DEFINE n == Len(q) - 1
           G == [k \in 0 .. n |-> F[k + 1]]
<1>3. G \in [0 .. n -> Routers] /\ G[n] = R
  BY <1>1, <1>2
<1>4. G[0] = After(r, Head(q))
  <2>1. F[1] = After(F[1 - 1], q[1]) /\ G[0] = F[1]
    BY <1>1, <1>2
  <2> QED BY <1>1, <1>2, <2>1
<1>5. ASSUME NEW k \in 1 .. n
      PROVE  G[k] = After(G[k - 1], Tail(q)[k])
  <2>1. /\ G[k] = F[k + 1] /\ G[k - 1] = F[k] /\ Tail(q)[k] = q[k + 1]
        /\ k + 1 \in 1 .. Len(q) /\ (k + 1) - 1 = k
    BY <1>2
  <2>2. F[k + 1] = After(F[(k + 1) - 1], q[k + 1])
    BY <1>1, <2>1
  <2> QED BY <2>1, <2>2
<1> HIDE DEF G
<1> QED BY <1>2, <1>3, <1>4, <1>5 DEF LeadsTo

\* R, the router of shard s, has the books of the reference that are its own, and
\* knows the orders last seen with an instrument of its own.
SameBooks(R, ref, s) ==
  \A i \in Instruments \ {0} : ShardOf(i) = s => R.books[i] = ref.books[i]
SameOrders(R, m, s) ==
  /\ R.instrumentOf[0] = 0
  /\ \A o \in OrderIds : m[o] # 0 /\ ShardOf(m[o]) = s => R.instrumentOf[o] = m[o]

\* What a shard has and what it has still to do make the books of the reference.
\* ApplyAfterClose may learn of orders that no shard is told of any more.
Agree ==
  /\ cpc # "closed" => reference.instrumentOf = instrumentOf /\ instrumentOf[0] = 0
  /\ \A s \in Shards : \E R \in Routers :
       /\ LeadsTo(Backlog(s), router[s], R)
       /\ SameBooks(R, reference, s)
       /\ cpc # "closed" => SameOrders(R, instrumentOf, s)

\* At first all books are empty.
LEMMA InitAgree == Init => Agree
<1> SUFFICES ASSUME Init PROVE Agree
  OBVIOUS
<1>1. 0 \in OrderIds /\ NewRouter.instrumentOf = [o \in OrderIds |-> 0]
  BY IdAssumption DEF NewRouter
<1>2. NewRouter \in Routers
  BY InitTypes DEF Types, Init
<1>3. ASSUME NEW s \in Shards
      PROVE  /\ LeadsTo(Backlog(s), router[s], NewRouter)
             /\ SameBooks(NewRouter, reference, s)
             /\ SameOrders(NewRouter, instrumentOf, s)
  <2>1. <<>> \o <<>> = <<>>
    OBVIOUS
  <2>2. Backlog(s) = <<>> /\ router[s] = NewRouter
    BY <2>1 DEF Init, Backlog
  <2>3. LeadsTo(<<>>, NewRouter, NewRouter)
    BY <1>2, LeadsNowhere
  <2> QED BY <1>1, <2>2, <2>3 DEF Init, SameBooks, SameOrders
<1> QED BY <1>1, <1>2, <1>3 DEF Init, Agree

\* The shard an event is sent to, and whether it is sent at all.
Target(m, e)  == IF e.instr # 0 THEN e.instr
                 ELSE IF e.order # 0 THEN Learn(m, e)[e.order] ELSE 0
Dropped(m, e) == Target(m, e) = 0 /\ e.order # 0

\* An event changes the books and orders of no shard but the one it is sent to ...
LEMMA OtherShards ==
  ASSUME NEW R \in Routers, NEW ref \in Routers, NEW m \in [OrderIds -> Instruments],
         ref.instrumentOf = m, m[0] = 0, NEW e \in Events, NEW s \in Shards,
         SameBooks(R, ref, s), SameOrders(R, m, s),
         Dropped(m, e) \/ s # Target(m, e) % NumShards
  PROVE  SameBooks(R, ApplyTo(ref, e), s) /\ SameOrders(R, Learn(m, e), s)
<1> DEFINE l == Learn(m, e)
           i == l[e.order]
<1>1. /\ e.order \in OrderIds /\ e.instr \in Instruments /\ 0 \in OrderIds
      /\ l \in [OrderIds -> Instruments] /\ i \in Instruments
      /\ ref.books \in [Instruments -> Seq(Events)]
  <2>1. e.order \in OrderIds /\ e.instr \in Instruments /\ 0 \in OrderIds
    BY IdAssumption DEF Events
  <2>2. l \in [OrderIds -> Instruments]
    BY LearnType
  <2>3. ref.books \in [Instruments -> Seq(Events)]
    BY DEF Routers
  <2> QED BY <2>1, <2>2, <2>3
<1>2. /\ e.instr # 0 /\ e.order # 0 => i = e.instr
      /\ ~(e.instr # 0 /\ e.order # 0) => l = m
      /\ \A o \in OrderIds \ {e.order} : l[o] = m[o]
  BY <1>1 DEF Learn
<1>3. /\ ApplyTo(ref, e).instrumentOf = l
      /\ ApplyTo(ref, e).books = IF i = 0 /\ e.order # 0 THEN ref.books
                                 ELSE [ref.books EXCEPT ![i] = Append(@, e)]
  BY DEF ApplyTo
<1>4. /\ e.order # 0 => Target(m, e) = i
      /\ e.order = 0 => i = 0
  BY <1>1, <1>2 DEF Target
<1> HIDE DEF l, i
<1>5. i # 0 => ShardOf(i) # s
  BY <1>4 DEF Dropped, ShardOf
<1>6. SameBooks(R, ApplyTo(ref, e), s)
  BY <1>1, <1>3, <1>5 DEF SameBooks
<1>7. SameOrders(R, l, s)
  <2>1. ASSUME NEW o \in OrderIds, l[o] # 0, ShardOf(l[o]) = s
        PROVE  R.instrumentOf[o] = l[o]
    <3>1. l[o] = m[o]
      BY <1>1, <1>2, <1>5, <2>1 DEF i
    <3> QED BY <2>1, <3>1 DEF SameOrders
  <2> QED BY <2>1 DEF SameOrders
<1> QED BY <1>6, <1>7 DEF l

\* ... and there it changes them as it changes those of the reference.
LEMMA ItsShard ==
  ASSUME NEW R \in Routers, NEW ref \in Routers, NEW m \in [OrderIds -> Instruments],
         ref.instrumentOf = m, m[0] = 0, NEW e \in Events, NEW s \in Shards,
         SameBooks(R, ref, s), SameOrders(R, m, s),
         ~Dropped(m, e), s = Target(m, e) % NumShards
  PROVE  /\ SameBooks(ApplyTo(R, e), ApplyTo(ref, e), s)
         /\ SameOrders(ApplyTo(R, e), Learn(m, e), s)
<1> DEFINE l == Learn(m, e)
           i == l[e.order]
           h == Learn(R.instrumentOf, e)
           j == h[e.order]
<1>1. /\ e.order \in OrderIds /\ e.instr \in Instruments /\ 0 \in OrderIds
      /\ l \in [OrderIds -> Instruments] /\ i \in Instruments
      /\ R.instrumentOf \in [OrderIds -> Instruments]
      /\ h \in [OrderIds -> Instruments] /\ j \in Instruments
      /\ ref.books \in [Instruments -> Seq(Events)] /\ R.books \in [Instruments -> Seq(Events)]
  <2>1. e.order \in OrderIds /\ e.instr \in Instruments /\ 0 \in OrderIds
    BY IdAssumption DEF Events
  <2>2. /\ ref.books \in [Instruments -> Seq(Events)] /\ R.books \in [Instruments -> Seq(Events)]
        /\ R.instrumentOf \in [OrderIds -> Instruments]
    BY DEF Routers
  <2>3. l \in [OrderIds -> Instruments] /\ h \in [OrderIds -> Instruments]
    BY <2>2, LearnType
  <2> QED BY <2>1, <2>2, <2>3
<1>2. /\ e.instr # 0 /\ e.order # 0 => i = e.instr /\ j = e.instr
      /\ ~(e.instr # 0 /\ e.order # 0) => l = m /\ h = R.instrumentOf
      /\ \A o \in OrderIds \ {e.order} : l[o] = m[o] /\ h[o] = R.instrumentOf[o]
  BY <1>1 DEF Learn
<1>3. /\ ApplyTo(ref, e).books = IF i = 0 /\ e.order # 0 THEN ref.books
                                 ELSE [ref.books EXCEPT ![i] = Append(@, e)]
      /\ ApplyTo(R, e).books = IF j = 0 /\ e.order # 0 THEN R.books
                               ELSE [R.books EXCEPT ![j] = Append(@, e)]
      /\ ApplyTo(R, e).instrumentOf = h
  BY DEF ApplyTo
<1>4. R.instrumentOf[0] = 0
  BY DEF SameOrders
<1>5. /\ e.order # 0 => Target(m, e) = i /\ i # 0 /\ ShardOf(i) = s
      /\ e.order = 0 => i = 0 /\ j = 0
  BY <1>1, <1>2, <1>4 DEF Target, Dropped, ShardOf
<1>6. i = j
  <2>1. CASE e.order # 0 /\ e.instr = 0
    BY <1>1, <1>2, <1>5, <2>1 DEF SameOrders
  <2> QED BY <1>2, <1>5, <2>1
<1>7. h[0] = 0
  BY <1>1, <1>2, <1>4, <1>5
<1>8. ASSUME NEW o \in OrderIds, l[o] # 0, ShardOf(l[o]) = s
      PROVE  h[o] = l[o]
  <2>1. CASE o = e.order
    BY <1>6, <2>1
  <2>2. CASE o # e.order
    <3>1. l[o] = m[o] /\ h[o] = R.instrumentOf[o]
      BY <1>2, <2>2
    <3> QED BY <1>8, <3>1 DEF SameOrders
  <2> QED BY <2>1, <2>2
<1> HIDE DEF l, i, h, j
<1>9. SameBooks(ApplyTo(R, e), ApplyTo(ref, e), s)
  <2> SUFFICES ASSUME NEW k \in Instruments \ {0}, ShardOf(k) = s
               PROVE  ApplyTo(R, e).books[k] = ApplyTo(ref, e).books[k]
    BY DEF SameBooks
  <2>1. R.books[k] = ref.books[k]
    BY DEF SameBooks
  <2>2. /\ R.books \in [Instruments -> Seq(Events)] /\ ref.books \in [Instruments -> Seq(Events)]
        /\ i \in Instruments /\ j \in Instruments /\ k \in Instruments
    BY <1>1
  <2>3. ApplyTo(R, e).books[k] = IF k = j THEN Append(R.books[k], e) ELSE R.books[k]
    <3>1. CASE j = 0 /\ e.order # 0
      <4>1. ApplyTo(R, e).books = R.books /\ k # j
        BY <1>3, <3>1
      <4> QED BY <4>1, Zenon
    <3>2. CASE ~(j = 0 /\ e.order # 0)
      <4>1. ApplyTo(R, e).books = [R.books EXCEPT ![j] = Append(@, e)]
        BY <1>3, <3>2, Zenon
      <4>2. [R.books EXCEPT ![j] = Append(@, e)][k]
              = IF k = j THEN Append(R.books[k], e) ELSE R.books[k]
        BY <2>2, Zenon
      <4> QED BY <4>1, <4>2, Zenon
    <3> QED BY <3>1, <3>2
  <2>4. ApplyTo(ref, e).books[k] = IF k = i THEN Append(ref.books[k], e) ELSE ref.books[k]
    <3>1. CASE i = 0 /\ e.order # 0
      <4>1. ApplyTo(ref, e).books = ref.books /\ k # i
        BY <1>3, <3>1
      <4> QED BY <4>1, Zenon
    <3>2. CASE ~(i = 0 /\ e.order # 0)
      <4>1. ApplyTo(ref, e).books = [ref.books EXCEPT ![i] = Append(@, e)]
        BY <1>3, <3>2, Zenon
      <4>2. [ref.books EXCEPT ![i] = Append(@, e)][k]
              = IF k = i THEN Append(ref.books[k], e) ELSE ref.books[k]
        BY <2>2, Zenon
      <4> QED BY <4>1, <4>2, Zenon
    <3> QED BY <3>1, <3>2
  <2> QED BY <1>6, <2>1, <2>3, <2>4, Zenon
<1>10. SameOrders(ApplyTo(R, e), l, s)
  BY <1>3, <1>7, <1>8 DEF SameOrders
<1> QED BY <1>9, <1>10 DEF l

\* The step of an event keeps the agreement.
LEMMA ApplyAgree ==
  ASSUME Types, Agree, NEW e \in Event, Apply(e)
  PROVE  Agree'
<1> DEFINE m == instrumentOf
           ref == reference
<1>1. e \in Events /\ e \in Items /\ e # Promise
  BY EventType, EventIsNoPromise DEF Types, Items
<1>2. /\ cpc = "idle" /\ UNCHANGED <<taken, router, cpc>>
      /\ instrumentOf' = Learn(m, e) /\ reference' = ApplyTo(ref, e)
  BY DEF Apply, workVars, callVars
<1>3. IF Dropped(m, e) THEN UNCHANGED queue ELSE Send(Target(m, e) % NumShards, e)
  BY DEF Apply, Dropped, Target
<1>4. /\ m \in [OrderIds -> Instruments] /\ ref \in Routers
      /\ ref.instrumentOf = m /\ m[0] = 0
  BY <1>2 DEF Types, Agree
<1>5. ref.instrumentOf = m => ApplyTo(ref, e).instrumentOf = Learn(m, e)
  BY DEF ApplyTo
<1>6. Learn(m, e)[0] = 0
  BY <1>4 DEF Learn
<1>7. PICK t \in Shards : t = Target(m, e) % NumShards
  <2>1. Learn(m, e) \in [OrderIds -> Instruments]
    BY <1>1, <1>4, LearnType
  <2>2. Target(m, e) \in Nat
    BY <1>1, <2>1, IdAssumption DEF Target, Events
  <2> QED BY <2>2, ShardIsShard
<1> HIDE DEF m, ref
<1>8. ASSUME NEW s \in Shards
      PROVE  \E R \in Routers : /\ LeadsTo(Backlog(s)', router[s], R)
                               /\ SameBooks(R, ApplyTo(ref, e), s)
                               /\ SameOrders(R, Learn(m, e), s)
  <2>1. PICK R \in Routers : /\ LeadsTo(Backlog(s), router[s], R)
                             /\ SameBooks(R, ref, s) /\ SameOrders(R, m, s)
    BY <1>2 DEF Agree, m, ref
  <2>2. CASE Dropped(m, e) \/ s # t
    <3>1. Backlog(s)' = Backlog(s)
      <4>1. CASE Dropped(m, e)
        BY <1>2, <1>3, <4>1, BacklogsSame
      <4>2. CASE ~Dropped(m, e) /\ s # t
        BY <1>1, <1>2, <1>3, <1>7, <4>2, BacklogSent
      <4> QED BY <2>2, <4>1, <4>2
    <3>2. SameBooks(R, ApplyTo(ref, e), s) /\ SameOrders(R, Learn(m, e), s)
      BY <1>1, <1>4, <1>7, <2>1, <2>2, OtherShards
    <3> QED BY <2>1, <3>1, <3>2
  <2>3. CASE ~Dropped(m, e) /\ s = t
    <3>1. Backlog(s)' = Append(Backlog(s), e)
      BY <1>1, <1>2, <1>3, <1>7, <2>3, BacklogSent
    <3>2. After(R, e) = ApplyTo(R, e) /\ After(R, e) \in Routers
      BY <1>1, AfterType DEF After
    <3>3. LeadsTo(Append(Backlog(s), e), router[s], After(R, e))
      <4>1. Backlog(s) \in Seq(Items) /\ router[s] \in Routers
        BY TakenIs DEF Types
      <4> QED BY <1>1, <2>1, <4>1, LeadsOn
    <3>4. SameBooks(ApplyTo(R, e), ApplyTo(ref, e), s) /\ SameOrders(ApplyTo(R, e), Learn(m, e), s)
      BY <1>1, <1>4, <1>7, <2>1, <2>3, ItsShard
    <3> QED BY <3>1, <3>2, <3>3, <3>4
  <2> QED BY <2>2, <2>3
<1> QED BY <1>2, <1>4, <1>5, <1>6, <1>8 DEF Agree

\* The other steps leave the reference alone.
LEMMA OthersAgree ==
  ASSUME Types, Agree,
         \/ \E e \in Event : ApplyAfterClose(e)
         \/ Caller \/ (\E s \in Shards : Worker(s)) \/ UNCHANGED vars
  PROVE  Agree'
<1>1. /\ reference' = reference
      /\ cpc' # "closed" => cpc # "closed" /\ instrumentOf' = instrumentOf
  BY DEF ApplyAfterClose, Caller, BeginRead, PushPromise, Synced, EndRead, BeginClose, CloseQueue,
         Joined, Worker, Take, Visit, Exit, vars, callVars
<1>2. SUFFICES ASSUME NEW s \in Shards, NEW R \in Routers, LeadsTo(Backlog(s), router[s], R)
               PROVE  LeadsTo(Backlog(s), router[s], R)'
  BY <1>1 DEF Agree
<1>3. Backlog(s) \in Seq(Items) /\ router[s] \in Routers
  BY TakenIs DEF Types
<1>4. CASE UNCHANGED <<queue, taken, router>>
  BY <1>2, <1>4, BacklogsSame DEF LeadsTo
<1>5. CASE PushPromise
  <2>1. PICK n \in Shards : n = next
    BY DEF Types
  <2>2. Send(n, Promise) /\ Promise \in Items /\ UNCHANGED <<taken, router>>
    BY <1>5, <2>1 DEF PushPromise, Items, workVars
  <2>3. Backlog(s)' = IF s = n THEN Append(Backlog(s), Promise) ELSE Backlog(s)
    BY <2>1, <2>2, BacklogSent
  <2>4. After(R, Promise) = R
    BY DEF After
  <2>5. LeadsTo(Append(Backlog(s), Promise), router[s], R)
    BY <1>2, <1>3, <2>2, <2>4, LeadsOn
  <2> QED BY <1>2, <2>2, <2>3, <2>5
<1>6. ASSUME NEW t \in Shards, Take(t)
      PROVE  LeadsTo(Backlog(s), router[s], R)'
  BY <1>2, <1>6, BacklogTaken DEF Take
<1>7. ASSUME NEW t \in Shards, Visit(t)
      PROVE  LeadsTo(Backlog(s), router[s], R)'
  <2>1. /\ Backlog(t) # <<>> /\ Head(Backlog(t)) = taken[t][1]
        /\ Backlog(t)' = Tail(Backlog(t))
        /\ \A u \in Shards \ {t} : Backlog(u)' = Backlog(u)
    BY <1>7, BacklogVisited
  <2>2. router' = [router EXCEPT ![t] = After(@, taken[t][1])]
    BY <1>7 DEF Visit, After, Types
  <2>3. CASE s = t
    <3>1. LeadsTo(Tail(Backlog(s)), After(router[s], Head(Backlog(s))), R)
      BY <1>2, <1>3, <2>1, <2>3, LeadsFrom
    <3>2. router'[s] = After(router[s], Head(Backlog(s)))
      BY <2>1, <2>2, <2>3 DEF Types
    <3> QED BY <2>1, <2>3, <3>1, <3>2
  <2>4. CASE s # t
    <3>1. router'[s] = router[s] /\ Backlog(s)' = Backlog(s)
      BY <2>1, <2>2, <2>4 DEF Types
    <3> QED BY <1>2, <3>1
  <2> QED BY <2>3, <2>4
<1> QED BY <1>4, <1>5, <1>6, <1>7
       DEF ApplyAfterClose, Caller, BeginRead, Synced, EndRead, BeginClose, CloseQueue, Joined,
           Worker, Exit, vars, workVars

\* The agreement, in every step.
LEMMA AgreeStep == Types /\ Agree /\ [Next]_vars => Agree'
<1> SUFFICES ASSUME Types, Agree, [Next]_vars PROVE Agree'
  OBVIOUS
<1> QED BY ApplyAgree, OthersAgree DEF Next

\* What is read, and what is there at the end, are the books that one simple
\* router would have made of the same events, in whatever order the shards worked.
THEOREM ReadsAgree == Spec => []AgreesWithSimple
<1>1. Types /\ Sync /\ Agree => AgreesWithSimple
  <2> SUFFICES ASSUME Types, Sync, Agree, cpc \in {"read", "closed"},
                      NEW i \in Instruments \ {0}
               PROVE  router[ShardOf(i)].books[i] = reference.books[i]
    BY DEF AgreesWithSimple
  <2>1. PICK s \in Shards : s = ShardOf(i)
    BY IdAssumption, ShardIsShard DEF ShardOf
  <2>2. Backlog(s) = <<>>
    BY DEF Sync, ShardSynced
  <2>3. PICK R \in Routers : LeadsTo(<<>>, router[s], R) /\ SameBooks(R, reference, s)
    BY <2>2 DEF Agree
  <2>4. R = router[s]
    BY <2>3, LeadsNowhere DEF Types
  <2> QED BY <2>1, <2>3, <2>4 DEF SameBooks
<1> QED BY <1>1, InitTypes, TypesStep, InitSync, SyncStep, InitAgree, AgreeStep, PTL DEF Spec
=============================================================================
