------------------------- MODULE BlockingQueue_proofs -------------------------
(***************************************************************************)
(* BlockingQueue, for every finite set of producers and consumers: no      *)
(* wake-up is lost, every item accepted is held once, and the queue is the *)
(* FIFO channel its callers rely on.                                       *)
(***************************************************************************)
EXTENDS BlockingQueue, FiniteSetTheorems, SequenceTheorems, TLAPS

\* The items of one push_batch are items.
LEMMA BatchIsSeq ==
  ASSUME NEW p \in Producers, NEW m \in Nat, NEW n \in Nat
  PROVE  /\ [k \in 1 .. n |-> <<p, m + k>>] \in Seq(Item)
         /\ Len([k \in 1 .. n |-> <<p, m + k>>]) = n
<1>1. \A k \in 1 .. n : <<p, m + k>> \in Item
  BY DEF Item
<1> QED BY <1>1

\* What is appended comes after what was there.
LEMMA Appended ==
  ASSUME NEW S, NEW s \in Seq(S), NEW t \in Seq(S)
  PROVE  /\ s \o t \in Seq(S) /\ Len(s) \in Nat /\ Len(t) \in Nat
         /\ Len(s \o t) = Len(s) + Len(t)
         /\ DOMAIN s = 1 .. Len(s) /\ DOMAIN (s \o t) = 1 .. Len(s) + Len(t)
         /\ \A i \in 1 .. Len(s) : (s \o t)[i] = s[i] /\ s[i] \in S
         /\ \A i \in Len(s) + 1 .. Len(s) + Len(t) :
              (s \o t)[i] = t[i - Len(s)] /\ i - Len(s) \in 1 .. Len(t)
<1>1. Len(s) \in Nat /\ Len(t) \in Nat
  BY LenProperties
<1>2. s \o t \in Seq(S) /\ Len(s \o t) = Len(s) + Len(t)
  BY ConcatProperties
<1>3. DOMAIN s = 1 .. Len(s) /\ DOMAIN (s \o t) = 1 .. Len(s) + Len(t)
  BY <1>2, LenProperties
<1>4. ASSUME NEW i \in 1 .. Len(s)
      PROVE  (s \o t)[i] = s[i] /\ s[i] \in S
  BY <1>1, ConcatProperties, ElementOfSeq
<1>5. ASSUME NEW i \in Len(s) + 1 .. Len(s) + Len(t)
      PROVE  (s \o t)[i] = t[i - Len(s)] /\ i - Len(s) \in 1 .. Len(t)
  <2>1. i \in 1 .. Len(s) + Len(t) /\ ~(i <= Len(s)) /\ i - Len(s) \in 1 .. Len(t)
    BY <1>1
  <2> QED BY <2>1, ConcatProperties
<1> QED BY <1>1, <1>2, <1>3, <1>4, <1>5

\* The empty local of pop is not an item.
LEMMA NoItemIsNone == NoItem \notin Item
BY DEF NoItem, Item

\* A consumer has an item in its hands exactly while it runs fn.
InHand == \A c \in Consumers : IF cpc[c] = "fn" THEN item[c] \in Item ELSE item[c] = NoItem

\* Every variable has its type at first ...
LEMMA InitTypes == Init => TypeOK /\ InHand
<1> SUFFICES ASSUME Init PROVE TypeOK /\ InHand
  OBVIOUS
<1>1. <<>> \in Seq(Item)
  BY EmptySeq
<1>2. /\ ppc \in [Producers -> {"idle"}] /\ cpc \in [Consumers -> {"idle"}]
      /\ sent \in [Producers -> Nat] /\ item \in [Consumers -> {NoItem}]
      /\ delivered \in [Consumers -> Seq(Item)]
  BY <1>1 DEF Init
<1> QED BY <1>1, <1>2 DEF Init, TypeOK, InHand

\* ... and keeps it, a consumer its item until it has run fn.
LEMMA TypeStep == TypeOK /\ InHand /\ [Next]_vars => TypeOK' /\ InHand'
<1> SUFFICES ASSUME TypeOK, InHand, [Next]_vars PROVE TypeOK' /\ InHand'
  OBVIOUS
<1> USE DEF TypeOK, InHand
<1>1. ASSUME NEW p \in Producers, NEW n \in Nat, NEW l \in {"notify_one", "notify_all"},
             AppendItems(p, n, l)
      PROVE  TypeOK' /\ InHand'
  <2>1. /\ queue' = queue \o [k \in 1 .. n |-> <<p, sent[p] + k>>]
        /\ sent' = [sent EXCEPT ![p] = @ + n] /\ ppc' = [ppc EXCEPT ![p] = l]
        /\ UNCHANGED <<closed, cpc, item, delivered>>
    BY <1>1 DEF AppendItems
  <2>2. queue' \in Seq(Item)
    <3>1. sent[p] \in Nat
      OBVIOUS
    <3> QED BY <2>1, <3>1, BatchIsSeq, ConcatProperties
  <2> QED BY <2>1, <2>2
<1>2. ASSUME NEW p \in Producers, PushThrow(p) \/ Close(p) \/ Notify(p)
      PROVE  TypeOK' /\ InHand'
  <2>1. UNCHANGED <<queue, sent, item, delivered>>
    BY <1>2 DEF PushThrow, Close, Notify, NotifyOne, NotifyAll
  <2>2. closed' \in BOOLEAN
        /\ ppc' \in [Producers -> {"idle", "notify_one", "notify_all",
                                   "notify_closed", "threw", "finished"}]
    BY <1>2 DEF PushThrow, Close, Notify, NotifyOne, NotifyAll
  <2>3. /\ cpc' \in [Consumers -> {"idle", "waiting", "woken", "fn", "end"}]
        /\ \A c \in Consumers : cpc'[c] = "fn" <=> cpc[c] = "fn"
    BY <1>2 DEF PushThrow, Close, Notify, NotifyOne, NotifyAll, Waiting, At
  <2> QED BY <2>1, <2>2, <2>3
<1>3. ASSUME NEW c \in Consumers, PopTake(c)
      PROVE  TypeOK' /\ InHand'
  <2>1. Head(queue) \in Item /\ Tail(queue) \in Seq(Item)
    BY <1>3, HeadTailProperties DEF PopTake
  <2> QED BY <1>3, <2>1 DEF PopTake
<1>4. ASSUME NEW c \in Consumers, RunFn(c)
      PROVE  TypeOK' /\ InHand'
  <2>1. item[c] \in Item
    BY <1>4 DEF RunFn
  <2> QED BY <1>4, <2>1 DEF RunFn
<1>5. ASSUME NEW c \in Consumers, PopWait(c) \/ PopEnd(c) \/ SpuriousWake(c)
      PROVE  TypeOK' /\ InHand'
  BY <1>5 DEF PopWait, PopEnd, SpuriousWake
<1>6. CASE UNCHANGED vars
  BY <1>6 DEF vars
<1> QED BY <1>1, <1>2, <1>3, <1>4, <1>5, <1>6
       DEF Next, Push, PushBatch, Pop, Terminated

\* The types hold for every set of producers and consumers.
THEOREM Typing == Spec => [](TypeOK /\ InHand)
BY InitTypes, TypeStep, PTL DEF Spec
-----------------------------------------------------------------------------
(* Wake-ups *)

\* How the threads at a place are counted when one of them moves.
LEMMA AtMoves ==
  ASSUME NEW T, IsFiniteSet(T), NEW pc, DOMAIN pc = T, NEW next, DOMAIN next = T,
         NEW t \in T, \A u \in T \ {t} : next[u] = pc[u], NEW m
  PROVE  Cardinality(At(next, m))
           = IF pc[t] = m /\ next[t] # m THEN Cardinality(At(pc, m)) - 1
             ELSE IF pc[t] # m /\ next[t] = m THEN Cardinality(At(pc, m)) + 1
             ELSE Cardinality(At(pc, m))
<1>1. At(pc, m) \in SUBSET T
  BY DEF At
<1>2. IsFiniteSet(At(pc, m))
  BY <1>1, FS_Subset
<1>3. CASE pc[t] = m /\ next[t] # m
  <2>1. At(next, m) = At(pc, m) \ {t} /\ t \in At(pc, m)
    BY <1>3 DEF At
  <2> QED BY <1>2, <1>3, <2>1, FS_RemoveElement
<1>4. CASE pc[t] # m /\ next[t] = m
  <2>1. At(next, m) = At(pc, m) \union {t} /\ t \notin At(pc, m)
    BY <1>4 DEF At
  <2> QED BY <1>2, <1>4, <2>1, FS_AddElement
<1>5. CASE (pc[t] = m) = (next[t] = m)
  <2>1. At(next, m) = At(pc, m)
    BY <1>5 DEF At
  <2> QED BY <1>5, <2>1
<1> QED BY <1>3, <1>4, <1>5

\* A notify_all is still to come; the notify_one calls to come; the consumers on
\* their way to the mutex.
AllOwed == \E p \in Producers : ppc[p] \in {"notify_all", "notify_closed"}
Owed    == Cardinality(At(ppc, "notify_one"))
Woken   == Cardinality(At(cpc, "woken"))
WaitInv == (\E c \in Consumers : cpc[c] = "waiting")
             => AllOwed \/ (~closed /\ Len(queue) <= Owed + Woken)

CountsAreNumbers == Owed \in Nat /\ Woken \in Nat /\ Len(queue) \in Nat

\* The places of the producers and of the consumers.
ProducerAt == {"idle", "notify_one", "notify_all", "notify_closed", "threw", "finished"}
ConsumerAt == {"idle", "waiting", "woken", "fn", "end"}

\* The counts are counts of finite sets.
LEMMA CountTypes == TypeOK => CountsAreNumbers
<1> SUFFICES ASSUME TypeOK PROVE CountsAreNumbers
  OBVIOUS
<1>1. At(ppc, "notify_one") \in SUBSET Producers /\ At(cpc, "woken") \in SUBSET Consumers
  BY DEF TypeOK, At
<1> QED BY <1>1, ConstAssumption, FS_Subset, FS_CardinalityType, LenProperties
        DEF TypeOK, CountsAreNumbers, Owed, Woken

\* The notifications owed, when a producer moves.
LEMMA OwedMoves ==
  ASSUME TypeOK, NEW p \in Producers, NEW l \in ProducerAt, ppc' = [ppc EXCEPT ![p] = l]
  PROVE  Owed' = IF ppc[p] = "notify_one" /\ l # "notify_one" THEN Owed - 1
                 ELSE IF ppc[p] # "notify_one" /\ l = "notify_one" THEN Owed + 1
                 ELSE Owed
<1>1. ppc \in [Producers -> ProducerAt] /\ IsFiniteSet(Producers)
  BY ConstAssumption DEF TypeOK, ProducerAt
<1>2. /\ DOMAIN ppc = Producers /\ DOMAIN ppc' = Producers /\ ppc'[p] = l
      /\ \A q \in Producers \ {p} : ppc'[q] = ppc[q]
  BY <1>1
<1> DEFINE a == ppc  b == ppc'
<1>3. /\ IsFiniteSet(Producers) /\ DOMAIN a = Producers /\ DOMAIN b = Producers
      /\ \A u \in Producers \ {p} : b[u] = a[u]
  BY <1>1, <1>2
<1> HIDE DEF a, b
<1>4. Cardinality(At(b, "notify_one"))
        = IF a[p] = "notify_one" /\ b[p] # "notify_one" THEN Cardinality(At(a, "notify_one")) - 1
          ELSE IF a[p] # "notify_one" /\ b[p] = "notify_one"
          THEN Cardinality(At(a, "notify_one")) + 1
          ELSE Cardinality(At(a, "notify_one"))
  BY <1>3, AtMoves
<1> QED BY <1>2, <1>4 DEF a, b, Owed

\* The consumers woken, when one moves.
LEMMA WokenMoves ==
  ASSUME TypeOK, NEW c \in Consumers, NEW l \in ConsumerAt, cpc' = [cpc EXCEPT ![c] = l]
  PROVE  Woken' = IF cpc[c] = "woken" /\ l # "woken" THEN Woken - 1
                  ELSE IF cpc[c] # "woken" /\ l = "woken" THEN Woken + 1
                  ELSE Woken
<1>1. cpc \in [Consumers -> ConsumerAt] /\ IsFiniteSet(Consumers)
  BY ConstAssumption DEF TypeOK, ConsumerAt
<1>2. /\ DOMAIN cpc = Consumers /\ DOMAIN cpc' = Consumers /\ cpc'[c] = l
      /\ \A d \in Consumers \ {c} : cpc'[d] = cpc[d]
  BY <1>1
<1> DEFINE a == cpc  b == cpc'
<1>3. /\ IsFiniteSet(Consumers) /\ DOMAIN a = Consumers /\ DOMAIN b = Consumers
      /\ \A u \in Consumers \ {c} : b[u] = a[u]
  BY <1>1, <1>2
<1> HIDE DEF a, b
<1>4. Cardinality(At(b, "woken"))
        = IF a[c] = "woken" /\ b[c] # "woken" THEN Cardinality(At(a, "woken")) - 1
          ELSE IF a[c] # "woken" /\ b[c] = "woken"
          THEN Cardinality(At(a, "woken")) + 1
          ELSE Cardinality(At(a, "woken"))
  BY <1>3, AtMoves
<1> QED BY <1>2, <1>4 DEF a, b, Woken

\* Producers: a push owes one notification, a batch and close owe all.
LEMMA ProducerWaitInv ==
  ASSUME TypeOK, TypeOK', WaitInv, NEW p \in Producers,
         Push(p) \/ PushBatch(p) \/ PushThrow(p) \/ Close(p) \/ Notify(p)
  PROVE  WaitInv'
<1>0. CountsAreNumbers /\ CountsAreNumbers'
  BY CountTypes, PTL
<1> USE <1>0 DEF CountsAreNumbers
<1>1. CASE Push(p)
  <2>1. /\ ppc[p] = "idle" /\ ppc' = [ppc EXCEPT ![p] = "notify_one"]
        /\ queue' = queue \o [k \in 1 .. 1 |-> <<p, sent[p] + k>>]
        /\ UNCHANGED <<closed, cpc>>
    BY <1>1 DEF Push, AppendItems
  <2>2. Len(queue') = Len(queue) + 1
    BY <2>1, BatchIsSeq, ConcatProperties DEF TypeOK
  <2>3. Owed' = Owed + 1 /\ Woken' = Woken
    BY <2>1, OwedMoves DEF Woken, ProducerAt
  <2>4. AllOwed => AllOwed'
    BY <2>1 DEF AllOwed, TypeOK
  <2> QED BY <2>1, <2>2, <2>3, <2>4 DEF WaitInv
<1>2. CASE PushBatch(p) \/ Close(p)
  <2>1. ppc'[p] \in {"notify_all", "notify_closed"}
    BY <1>2 DEF PushBatch, AppendItems, Close, TypeOK
  <2> QED BY <2>1 DEF WaitInv, AllOwed
<1>3. CASE PushThrow(p)
  <2>1. /\ ppc[p] = "idle" /\ ppc' = [ppc EXCEPT ![p] = "threw"]
        /\ UNCHANGED <<queue, closed, cpc>>
    BY <1>3 DEF PushThrow
  <2>2. Owed' = Owed /\ Woken' = Woken
    BY <2>1, OwedMoves DEF Woken, ProducerAt
  <2>3. AllOwed => AllOwed'
    BY <2>1 DEF AllOwed, TypeOK
  <2> QED BY <2>1, <2>2, <2>3 DEF WaitInv
<1>4. CASE NotifyOne(p) /\ Waiting # {}
  <2>1. /\ ppc[p] = "notify_one" /\ ppc' = [ppc EXCEPT ![p] = "idle"]
        /\ UNCHANGED <<queue, closed>>
    BY <1>4 DEF NotifyOne
  <2>2. PICK c \in Waiting : cpc' = [cpc EXCEPT ![c] = "woken"]
    BY <1>4 DEF NotifyOne
  <2>3. c \in Consumers /\ cpc[c] = "waiting"
    BY DEF Waiting, At, TypeOK
  <2>4. Owed' = Owed - 1 /\ Woken' = Woken + 1
    BY <2>1, <2>2, <2>3, OwedMoves, WokenMoves DEF ProducerAt, ConsumerAt
  <2>5. AllOwed => AllOwed'
    BY <2>1 DEF AllOwed, TypeOK
  <2> QED BY <2>1, <2>3, <2>4, <2>5 DEF WaitInv
<1>5. CASE NotifyAll(p) \/ (NotifyOne(p) /\ Waiting = {})
  <2>1. \A c \in Consumers : cpc'[c] # "waiting"
    BY <1>5 DEF NotifyAll, NotifyOne, Waiting, At, TypeOK
  <2> QED BY <2>1 DEF WaitInv
<1> QED BY <1>1, <1>2, <1>3, <1>4, <1>5 DEF Notify

\* Consumers: one that leaves the woken takes an item with it or finds none.
LEMMA ConsumerWaitInv ==
  ASSUME TypeOK, TypeOK', WaitInv, NEW c \in Consumers, Pop(c) \/ SpuriousWake(c)
  PROVE  WaitInv'
<1>0. CountsAreNumbers /\ CountsAreNumbers'
  BY CountTypes, PTL
<1> USE <1>0 DEF CountsAreNumbers
<1>1. AllOwed' = AllOwed /\ Owed' = Owed /\ closed' = closed
  BY DEF Pop, PopTake, PopWait, PopEnd, RunFn, SpuriousWake, AllOwed, Owed
<1>2. CASE PopTake(c)
  <2>1. /\ cpc[c] \in {"idle", "woken"} /\ queue # <<>> /\ queue' = Tail(queue)
        /\ cpc' = [cpc EXCEPT ![c] = "fn"]
    BY <1>2 DEF PopTake
  <2>2. Len(queue') = Len(queue) - 1
    BY <2>1, HeadTailProperties DEF TypeOK
  <2>3. Woken' = IF cpc[c] = "woken" THEN Woken - 1 ELSE Woken
    BY <2>1, WokenMoves DEF ConsumerAt
  <2>4. \A d \in Consumers : cpc'[d] = "waiting" => cpc[d] = "waiting"
    BY <2>1 DEF TypeOK
  <2> QED BY <1>1, <2>2, <2>3, <2>4 DEF WaitInv
<1>3. CASE PopWait(c)
  <2>1. Len(queue') = 0 /\ ~closed'
    BY <1>3 DEF PopWait
  <2>2. Owed' \in Nat /\ Woken' \in Nat
    BY <1>0
  <2>3. \A m, n \in Nat : 0 <= m + n
    OBVIOUS
  <2>4. 0 <= Owed' + Woken'
    BY <2>2, <2>3
  <2> QED BY <2>1, <2>4 DEF WaitInv
<1>4. CASE PopEnd(c)
  <2>1. closed /\ cpc' = [cpc EXCEPT ![c] = "end"]
    BY <1>4 DEF PopEnd
  <2>2. \A d \in Consumers : cpc'[d] = "waiting" => cpc[d] = "waiting"
    BY <2>1 DEF TypeOK
  <2> QED BY <1>1, <2>1, <2>2 DEF WaitInv
<1>5. CASE RunFn(c)
  <2>1. cpc[c] = "fn" /\ cpc' = [cpc EXCEPT ![c] = "idle"] /\ queue' = queue
    BY <1>5 DEF RunFn
  <2>2. Woken' = Woken
    BY <2>1, WokenMoves DEF ConsumerAt
  <2>3. \A d \in Consumers : cpc'[d] = "waiting" => cpc[d] = "waiting"
    BY <2>1 DEF TypeOK
  <2> QED BY <1>1, <2>1, <2>2, <2>3 DEF WaitInv
<1>6. CASE SpuriousWake(c)
  <2>1. cpc[c] = "waiting" /\ cpc' = [cpc EXCEPT ![c] = "woken"] /\ queue' = queue
    BY <1>6 DEF SpuriousWake
  <2>2. Woken' = Woken + 1
    BY <2>1, WokenMoves DEF ConsumerAt
  <2>3. \A d \in Consumers : cpc'[d] = "waiting" => cpc[d] = "waiting"
    BY <2>1 DEF TypeOK
  <2> QED BY <1>1, <2>1, <2>2, <2>3 DEF WaitInv
<1> QED BY <1>2, <1>3, <1>4, <1>5, <1>6 DEF Pop

\* No wake-up is lost.
THEOREM WakeupsReach == Spec => []WakeupsSuffice
<1>1. Init => WaitInv
  BY DEF Init, WaitInv
<1>2. TypeOK /\ TypeOK' /\ WaitInv /\ [Next]_vars => WaitInv'
  <2> SUFFICES ASSUME TypeOK, TypeOK', WaitInv, [Next]_vars PROVE WaitInv'
    OBVIOUS
  <2>1. CASE UNCHANGED vars
    BY <2>1 DEF vars, WaitInv, AllOwed, Owed, Woken
  <2> QED BY <2>1, ProducerWaitInv, ConsumerWaitInv DEF Next, Terminated
<1>3. TypeOK /\ WaitInv => WakeupsSuffice
  <2> SUFFICES ASSUME TypeOK, WaitInv, Waiting # {}
               PROVE  \/ At(ppc, "notify_all") \union At(ppc, "notify_closed") # {}
                      \/ ~closed /\ Len(queue) <= Owed + Woken
    BY DEF WakeupsSuffice, Owed, Woken
  <2>1. \E c \in Consumers : cpc[c] = "waiting"
    BY DEF Waiting, At, TypeOK
  <2>2. AllOwed => At(ppc, "notify_all") \union At(ppc, "notify_closed") # {}
    BY DEF AllOwed, At, TypeOK
  <2> QED BY <2>1, <2>2 DEF WaitInv
<1> QED BY <1>1, <1>2, <1>3, Typing, PTL DEF Spec
-----------------------------------------------------------------------------
(* The channel *)

\* A push, or a batch with something in it, makes all its items available.
LEMMA SendImplements ==
  ASSUME TypeOK, NEW p \in Producers, NEW n \in Nat, NEW l, AppendItems(p, n, l)
  PROVE  Abstract!Send \/ UNCHANGED Abstract!vars
<1>0. queue \in Seq(Item) /\ sent[p] \in Nat
  BY DEF TypeOK
<1> DEFINE batch == [k \in 1 .. n |-> <<p, sent[p] + k>>]
<1>1. ~closed /\ queue' = queue \o batch /\ UNCHANGED <<closed, cpc>>
  BY DEF AppendItems
<1>2. batch \in Seq(Item) /\ Len(batch) = n
  BY <1>0, BatchIsSeq
<1> HIDE DEF batch
<1>3. CASE n = 0
  <2>1. queue' = queue
    BY <1>0, <1>1, <1>2, <1>3, EmptySeq, ConcatEmptySeq
  <2> QED BY <1>1, <2>1 DEF Abstract!vars
<1>4. CASE n > 0
  <2>1. /\ Len(queue) \in Nat /\ Len(queue') = Len(queue) + n
        /\ \A i \in 1 .. Len(queue) : queue'[i] = queue[i] /\ queue[i] \in Item
        /\ queue' \in Seq(Item)
    <3>1. /\ Len(queue) \in Nat /\ Len(queue \o batch) = Len(queue) + Len(batch)
          /\ queue \o batch \in Seq(Item)
      BY <1>0, <1>2, Appended
    <3>2. \A i \in 1 .. Len(queue) : (queue \o batch)[i] = queue[i] /\ queue[i] \in Item
      BY <1>0, <1>2, Appended
    <3> QED BY <1>1, <1>2, <3>1, <3>2
  <2>2. SubSeq(queue', 1, Len(queue)) = queue
    <3>1. /\ SubSeq(queue', 1, Len(queue)) \in Seq(Item)
          /\ Len(SubSeq(queue', 1, Len(queue))) = Len(queue)
          /\ \A i \in 1 .. Len(queue) : SubSeq(queue', 1, Len(queue))[i] = queue[i]
      BY <2>1, SubSeqProperties
    <3> QED BY <1>0, <3>1, SeqEqual
  <2> QED BY <1>1, <1>4, <2>1, <2>2 DEF Abstract!Send
<1> QED BY <1>3, <1>4

\* Only PopEnd makes a consumer end; all other steps leave the ended alone.
LEMMA StepImplements ==
  TypeOK /\ [Next]_vars => [Abstract!Next]_(Abstract!vars)
<1> SUFFICES ASSUME TypeOK, [Next]_vars PROVE [Abstract!Next]_(Abstract!vars)
  OBVIOUS
<1> USE DEF TypeOK
<1>1. ASSUME NEW p \in Producers, NEW n \in Nat, NEW l, AppendItems(p, n, l)
      PROVE  Abstract!Send \/ UNCHANGED Abstract!vars
  BY <1>1, SendImplements
<1>2. ASSUME NEW p \in Producers, PushThrow(p)
      PROVE  UNCHANGED Abstract!vars
  BY <1>2 DEF PushThrow, Abstract!vars
<1>3. ASSUME NEW p \in Producers, Close(p)
      PROVE  Abstract!Close
  BY <1>3 DEF Close, Abstract!Close
<1>4. ASSUME NEW p \in Producers, Notify(p)
      PROVE  UNCHANGED Abstract!vars
  <2>1. \A c \in Consumers : cpc'[c] = "end" <=> cpc[c] = "end"
    BY <1>4 DEF Notify, NotifyOne, NotifyAll, Waiting, At
  <2>2. UNCHANGED <<queue, closed>> /\ DOMAIN cpc' = Consumers
    BY <1>4 DEF Notify, NotifyOne, NotifyAll, Waiting, At
  <2> QED BY <2>1, <2>2 DEF Abstract!vars, At
<1>5. ASSUME NEW c \in Consumers, PopTake(c) \/ PopWait(c) \/ SpuriousWake(c) \/ RunFn(c)
      PROVE  Abstract!Take \/ UNCHANGED Abstract!vars
  <2>1. (At(cpc, "end") # {})' <=> At(cpc, "end") # {}
    <3>1. \A d \in Consumers : cpc'[d] = "end" <=> cpc[d] = "end"
      BY <1>5 DEF PopTake, PopWait, SpuriousWake, RunFn
    <3>2. DOMAIN cpc' = Consumers
      BY <1>5 DEF PopTake, PopWait, SpuriousWake, RunFn
    <3> QED BY <3>1, <3>2 DEF At
  <2> QED BY <1>5, <2>1
          DEF PopTake, PopWait, SpuriousWake, RunFn, Abstract!Take, Abstract!vars
<1>6. ASSUME NEW c \in Consumers, PopEnd(c)
      PROVE  Abstract!End
  <2>1. c \in At(cpc, "end")'
    BY <1>6 DEF PopEnd, At
  <2> QED BY <1>6, <2>1 DEF PopEnd, Abstract!End
<1>7. CASE UNCHANGED vars
  BY <1>7 DEF vars, Abstract!vars
<1> QED BY <1>1, <1>2, <1>3, <1>4, <1>5, <1>6, <1>7
       DEF Next, Push, PushBatch, Pop, Terminated, Abstract!Next

\* BlockingQueue is a FIFO channel with one end-of-stream.
THEOREM IsChannel == Spec => ImplementsChannel
<1>1. Init => Abstract!Init
  BY DEF Init, Abstract!Init, At
<1> QED BY <1>1, StepImplements, Typing, PTL DEF Spec, Abstract!Spec, ImplementsChannel
-----------------------------------------------------------------------------
(* The items *)

Has(s, x) == \E i \in DOMAIN s : s[i] = x
Precede(s, t) == \A i \in DOMAIN s, j \in DOMAIN t : s[i][1] = t[j][1] => s[i][2] < t[j][2]
Ascends(s) == \A i, j \in DOMAIN s : i < j /\ s[i][1] = s[j][1] => s[i][2] < s[j][2]

\* Every item accepted is in the queue or in one consumer's hands; a producer's
\* items are in order in the queue and in every hand, and the hands are before
\* the queue.
ItemInv ==
  /\ Ascends(queue)
  /\ \A i \in DOMAIN queue : queue[i][2] <= sent[queue[i][1]]
  /\ \A c \in Consumers : Ascends(Handed(c)) /\ Precede(Handed(c), queue)
  /\ \A c \in Consumers : \A i \in DOMAIN Handed(c) :
       Handed(c)[i][2] <= sent[Handed(c)[i][1]]
  /\ \A c, d \in Consumers : c # d =>
       \A x \in Item : ~(Has(Handed(c), x) /\ Has(Handed(d), x))
  /\ \A p \in Producers : \A k \in 1 .. sent[p] :
       Has(queue, <<p, k>>) \/ \E c \in Consumers : Has(Handed(c), <<p, k>>)

\* What a consumer has been given is a sequence of items.
LEMMA HandedTypes ==
  ASSUME TypeOK, InHand, NEW c \in Consumers
  PROVE  Handed(c) \in Seq(Item)
<1>1. delivered[c] \in Seq(Item) /\ (item[c] # NoItem => item[c] \in Item)
  BY DEF TypeOK, InHand
<1> QED BY <1>1, AppendProperties DEF Handed

\* A new batch comes after everything of its producer.
LEMMA PushItems ==
  ASSUME TypeOK, InHand, ItemInv, NEW p \in Producers, NEW n \in Nat, NEW l,
         AppendItems(p, n, l)
  PROVE  ItemInv'
<1> DEFINE batch == [k \in 1 .. n |-> <<p, sent[p] + k>>]
           m == sent[p]
           q == Len(queue)
<1>1. /\ m \in Nat /\ queue' = queue \o batch /\ sent' = [sent EXCEPT ![p] = m + n]
      /\ sent'[p] = m + n /\ \A c \in Consumers : Handed(c)' = Handed(c)
  BY DEF AppendItems, TypeOK, Handed
<1>2. /\ q \in Nat /\ DOMAIN queue = 1 .. q /\ DOMAIN queue' = 1 .. q + n
      /\ \A i \in 1 .. q : queue'[i] = queue[i] /\ queue[i] \in Item
      /\ \A i \in q + 1 .. q + n :
           /\ queue'[i] = <<p, m + (i - q)>> /\ i - q \in 1 .. n
           /\ queue'[i][1] = p /\ queue'[i][2] = m + (i - q)
  <2>1. batch \in Seq(Item) /\ Len(batch) = n /\ queue \in Seq(Item)
    BY <1>1, BatchIsSeq DEF TypeOK
  <2>2. \A i \in 1 .. n : batch[i] = <<p, m + i>>
    OBVIOUS
  <2> HIDE DEF batch
  <2>3. /\ Len(queue) \in Nat /\ DOMAIN queue = 1 .. Len(queue)
        /\ DOMAIN (queue \o batch) = 1 .. Len(queue) + Len(batch)
        /\ \A i \in 1 .. Len(queue) : (queue \o batch)[i] = queue[i] /\ queue[i] \in Item
        /\ \A i \in Len(queue) + 1 .. Len(queue) + Len(batch) :
             (queue \o batch)[i] = batch[i - Len(queue)] /\ i - Len(queue) \in 1 .. Len(batch)
    BY <2>1, Appended
  <2>4. /\ q \in Nat /\ DOMAIN queue = 1 .. q /\ DOMAIN queue' = 1 .. q + n
        /\ \A i \in 1 .. q : queue'[i] = queue[i] /\ queue[i] \in Item
        /\ \A i \in q + 1 .. q + n : queue'[i] = batch[i - q] /\ i - q \in 1 .. n
    BY <1>1, <2>1, <2>3
  <2> HIDE DEF q, m
  <2> QED BY <2>2, <2>4
<1>3. \A r \in Producers : sent'[r] \in Nat /\ sent[r] \in Nat /\ sent[r] <= sent'[r]
  BY <1>1 DEF TypeOK
<1> HIDE DEF m, q, batch
<1>4. \A i \in DOMAIN queue' : queue'[i][2] <= sent'[queue'[i][1]]
  <2> SUFFICES ASSUME NEW i \in 1 .. q + n
               PROVE  queue'[i][2] <= sent'[queue'[i][1]]
    BY <1>2
  <2>1. CASE i \in 1 .. q
    <3>1. queue[i][1] \in Producers /\ queue[i][2] \in Nat /\ queue[i][2] <= sent[queue[i][1]]
      BY <1>2, <2>1 DEF ItemInv, Item
    <3> QED BY <1>2, <1>3, <2>1, <3>1
  <2>2. CASE i \in q + 1 .. q + n
    <3>1. queue'[i][1] = p /\ queue'[i][2] = m + (i - q) /\ i - q \in 1 .. n
      BY <1>2, <2>2
    <3>2. m + (i - q) <= m + n
      BY <1>1, <3>1
    <3> QED BY <1>1, <3>1, <3>2
  <2> QED BY <1>2, <2>1, <2>2
<1>5. Ascends(queue)'
  <2> SUFFICES ASSUME NEW i \in 1 .. q + n, NEW j \in 1 .. q + n, i < j,
                      queue'[i][1] = queue'[j][1]
               PROVE  queue'[i][2] < queue'[j][2]
    BY <1>2 DEF Ascends
  <2>1. CASE j \in 1 .. q
    <3>1. i \in 1 .. q
      BY <2>1, <1>2
    <3> QED BY <1>2, <2>1, <3>1 DEF ItemInv, Ascends
  <2>2. CASE i \in q + 1 .. q + n
    <3>1. j \in q + 1 .. q + n
      BY <1>2, <2>2
    <3>2. queue'[i][2] = m + (i - q) /\ queue'[j][2] = m + (j - q)
      BY <1>2, <2>2, <3>1
    <3> QED BY <1>1, <1>2, <2>2, <3>1, <3>2
  <2>3. CASE i \in 1 .. q /\ j \in q + 1 .. q + n
    <3>1. queue'[i][2] <= m /\ queue'[i][2] \in Nat
      BY <1>2, <2>3 DEF ItemInv, Item, m
    <3>2. queue'[j][2] = m + (j - q) /\ j - q \in 1 .. n
      BY <1>2, <2>3
    <3>3. m \in Nat /\ j - q >= 1 /\ j - q \in Nat
      BY <1>1, <3>2
    <3> QED BY <3>1, <3>2, <3>3
  <2> QED BY <1>2, <2>1, <2>2, <2>3
<1>6. ASSUME NEW c \in Consumers
      PROVE  /\ Precede(Handed(c), queue)'
             /\ \A i \in DOMAIN Handed(c) : Handed(c)[i][2] <= sent'[Handed(c)[i][1]]
  <2>1. \A i \in DOMAIN Handed(c) :
          Handed(c)[i][1] \in Producers /\ Handed(c)[i][2] \in Nat
            /\ Handed(c)[i][2] <= sent[Handed(c)[i][1]]
    BY HandedTypes, LenProperties, ElementOfSeq DEF ItemInv, Item
  <2>2. \A i \in DOMAIN Handed(c) : Handed(c)[i][2] <= sent'[Handed(c)[i][1]]
    BY <1>3, <2>1
  <2>3. ASSUME NEW i \in DOMAIN Handed(c), NEW j \in 1 .. q + n,
               Handed(c)[i][1] = queue'[j][1]
        PROVE  Handed(c)[i][2] < queue'[j][2]
    <3>1. CASE j \in 1 .. q
      BY <1>2, <2>3, <3>1 DEF ItemInv, Precede
    <3>2. CASE j \in q + 1 .. q + n
      <4>1. Handed(c)[i][2] <= m /\ queue'[j][2] = m + (j - q)
        BY <1>2, <2>1, <2>3, <3>2 DEF m
      <4>2. m \in Nat /\ j - q \in 1 .. n
        BY <1>1, <1>2, <3>2
      <4>3. Handed(c)[i][2] \in Nat
        BY <2>1
      <4> QED BY <4>1, <4>2, <4>3
    <3> QED BY <1>2, <3>1, <3>2
  <2>4. Handed(c)' = Handed(c) /\ DOMAIN queue' = 1 .. q + n
    BY <1>1, <1>2
  <2>5. Precede(Handed(c), queue)'
    BY <2>3, <2>4 DEF Precede
  <2> QED BY <2>2, <2>5
<1>7. ASSUME NEW r \in Producers, NEW k \in 1 .. sent'[r]
      PROVE  Has(queue', <<r, k>>) \/ \E c \in Consumers : Has(Handed(c), <<r, k>>)
  <2>1. CASE k \in 1 .. sent[r]
    <3>1. Has(queue, <<r, k>>) => Has(queue', <<r, k>>)
      BY <1>2 DEF Has
    <3> QED BY <2>1, <3>1 DEF ItemInv
  <2>2. CASE ~(k \in 1 .. sent[r])
    <3>1. r = p /\ k \in m + 1 .. m + n
      BY <1>1, <1>3, <1>7, <2>2 DEF TypeOK, m
    <3>2. q + (k - m) \in q + 1 .. q + n
      BY <1>1, <1>2, <3>1
    <3>3. queue'[q + (k - m)] = <<p, k>>
      <4>1. m + ((q + (k - m)) - q) = k
        BY <1>1, <1>2, <3>1
      <4> QED BY <1>2, <3>2, <4>1
    <3> QED BY <1>2, <3>1, <3>2, <3>3 DEF Has
  <2> QED BY <2>1, <2>2
<1> QED BY <1>1, <1>4, <1>5, <1>6, <1>7 DEF ItemInv

\* The oldest item goes to a hand, after everything that is there already.
LEMMA TakeItems ==
  ASSUME TypeOK, InHand, TypeOK', InHand', ItemInv, NEW c \in Consumers, PopTake(c)
  PROVE  ItemInv'
<1> DEFINE q == Len(queue)
           h == Handed(c)
           m == Len(h)
           x == queue[1]
<1>1. /\ queue \in Seq(Item) /\ queue # <<>> /\ queue' = Tail(queue) /\ x = Head(queue)
      /\ item[c] = NoItem /\ item'[c] = x /\ UNCHANGED <<delivered, sent>>
      /\ \A d \in Consumers \ {c} : Handed(d)' = Handed(d)
  BY DEF PopTake, TypeOK, InHand, Handed
<1>2. /\ q \in Nat /\ q > 0 /\ DOMAIN queue = 1 .. q /\ DOMAIN queue' = 1 .. q - 1
      /\ \A i \in 1 .. q : queue[i] \in Item
      /\ \A i \in 1 .. q - 1 : queue'[i] = queue[i + 1] /\ i + 1 \in 1 .. q
  BY <1>1, HeadTailProperties, LenProperties, EmptySeq, ElementOfSeq
<1>3. x \in Item /\ x # NoItem
  BY <1>2, NoItemIsNone
<1>4. h \in Seq(Item) /\ Handed(c)' = Append(h, x)
  BY <1>1, <1>3, HandedTypes DEF Handed
<1>5. /\ m \in Nat /\ DOMAIN h = 1 .. m /\ DOMAIN Handed(c)' = 1 .. m + 1
      /\ \A i \in 1 .. m : Handed(c)'[i] = h[i] /\ h[i] \in Item
      /\ Handed(c)'[m + 1] = x
  <2> HIDE DEF h, x
  <2>1. /\ Append(h, x) \in Seq(Item) /\ Len(Append(h, x)) = m + 1 /\ m \in Nat
        /\ DOMAIN h = 1 .. m /\ \A i \in 1 .. m : Append(h, x)[i] = h[i] /\ h[i] \in Item
        /\ Append(h, x)[m + 1] = x
    BY <1>3, <1>4, AppendProperties, LenProperties, ElementOfSeq
  <2>2. DOMAIN Append(h, x) = 1 .. m + 1
    BY <2>1, LenProperties
  <2> QED BY <1>4, <2>1, <2>2
<1> HIDE DEF q, h, m, x
<1>6. Ascends(queue)' /\ \A i \in DOMAIN queue' : queue'[i][2] <= sent'[queue'[i][1]]
  BY <1>1, <1>2 DEF ItemInv, Ascends
<1>7. \A i \in 1 .. m : h[i][1] = x[1] => h[i][2] < x[2]
  BY <1>2, <1>5 DEF ItemInv, Precede, h, x
<1>8. \A i \in 1 .. q - 1 : queue'[i][1] = x[1] => x[2] < queue'[i][2]
  BY <1>2 DEF ItemInv, Ascends, x
<1>9. Ascends(Handed(c))'
  <2> SUFFICES ASSUME NEW i \in 1 .. m + 1, NEW j \in 1 .. m + 1, i < j,
                      Handed(c)'[i][1] = Handed(c)'[j][1]
               PROVE  Handed(c)'[i][2] < Handed(c)'[j][2]
    BY <1>5 DEF Ascends
  <2>1. i \in 1 .. m
    BY <1>5
  <2>2. CASE j \in 1 .. m
    BY <1>5, <2>1, <2>2 DEF ItemInv, Ascends, h
  <2>3. CASE j = m + 1
    BY <1>5, <1>7, <2>1, <2>3
  <2> QED BY <1>5, <2>2, <2>3
<1>10. ASSUME NEW d \in Consumers PROVE Precede(Handed(d), queue)'
  <2>1. CASE d = c
    <3> SUFFICES ASSUME NEW i \in 1 .. m + 1, NEW j \in 1 .. q - 1,
                        Handed(c)'[i][1] = queue'[j][1]
                 PROVE  Handed(c)'[i][2] < queue'[j][2]
      BY <1>2, <1>5, <2>1 DEF Precede
    <3>1. CASE i \in 1 .. m
      <4>1. Precede(h, queue)
        BY DEF ItemInv, h
      <4>2. h[i][1] = queue[j + 1][1] /\ j + 1 \in 1 .. q
        BY <1>2, <1>5, <3>1
      <4>3. h[i][2] < queue[j + 1][2]
        BY <1>2, <1>5, <3>1, <4>1, <4>2 DEF Precede
      <4> QED BY <1>2, <1>5, <3>1, <4>3
    <3>2. CASE i = m + 1
      BY <1>5, <1>8, <3>2
    <3> QED BY <1>5, <3>1, <3>2
  <2>2. CASE d # c
    BY <1>1, <1>2, <2>2 DEF ItemInv, Precede
  <2> QED BY <2>1, <2>2
<1>11. \A i \in 1 .. m + 1 : Handed(c)'[i][2] <= sent'[Handed(c)'[i][1]]
  <2>1. x[2] <= sent[x[1]]
    BY <1>2 DEF ItemInv, x
  <2>2. \A i \in 1 .. m : h[i][2] <= sent[h[i][1]]
    BY <1>5 DEF ItemInv, h
  <2>3. \A i \in 1 .. m + 1 : i \in 1 .. m \/ i = m + 1
    BY <1>5
  <2> QED BY <1>1, <1>5, <2>1, <2>2, <2>3
<1>12. \A y \in Item : Has(Handed(c)', y) <=> Has(h, y) \/ y = x
  <2>1. \A i \in 1 .. m + 1 : i \in 1 .. m \/ i = m + 1
    BY <1>5
  <2>2. m + 1 \in 1 .. m + 1 /\ \A i \in 1 .. m : i \in 1 .. m + 1
    BY <1>5
  <2> QED BY <1>5, <2>1, <2>2 DEF Has
<1>13. \A d \in Consumers : ~Has(Handed(d), x)
  <2> SUFFICES ASSUME NEW d \in Consumers, NEW i \in DOMAIN Handed(d), Handed(d)[i] = x
               PROVE  FALSE
    BY DEF Has
  <2>1. x[2] < x[2] /\ x[2] \in Nat
    BY <1>2, <1>3 DEF ItemInv, Precede, x, Item
  <2> QED BY <2>1
<1>14. ASSUME NEW d \in Consumers, NEW e \in Consumers, d # e, NEW y \in Item
       PROVE  ~(Has(Handed(d)', y) /\ Has(Handed(e)', y))
  <2>1. \A f \in Consumers : Has(Handed(f)', y) => Has(Handed(f), y) \/ (f = c /\ y = x)
    BY <1>1, <1>12 DEF h
  <2> QED BY <1>13, <1>14, <2>1 DEF ItemInv
<1>15. \A y \in Item : Has(queue, y) => Has(queue', y) \/ y = x
  <2> SUFFICES ASSUME NEW i \in 1 .. q PROVE Has(queue', queue[i]) \/ queue[i] = x
    BY <1>2 DEF Has
  <2>1. CASE i = 1
    BY <2>1 DEF x
  <2>2. CASE i # 1
    <3>1. i - 1 \in 1 .. q - 1 /\ (i - 1) + 1 = i
      BY <1>2, <2>2
    <3> QED BY <1>2, <3>1 DEF Has
  <2> QED BY <2>1, <2>2
<1>16. ASSUME NEW p \in Producers, NEW k \in 1 .. sent'[p]
       PROVE  Has(queue', <<p, k>>) \/ \E d \in Consumers : Has(Handed(d)', <<p, k>>)
  <2>1. <<p, k>> \in Item /\ k \in 1 .. sent[p]
    BY <1>1 DEF Item, TypeOK
  <2>2. Has(queue, <<p, k>>) \/ \E d \in Consumers : Has(Handed(d), <<p, k>>)
    BY <2>1 DEF ItemInv
  <2>3. \A d \in Consumers : Has(Handed(d), <<p, k>>) => Has(Handed(d)', <<p, k>>)
    BY <1>1, <1>12, <2>1 DEF h
  <2> QED BY <1>12, <1>15, <2>1, <2>2, <2>3
<1> QED
  <2>1. \A d \in Consumers : Ascends(Handed(d))'
    BY <1>1, <1>9 DEF ItemInv, Ascends
  <2>2. \A d \in Consumers : \A i \in DOMAIN Handed(d)' :
          Handed(d)'[i][2] <= sent'[Handed(d)'[i][1]]
    BY <1>1, <1>5, <1>11 DEF ItemInv
  <2> QED BY <1>6, <1>10, <1>14, <1>16, <2>1, <2>2 DEF ItemInv

\* The other steps move no item between the queue and the hands.
LEMMA OtherItems ==
  ASSUME TypeOK, InHand, ItemInv,
         \/ \E p \in Producers : PushThrow(p) \/ Close(p) \/ Notify(p)
         \/ \E c \in Consumers : PopWait(c) \/ PopEnd(c) \/ SpuriousWake(c) \/ RunFn(c)
         \/ UNCHANGED vars
  PROVE  ItemInv'
<1>1. UNCHANGED <<queue, sent>>
  BY DEF PushThrow, Close, Notify, NotifyOne, NotifyAll, PopWait, PopEnd, SpuriousWake,
         RunFn, vars
<1>2. ASSUME NEW c \in Consumers PROVE Handed(c)' = Handed(c)
  <2>1. CASE UNCHANGED <<item, delivered>>
    BY <2>1 DEF Handed
  <2>2. ASSUME NEW d \in Consumers, RunFn(d)
        PROVE  Handed(c)' = Handed(c)
    <3>1. item[d] \in Item /\ item[d] # NoItem
      BY <2>2, NoItemIsNone DEF RunFn, InHand
    <3> QED BY <2>2, <3>1 DEF RunFn, Handed, TypeOK
  <2> QED BY <2>1, <2>2 DEF PushThrow, Close, Notify, NotifyOne, NotifyAll, PopWait,
                            PopEnd, SpuriousWake, vars
<1> QED BY <1>1, <1>2 DEF ItemInv, Ascends, Precede

\* The invariant of the items holds.
LEMMA ItemsHold == Spec => []ItemInv
<1>1. Init => ItemInv
  <2> SUFFICES ASSUME Init PROVE ItemInv
    OBVIOUS
  <2>1. DOMAIN queue = {} /\ \A c \in Consumers : Handed(c) = <<>>
    BY DEF Init, Handed
  <2>2. \A p \in Producers : 1 .. sent[p] = {}
    BY DEF Init
  <2> QED BY <2>1, <2>2 DEF ItemInv, Ascends, Precede, Has
<1>2. TypeOK /\ InHand /\ (TypeOK /\ InHand)' /\ ItemInv /\ [Next]_vars => ItemInv'
  BY PushItems, TakeItems, OtherItems DEF Next, Push, PushBatch, Pop, Terminated
<1> QED BY <1>1, <1>2, Typing, PTL DEF Spec

\* Whatever consumers there are, what one gets from a producer is in order.
THEOREM OrderIsKept == Spec => []ProducerOrder
<1>1. ItemInv => ProducerOrder
  BY DEF ItemInv, Ascends, ProducerOrder
<1> QED BY <1>1, ItemsHold, PTL

\* Every item accepted is in one place.
THEOREM ItemsAreHeldOnce == Spec => []OncePerItem
<1>1. TypeOK /\ InHand /\ ItemInv => OncePerItem
  <2> SUFFICES ASSUME TypeOK, InHand, ItemInv, NEW p \in Producers, NEW k \in 1 .. sent[p]
               PROVE  Cardinality(IndicesIn(queue, <<p, k>>))
                        + Cardinality({c \in Consumers : IndicesIn(Handed(c), <<p, k>>) # {}}) = 1
    BY DEF OncePerItem
  <2> DEFINE x == <<p, k>>
             hands == {c \in Consumers : IndicesIn(Handed(c), x) # {}}
  <2>1. x \in Item /\ x[1] = p /\ x[2] = k /\ k \in Nat
    BY DEF Item, TypeOK
  <2> HIDE DEF x
  <2>2. \A c \in Consumers : c \in hands <=> Has(Handed(c), x)
    BY DEF IndicesIn, Has
  <2>3. Has(queue, x) \/ \E c \in Consumers : Has(Handed(c), x)
    BY DEF ItemInv, x
  <2>4. ~(Has(queue, x) /\ \E c \in Consumers : Has(Handed(c), x))
    BY <2>1 DEF ItemInv, Precede, Has
  <2>5. CASE Has(queue, x)
    <3>1. PICK i \in DOMAIN queue : queue[i] = x
      BY <2>5 DEF Has
    <3>2. \A j \in DOMAIN queue : queue[j] = x => j = i
      <4>1. DOMAIN queue \subseteq Nat
        BY LenProperties DEF TypeOK
      <4> QED BY <2>1, <3>1, <4>1 DEF ItemInv, Ascends
    <3>3. IndicesIn(queue, x) = {i} /\ hands = {}
      BY <2>2, <2>4, <2>5, <3>1, <3>2 DEF IndicesIn
    <3>4. Cardinality(IndicesIn(queue, x)) = 1 /\ Cardinality(hands) = 0
      <4> HIDE DEF hands
      <4> QED BY <3>3, FS_Singleton, FS_EmptySet
    <3> QED BY <3>4 DEF x
  <2>6. CASE \E c \in Consumers : Has(Handed(c), x)
    <3>1. PICK c \in Consumers : Has(Handed(c), x)
      BY <2>6
    <3>2. hands = {c}
      BY <2>1, <2>2, <3>1 DEF ItemInv
    <3>3. IndicesIn(queue, x) = {}
      BY <2>4, <2>6 DEF IndicesIn, Has
    <3>4. Cardinality(IndicesIn(queue, x)) = 0 /\ Cardinality(hands) = 1
      <4> HIDE DEF hands
      <4> QED BY <3>2, <3>3, FS_Singleton, FS_EmptySet
    <3> QED BY <3>4 DEF x
  <2> QED BY <2>3, <2>5, <2>6
<1> QED BY <1>1, ItemsHold, Typing, PTL
=============================================================================
