-------------------------- MODULE FlatMerger_proofs --------------------------
(***************************************************************************)
(* FlatMerger implements KWayMerge, and so sorts and loses nothing, for    *)
(* every number of files and all streams.  The argument is one invariant:  *)
(* outside the two loops' current file, every file either has its last     *)
(* popped event in the heap, and no other, or has ended.  What a merge by  *)
(* KWayMerge comes to is shown of the merger's own state (MergeStep).      *)
(***************************************************************************)
EXTENDS FlatMerger, FiniteSetTheorems, TLAPS

Next_event(i) == <<i, popped[i]>>
Held(i)  == Next_event(i) \in heap
Ended(i) == ~Held(i) /\ fedClosed[i] /\ popped[i] = fed[i]

\* The files whose next event is not known yet: in the first loop those from
\* cursor on, in the second the one just emitted.
Open == IF mpc = "prime" THEN cursor .. N
        ELSE IF mpc = "refill" THEN {cursor} ELSE {}

HeapInv ==
  /\ \A e \in heap : e = Next_event(e[1]) /\ e[2] > 0
  /\ \A i \in Files \ Open : Held(i) \/ Ended(i)
  /\ \A i \in Open : ~Held(i)
  /\ mpc = "prime" => \A i \in cursor .. N : popped[i] = 0
  /\ mpc \in {"prime", "refill"} => cursor \in Files
  /\ \A i \in Files : fedClosed[i] => fed[i] = Len(file[i])

\* A file is a sequence of numbers.
LEMMA FileTypes ==
  ASSUME file \in [Files -> Streams], NEW i \in Files
  PROVE  /\ file[i] \in Seq(Nat) /\ Len(file[i]) \in Nat
         /\ DOMAIN file[i] = 1 .. Len(file[i])
<1>1. file[i] \in Seq(Nat)
  BY FileAssumption
<1> QED BY <1>1

\* At first nothing is held, and every file is open.
LEMMA InitInv == Init => TypeOK /\ HeapInv
<1> SUFFICES ASSUME Init PROVE TypeOK /\ HeapInv
  OBVIOUS
<1>1. N \in Nat
  BY FileAssumption
<1>2. \A i \in Files : 0 <= Len(file[i])
  BY FileTypes DEF Init
<1>3. TypeOK
  <2>1. mpc \in {"prime", "merge", "refill", "done"} /\ cursor \in 1 .. N + 1
    BY <1>1 DEF Init, PrimeAt
  <2>2. out \in Seq(Files \X Nat) /\ heap \subseteq Files \X Nat
    BY DEF Init
  <2>3. \A i \in Files : popped[i] = 0 /\ fed[i] = 0
    BY DEF Init
  <2>4. /\ file \in [Files -> Streams] /\ fed \in [Files -> Nat]
        /\ fedClosed \in [Files -> BOOLEAN] /\ popped \in [Files -> Nat]
        /\ outClosed \in BOOLEAN
    BY DEF Init
  <2> QED BY <1>2, <2>1, <2>2, <2>3, <2>4 DEF TypeOK
<1>4. HeapInv
  BY <1>1 DEF Init, HeapInv, Files, PrimeAt, Open, Held, Next_event
<1> QED BY <1>3, <1>4
-----------------------------------------------------------------------------
\* A step that leaves the merger alone keeps the invariant if it only closes
\* files that are pushed to the end.
LEMMA FeederKeeps ==
  ASSUME TypeOK, HeapInv,
         UNCHANGED <<popped, heap, mpc, cursor, file>>,
         \A j \in Files : Ended(j) => Ended(j)',
         \A j \in Files : fedClosed'[j] => fed'[j] = Len(file[j])
  PROVE  HeapInv'
<1>1. /\ Open' = Open /\ \A j \in Files : Held(j)' <=> Held(j)
      /\ \A j : Next_event(j)' = Next_event(j)
  BY DEF Open, Held, Next_event
<1>2. \A i \in Files \ Open' : Held(i)' \/ Ended(i)'
  BY <1>1 DEF HeapInv
<1>3. \A i \in Open' : ~Held(i)'
  BY <1>1 DEF HeapInv, Held
<1> QED BY <1>1, <1>2, <1>3 DEF HeapInv

\* The feeders keep the invariant: what is pushed or closed can only end a file.
LEMMA FeederStep ==
  ASSUME TypeOK, HeapInv, NEW i \in Files, Feed(i) \/ CloseFile(i)
  PROVE  TypeOK' /\ HeapInv'
<1> USE DEF TypeOK
<1>1. /\ UNCHANGED <<file, popped, heap, mpc, cursor, out, outClosed>>
      /\ Open' = Open /\ \A j \in Files : Held(j)' = Held(j)
  BY DEF Feed, CloseFile, mergeVars, Open, Held, Next_event
<1>2. CASE Feed(i)
  <2>1. PICK k \in fed[i] + 1 .. Len(file[i]) : fed' = [fed EXCEPT ![i] = k]
    BY <1>2 DEF Feed
  <2>2. k \in Nat /\ fed[i] <= k /\ k <= Len(file[i]) /\ ~fedClosed[i] /\ fedClosed' = fedClosed
    BY <1>2, <2>1, FileTypes DEF Feed
  <2>3. TypeOK'
    BY <1>1, <2>1, <2>2
  <2>4. /\ \A j \in Files : Ended(j) => Ended(j)'
        /\ \A j \in Files : fedClosed'[j] => fed'[j] = Len(file[j])
    BY <1>1, <2>1, <2>2 DEF Ended, HeapInv
  <2>5. HeapInv'
    BY <1>1, <2>2, <2>4, FeederKeeps
  <2> QED BY <2>3, <2>5
<1>3. CASE CloseFile(i)
  <2>1. TypeOK'
    BY <1>1, <1>3 DEF CloseFile
  <2>2. HeapInv'
    <3>1. /\ \A j \in Files : Ended(j) => Ended(j)'
          /\ \A j \in Files : fedClosed'[j] => fed'[j] = Len(file[j])
      BY <1>1, <1>3 DEF CloseFile, Ended, HeapInv
    <3> QED BY <1>1, <3>1, FeederKeeps
  <2> QED BY <2>1, <2>2
<1> QED BY <1>2, <1>3
-----------------------------------------------------------------------------
\* After the pop, the file has its next event in the heap or has ended; the
\* others are as they were.
LEMMA PopEffect ==
  ASSUME TypeOK, HeapInv, NEW i \in Files, i \in Open, PopInto(i),
         UNCHANGED <<file, inVars, out, outClosed>>
  PROVE  /\ popped' \in [Files -> Nat] /\ heap' \subseteq Files \X Nat
         /\ \A j \in Files : popped'[j] <= fed'[j]
         /\ \A j \in Files \ {i} : popped'[j] = popped[j]
         /\ \A j \in Files \ {i} : Held(j)' = Held(j) /\ Ended(j)' = Ended(j)
         /\ Held(i)' \/ Ended(i)'
         /\ \A e \in heap' : e = Next_event(e[1])' /\ e[2] > 0
<1> USE DEF TypeOK
<1>1. /\ popped[i] \in Nat /\ fed' = fed /\ fedClosed' = fedClosed
      /\ ~Held(i)
  BY DEF inVars, HeapInv
<1>2. \A e \in heap : e[1] # i
  BY <1>1 DEF HeapInv, Held
<1>3. CASE popped[i] < fed[i]
  <2>1. /\ popped' = [popped EXCEPT ![i] = popped[i] + 1]
        /\ heap' = heap \union {<<i, popped[i] + 1>>}
    BY <1>1, <1>3 DEF PopInto
  <2>2. popped[i] + 1 <= fed[i] /\ popped[i] + 1 \in Nat
    BY <1>1, <1>3
  <2>3. popped'[i] = popped[i] + 1 /\ \A j \in Files \ {i} : popped'[j] = popped[j]
    BY <2>1
  <2>4. popped' \in [Files -> Nat] /\ heap' \subseteq Files \X Nat
    BY <2>1, <2>2
  <2>5. \A j \in Files : popped'[j] <= fed'[j]
    BY <1>1, <2>2, <2>3
  <2>6. \A j \in Files \ {i} : Held(j)' = Held(j) /\ Ended(j)' = Ended(j)
    BY <1>1, <2>1, <2>3 DEF Held, Ended, Next_event
  <2>7. Held(i)'
    BY <2>1, <2>3 DEF Held, Next_event
  <2>8. \A e \in heap' : e = Next_event(e[1])' /\ e[2] > 0
    <3> SUFFICES ASSUME NEW e \in heap' PROVE e = Next_event(e[1])' /\ e[2] > 0
      OBVIOUS
    <3>1. CASE e \in heap
      BY <1>2, <2>3, <3>1 DEF HeapInv, Next_event
    <3>2. CASE e = <<i, popped[i] + 1>>
      BY <1>1, <2>3, <3>2 DEF Next_event
    <3> QED BY <2>1, <3>1, <3>2
  <2> QED BY <2>3, <2>4, <2>5, <2>6, <2>7, <2>8
<1>4. CASE popped[i] = fed[i] /\ fedClosed[i] /\ UNCHANGED <<popped, heap>>
  BY <1>1, <1>4 DEF HeapInv, Held, Ended, Next_event
<1> QED BY <1>3, <1>4 DEF PopInto

\* The first loop settles the files one by one.
LEMMA PrimeStep ==
  ASSUME TypeOK, HeapInv, Prime
  PROVE  TypeOK' /\ HeapInv'
<1> USE DEF TypeOK
<1>1. /\ N \in Nat /\ cursor \in Files /\ cursor \in Open /\ cursor' = cursor + 1
      /\ mpc = "prime" /\ mpc' = PrimeAt(cursor + 1) /\ PopInto(cursor)
      /\ UNCHANGED <<file, inVars, out, outClosed>>
      /\ UNCHANGED <<fed, fedClosed>>
  BY FileAssumption DEF Prime, HeapInv, Open, Files, inVars
<1>2. Open = cursor .. N /\ Open' = cursor + 1 .. N
  BY <1>1 DEF Open, PrimeAt, Files
<1>3. TypeOK'
  <2>1. mpc' \in {"prime", "merge", "refill", "done"} /\ cursor' \in 1 .. N + 1
    BY <1>1 DEF PrimeAt, Files
  <2> QED BY <1>1, <2>1, PopEffect
<1>4. HeapInv'
  <2>1. \A j \in Files \ Open' : j \in Files \ Open \/ j = cursor
    BY <1>1, <1>2 DEF Files
  <2>2. \A j \in Files \ Open' : Held(j)' \/ Ended(j)'
    BY <1>1, <2>1, PopEffect DEF HeapInv
  <2>3. \A j \in Open' : ~Held(j)' /\ popped'[j] = 0
    <3>1. \A j \in Open' : j \in Files \ {cursor} /\ j \in Open
      BY <1>1, <1>2 DEF Files
    <3> QED BY <1>1, <1>2, <3>1, PopEffect DEF HeapInv
  <2>4. mpc' \in {"prime", "refill"} => cursor' \in Files
    BY <1>1 DEF PrimeAt, Files
  <2> QED BY <1>1, <1>2, <2>2, <2>3, <2>4, PopEffect DEF HeapInv, Next_event
<1> QED BY <1>3, <1>4

\* After the second pop every file is settled again.
LEMMA RefillStep ==
  ASSUME TypeOK, HeapInv, Refill
  PROVE  TypeOK' /\ HeapInv'
<1> USE DEF TypeOK
<1>1. /\ cursor \in Files /\ cursor \in Open /\ Open = {cursor} /\ Open' = {}
      /\ PopInto(cursor) /\ mpc' = "merge"
      /\ UNCHANGED <<file, inVars, cursor, out, outClosed>>
      /\ UNCHANGED <<fed, fedClosed>>
  BY DEF Refill, HeapInv, Open, inVars
<1>2. TypeOK'
  BY <1>1, PopEffect
<1>3. HeapInv'
  BY <1>1, PopEffect DEF HeapInv, Next_event
<1> QED BY <1>2, <1>3

\* Emitting an event leaves its file, and no other, open.
LEMMA EmitStep ==
  ASSUME TypeOK, HeapInv, Emit
  PROVE  TypeOK' /\ HeapInv'
<1> USE DEF TypeOK
<1>1. PICK top \in Least(heap) : /\ heap' = heap \ {top} /\ out' = Append(out, top)
                                 /\ cursor' = top[1]
  BY DEF Emit
<1>2. /\ top \in heap /\ top[1] \in Files /\ top = Next_event(top[1])
      /\ mpc = "merge" /\ mpc' = "refill"
      /\ UNCHANGED <<file, fed, fedClosed, popped, outClosed>>
  BY <1>1 DEF Least, HeapInv, Emit, inVars
<1>3. TypeOK'
  <2>1. top \in Files \X Nat /\ cursor' \in 1 .. N + 1
    BY <1>1, <1>2, FileAssumption DEF Files
  <2> QED BY <1>1, <1>2, <2>1
<1>4. HeapInv'
  <2>1. Open = {} /\ Open' = {top[1]}
    BY <1>1, <1>2 DEF Open
  <2>2. \A j \in Files \ {top[1]} : Held(j)' = Held(j) /\ Ended(j)' = Ended(j)
    BY <1>1, <1>2 DEF Held, Ended, Next_event
  <2>3. ~Held(top[1])'
    BY <1>1, <1>2 DEF Held, Next_event
  <2> QED BY <1>1, <1>2, <2>1, <2>2, <2>3 DEF HeapInv, Next_event
<1> QED BY <1>3, <1>4

\* Closing the output moves nothing.
LEMMA CloseStep ==
  ASSUME TypeOK, HeapInv, CloseOutput
  PROVE  TypeOK' /\ HeapInv'
BY DEF CloseOutput, inVars, TypeOK, HeapInv, Open, Held, Ended, Next_event

\* Every step keeps the invariant.
LEMMA StepInv == TypeOK /\ HeapInv /\ [Next]_vars => TypeOK' /\ HeapInv'
<1> SUFFICES ASSUME TypeOK, HeapInv, [Next]_vars PROVE TypeOK' /\ HeapInv'
  OBVIOUS
<1>1. CASE UNCHANGED vars
  BY <1>1 DEF vars, inVars, mergeVars, TypeOK, HeapInv, Open, Held, Ended, Next_event
<1> QED BY <1>1, PrimeStep, RefillStep, EmitStep, CloseStep, FeederStep
       DEF Next, Merger, Terminated

\* The types and the invariant hold for every number of files.
THEOREM Typing == Spec => [](TypeOK /\ HeapInv)
BY InitInv, StepInv, PTL DEF Spec
-----------------------------------------------------------------------------
\* What the heap holds of a file.
LEMMA Mine ==
  ASSUME TypeOK, HeapInv, NEW i \in Files
  PROVE  {e \in heap : e[1] = i} = IF Held(i) THEN {Next_event(i)} ELSE {}
BY DEF TypeOK, HeapInv, Held, Next_event

\* Whenever an event may be emitted, the heap holds the next event of every
\* file that has not ended.
THEOREM HeapIsComplete == Spec => []HeapHasEveryFile
<1>1. TypeOK /\ HeapInv => HeapHasEveryFile
  <2> SUFFICES ASSUME TypeOK, HeapInv, mpc = "merge", NEW i \in Files
               PROVE  LET mine == {e \in heap : e[1] = i}
                      IN  \/ mine = {<<i, popped[i]>>}
                          \/ mine = {} /\ fedClosed[i] /\ popped[i] = fed[i]
    BY DEF HeapHasEveryFile
  <2>1. Held(i) \/ Ended(i)
    BY DEF HeapInv, Open
  <2> QED BY <2>1, Mine DEF Ended, Next_event
<1> QED BY <1>1, Typing, PTL

\* The events of a file emitted are all that were popped but the one in the heap.
EmittedAsHeld ==
  \A i \in Files : /\ Held(i) => Emitted(i) = popped[i] - 1
                   /\ ~Held(i) => Emitted(i) = popped[i]
                   /\ Emitted(i) \in Nat

\* The invariant fixes what is counted as emitted.
LEMMA EmittedIs == TypeOK /\ HeapInv => EmittedAsHeld
<1> SUFFICES ASSUME TypeOK, HeapInv, NEW i \in Files
             PROVE  /\ Held(i) => Emitted(i) = popped[i] - 1
                    /\ ~Held(i) => Emitted(i) = popped[i]
                    /\ Emitted(i) \in Nat
  BY DEF EmittedAsHeld
<1>1. Cardinality({e \in heap : e[1] = i}) = IF Held(i) THEN 1 ELSE 0
  BY Mine, FS_Singleton, FS_EmptySet
<1>2. popped[i] \in Nat /\ (Held(i) => popped[i] > 0)
  BY DEF TypeOK, HeapInv, Held, Next_event
<1> QED BY <1>1, <1>2 DEF Emitted

EmittedAll == [i \in Files |-> Emitted(i)]

\* The step that emits an event emits a least one ...
LEMMA EmitImplements ==
  ASSUME TypeOK, HeapInv, TypeOK', HeapInv', Emit
  PROVE  \E i \in 1 .. N : Abstract!Emit(i)
<1>0. EmittedAsHeld /\ EmittedAsHeld'
  BY EmittedIs, PTL
<1>1. PICK top \in Least(heap) : /\ heap' = heap \ {top} /\ out' = Append(out, top)
                                 /\ cursor' = top[1]
  BY DEF Emit
<1> DEFINE i == top[1]
<1>2. /\ top \in heap /\ i \in Files /\ top = Next_event(i) /\ Held(i) /\ ~Held(i)'
      /\ mpc = "merge" /\ UNCHANGED <<file, fed, fedClosed, popped, outClosed>>
  BY <1>1 DEF Least, TypeOK, HeapInv, Emit, inVars, Held, Next_event
<1>3. /\ popped[i] \in Nat /\ popped[i] > 0 /\ popped[i] <= Len(file[i])
      /\ Len(file[i]) \in Nat /\ fed[i] \in Nat
  BY <1>2, FileTypes DEF TypeOK, HeapInv, Next_event
<1>4. Emitted(i) = popped[i] - 1 /\ Emitted(i)' = popped[i]
  <2>1. ~Held(i)' => Emitted(i)' = popped'[i]
    BY <1>0, <1>2 DEF EmittedAsHeld
  <2> QED BY <1>0, <1>2, <2>1 DEF EmittedAsHeld
<1>5. \A j \in Files \ {i} : Emitted(j)' = Emitted(j)
  BY <1>1, <1>2 DEF Emitted
<1>6. EmittedAll' = [EmittedAll EXCEPT ![i] = @ + 1]
  BY <1>2, <1>3, <1>4, <1>5 DEF EmittedAll
<1>7. ASSUME NEW j \in Files, Emitted(j) < Len(file[j])
      PROVE  file[i][Emitted(i) + 1] <= file[j][Emitted(j) + 1]
  <2>1. Held(j) \/ Ended(j)
    BY <1>2 DEF HeapInv, Open
  <2>2. CASE Held(j)
    <3>1. Emitted(j) + 1 = popped[j] /\ Emitted(i) + 1 = popped[i]
      <4>1. popped[j] \in Nat /\ Emitted(j) = popped[j] - 1
        BY <1>0, <2>2 DEF EmittedAsHeld, TypeOK
      <4> QED BY <1>3, <1>4, <4>1
    <3>2. Ts(top) <= Ts(Next_event(j))
      BY <1>1, <2>2 DEF Least, Held
    <3> QED BY <1>2, <3>1, <3>2 DEF Ts, Next_event
  <2>3. CASE Ended(j)
    BY <1>0, <1>7, <2>3 DEF EmittedAsHeld, Ended, HeapInv, TypeOK
  <2> QED BY <2>1, <2>2, <2>3
<1>8. Abstract!Emit(i)
  BY <1>1, <1>2, <1>3, <1>4, <1>6, <1>7
     DEF Abstract!Emit, Abstract!HasNext, Abstract!Next_ts, EmittedAll, Files, Next_event
<1> QED BY <1>2, <1>8 DEF Files

\* ... the output is closed when nothing is left ...
LEMMA CloseImplements ==
  ASSUME TypeOK, HeapInv, CloseOutput
  PROVE  Abstract!End
<1>0. EmittedAsHeld
  BY EmittedIs
<1>1. ASSUME NEW i \in Files PROVE ~(Emitted(i) < Len(file[i]))
  <2>1. Ended(i)
    BY DEF CloseOutput, HeapInv, Open, Held
  <2> QED BY <1>0, <2>1, FileTypes DEF EmittedAsHeld, Ended, HeapInv, TypeOK
<1>2. UNCHANGED <<file, popped, heap, out>> /\ outClosed' = TRUE
  BY DEF CloseOutput
<1>3. EmittedAll' = EmittedAll
  BY <1>2 DEF EmittedAll, Emitted
<1> QED BY <1>1, <1>2, <1>3 DEF Abstract!End, Abstract!HasNext, EmittedAll, Files

\* ... and every other step leaves what is visible as it was.
LEMMA OtherStutters ==
  ASSUME TypeOK, HeapInv, TypeOK', HeapInv',
         \/ Prime \/ Refill \/ UNCHANGED vars
         \/ \E i \in Files : Feed(i) \/ CloseFile(i)
  PROVE  UNCHANGED Abstract!vars
<1>0. EmittedAsHeld /\ EmittedAsHeld'
  BY EmittedIs, PTL
<1> SUFFICES EmittedAll' = EmittedAll
  BY DEF Abstract!vars, EmittedAll, Prime, Refill, Feed, CloseFile, vars, mergeVars
<1>1. CASE UNCHANGED <<popped, heap>>
  BY <1>1 DEF EmittedAll, Emitted
<1>2. CASE Prime \/ Refill
  <2>1. /\ cursor \in Files /\ cursor \in Open /\ PopInto(cursor)
        /\ UNCHANGED <<file, inVars, out, outClosed>>
    BY <1>2, FileAssumption DEF Prime, Refill, HeapInv, Open, Files
  <2>2. ASSUME NEW j \in Files PROVE Emitted(j)' = Emitted(j)
    <3>1. /\ Held(j)' => Emitted(j)' = popped'[j] - 1
          /\ ~Held(j)' => Emitted(j)' = popped'[j]
      BY <1>0 DEF EmittedAsHeld
    <3>2. CASE j # cursor
      BY <1>0, <2>1, <3>1, <3>2, PopEffect DEF EmittedAsHeld
    <3>3. CASE j = cursor
      <4>1. ~Held(j) /\ popped[j] \in Nat
        BY <2>1, <3>3 DEF HeapInv, TypeOK
      <4>2. CASE UNCHANGED <<popped, heap>>
        BY <4>2 DEF Emitted
      <4>3. CASE popped' = [popped EXCEPT ![j] = @ + 1]
                 /\ heap' = heap \union {<<j, popped[j] + 1>>}
        <5>1. Held(j)' /\ popped'[j] = popped[j] + 1
          BY <4>3 DEF Held, Next_event, TypeOK
        <5>2. Emitted(j) = popped[j]
          BY <1>0, <4>1 DEF EmittedAsHeld
        <5> QED BY <3>1, <4>1, <5>1, <5>2
      <4> QED BY <2>1, <3>3, <4>2, <4>3 DEF PopInto
    <3> QED BY <3>2, <3>3
  <2> QED BY <2>2 DEF EmittedAll
<1> QED BY <1>1, <1>2 DEF Feed, CloseFile, mergeVars, vars

\* Every step of the merger is a step of KWayMerge or none.
LEMMA StepImplements ==
  TypeOK /\ HeapInv /\ TypeOK' /\ HeapInv' /\ [Next]_vars
    => [Abstract!Next]_(Abstract!vars)
BY EmitImplements, CloseImplements, OtherStutters
   DEF Next, Merger, Terminated, Abstract!Next

\* The merger implements KWayMerge.
THEOREM IsMerge == Spec => ImplementsKWayMerge
<1>1. Init => Abstract!Init
  <2> SUFFICES ASSUME Init PROVE Abstract!Init
    OBVIOUS
  <2>1. ASSUME NEW i \in Files PROVE Emitted(i) = 0
    <3>1. {e \in heap : e[1] = i} = {} /\ popped[i] = 0
      BY <2>1 DEF Init
    <3> QED BY <3>1, FS_EmptySet DEF Emitted
  <2> QED BY <2>1 DEF Init, Abstract!Init, Files
<1> QED BY <1>1, StepImplements, Typing, PTL DEF Spec, Abstract!Spec, ImplementsKWayMerge

-----------------------------------------------------------------------------
(* What a merge by KWayMerge comes to: the output is sorted, and whole. *)

HasNext(i) == EmittedAll[i] < Len(file[i])
Next_ts(i) == file[i][EmittedAll[i] + 1]

\* The steps of KWayMerge, of the merger's own state.
MergeEmit(i) ==
  /\ HasNext(i)
  /\ \A j \in Files : HasNext(j) => Next_ts(i) <= Next_ts(j)
  /\ out' = Append(out, <<i, EmittedAll[i] + 1>>)
  /\ EmittedAll' = [EmittedAll EXCEPT ![i] = @ + 1]
  /\ UNCHANGED <<file, outClosed>>
MergeEnd ==
  /\ \A i \in Files : ~HasNext(i)
  /\ outClosed' /\ UNCHANGED <<file, EmittedAll, out>>
MergeStep == \/ \E i \in Files : MergeEmit(i)
             \/ MergeEnd
             \/ UNCHANGED <<file, EmittedAll, out, outClosed>>

\* Every step of the merger is one of them.
LEMMA StepMerges ==
  TypeOK /\ HeapInv /\ TypeOK' /\ HeapInv' /\ [Next]_vars => MergeStep
<1> SUFFICES ASSUME [Abstract!Next]_(Abstract!vars) PROVE MergeStep
  BY StepImplements
<1>1. ASSUME NEW i \in 1 .. N, Abstract!Emit(i) PROVE MergeEmit(i)
  BY <1>1 DEF Abstract!Emit, Abstract!HasNext, Abstract!Next_ts, MergeEmit, HasNext, Next_ts,
              EmittedAll, Files
<1>2. ASSUME Abstract!End PROVE MergeEnd
  BY <1>2 DEF Abstract!End, Abstract!HasNext, MergeEnd, HasNext, EmittedAll, Files
<1>3. ASSUME UNCHANGED Abstract!vars
      PROVE  UNCHANGED <<file, EmittedAll, out, outClosed>>
  BY <1>3 DEF Abstract!vars, EmittedAll
<1> QED BY <1>1, <1>2, <1>3 DEF Abstract!Next, MergeStep, Files

\* The types of what is merged; no file is emitted beyond its end.
MergeTypes ==
  /\ file \in [Files -> Streams] /\ out \in Seq(Files \X Nat)
  /\ EmittedAll \in [Files -> Nat]
  /\ \A i \in Files : EmittedAll[i] <= Len(file[i])

LEMMA TypesOfMerge == TypeOK /\ HeapInv => MergeTypes
<1> SUFFICES ASSUME TypeOK, HeapInv PROVE MergeTypes
  OBVIOUS
<1>1. ASSUME NEW i \in Files PROVE EmittedAll[i] \in Nat /\ EmittedAll[i] <= Len(file[i])
  <2>1. /\ popped[i] \in Nat /\ fed[i] \in Nat /\ Len(file[i]) \in Nat
        /\ popped[i] <= fed[i] /\ fed[i] <= Len(file[i])
    BY FileTypes DEF TypeOK
  <2>2. Emitted(i) \in Nat /\ (Emitted(i) = popped[i] - 1 \/ Emitted(i) = popped[i])
    BY EmittedIs DEF EmittedAsHeld
  <2> QED BY <2>1, <2>2 DEF EmittedAll
<1>2. EmittedAll \in [Files -> Nat]
  BY <1>1 DEF EmittedAll
<1> QED BY <1>1, <1>2 DEF MergeTypes, TypeOK

Sorted == \A i \in Files : Abstract!Ascending(file[i])

\* What was emitted came from the files and is no later than any event still to
\* come.
MergeInv ==
  /\ \A k \in DOMAIN out : out[k][2] \in 1 .. EmittedAll[out[k][1]]
  /\ Sorted => \A k \in DOMAIN out : \A i \in Files :
                 HasNext(i) => Ts(out[k]) <= Next_ts(i)
  /\ Sorted => \A j, k \in DOMAIN out : j < k => Ts(out[j]) <= Ts(out[k])

\* Receive times are natural numbers, so that they can be compared.
LEMMA TimesAreNumbers ==
  ASSUME MergeTypes, NEW i \in Files, NEW k \in 1 .. Len(file[i])
  PROVE  file[i][k] \in Nat
BY FileTypes DEF MergeTypes

\* Emitting a least event keeps the output sorted and before all that follows.
LEMMA EmitMergeInv ==
  ASSUME MergeTypes, MergeInv, NEW i \in Files, MergeEmit(i)
  PROVE  MergeInv'
<1> DEFINE new == <<i, EmittedAll[i] + 1>>
           n == Len(out) + 1
<1>1. /\ out \in Seq(Files \X Nat) /\ EmittedAll \in [Files -> Nat]
      /\ out' = Append(out, new) /\ file' = file
      /\ EmittedAll' = [EmittedAll EXCEPT ![i] = @ + 1]
      /\ HasNext(i)
  BY DEF MergeTypes, MergeEmit
<1>2. /\ DOMAIN out' = 1 .. n /\ out'[n] = new /\ DOMAIN out = 1 .. n - 1
      /\ n \in Nat
      /\ \A k \in 1 .. n - 1 : out'[k] = out[k] /\ out[k] \in Files \X Nat
  BY <1>1
<1>3. \A k \in DOMAIN out : /\ out[k][1] \in Files
                           /\ out[k][2] \in 1 .. EmittedAll[out[k][1]]
                           /\ Ts(out[k]) \in Nat
  <2> SUFFICES ASSUME NEW k \in DOMAIN out
               PROVE  /\ out[k][1] \in Files
                      /\ out[k][2] \in 1 .. EmittedAll[out[k][1]]
                      /\ Ts(out[k]) \in Nat
    OBVIOUS
  <2>1. out[k][1] \in Files /\ out[k][2] \in 1 .. EmittedAll[out[k][1]]
    BY <1>2 DEF MergeInv
  <2>2. EmittedAll[out[k][1]] <= Len(file[out[k][1]])
    BY <2>1 DEF MergeTypes
  <2>3. Len(file[out[k][1]]) \in Nat /\ EmittedAll[out[k][1]] \in Nat
    BY <1>1, <2>1, FileTypes DEF MergeTypes
  <2>4. out[k][2] \in 1 .. Len(file[out[k][1]])
    BY <2>1, <2>2, <2>3
  <2> QED BY <2>1, <2>4, TimesAreNumbers DEF Ts
<1>4. \A k \in DOMAIN out' : out'[k][2] \in 1 .. EmittedAll'[out'[k][1]]
  <2>1. new[1] = i /\ new[2] = EmittedAll[i] + 1 /\ EmittedAll'[i] = EmittedAll[i] + 1
        /\ EmittedAll[i] \in Nat
    BY <1>1
  <2>2. \A j \in Files : EmittedAll[j] \in Nat /\ EmittedAll'[j] \in Nat
                                           /\ EmittedAll[j] <= EmittedAll'[j]
    <3> TAKE j \in Files
    <3>1. /\ EmittedAll[j] \in Nat
          /\ EmittedAll'[j] = IF j = i THEN EmittedAll[j] + 1 ELSE EmittedAll[j]
      BY <1>1
    <3> QED BY <3>1
  <2>3. ASSUME NEW k \in 1 .. n - 1
        PROVE  out'[k][2] \in 1 .. EmittedAll'[out'[k][1]]
    <3>1. out'[k] = out[k] /\ k \in DOMAIN out
      BY <1>2, <2>3
    <3>2. out[k][1] \in Files /\ out[k][2] \in 1 .. EmittedAll[out[k][1]]
      BY <1>3, <3>1
    <3>3. /\ EmittedAll[out[k][1]] \in Nat /\ EmittedAll'[out[k][1]] \in Nat
          /\ EmittedAll[out[k][1]] <= EmittedAll'[out[k][1]]
      BY <2>2, <3>2
    <3>4. out[k][2] \in 1 .. EmittedAll'[out[k][1]]
      BY <3>2, <3>3
    <3> QED BY <3>1, <3>4
  <2> QED BY <1>2, <2>1, <2>3
<1>5. ASSUME Sorted, NEW j \in Files, HasNext(j)'
      PROVE  /\ HasNext(j) /\ Next_ts(j) \in Nat /\ Next_ts(j)' \in Nat
             /\ Next_ts(j) <= Next_ts(j)'
  <2>1. /\ Len(file[j]) \in Nat /\ DOMAIN file[j] = 1 .. Len(file[j])
        /\ EmittedAll[j] \in Nat
    BY <1>1, FileTypes DEF MergeTypes
  <2>2. /\ EmittedAll'[j] = EmittedAll[j] \/ EmittedAll'[j] = EmittedAll[j] + 1
        /\ EmittedAll'[j] < Len(file[j])
    BY <1>1, <1>5 DEF HasNext
  <2>3. EmittedAll[j] + 1 \in 1 .. Len(file[j]) /\ EmittedAll'[j] + 1 \in 1 .. Len(file[j])
        /\ HasNext(j)
    BY <2>1, <2>2 DEF HasNext
  <2>4. file[j][EmittedAll[j] + 1] \in Nat /\ file[j][EmittedAll'[j] + 1] \in Nat
    BY <2>3, TimesAreNumbers
  <2>5. file[j][EmittedAll[j] + 1] <= file[j][EmittedAll'[j] + 1]
    BY <1>5, <2>1, <2>2, <2>3, <2>4 DEF Sorted, Abstract!Ascending
  <2> QED BY <1>1, <2>3, <2>4, <2>5 DEF Next_ts
<1>6. Ts(new) = Next_ts(i)
  BY DEF Ts, Next_ts
<1>7. ASSUME NEW k \in DOMAIN out' PROVE Ts(out[k])' = Ts(out'[k])
  BY <1>1 DEF Ts
<1>8. ASSUME Sorted, NEW k \in DOMAIN out', NEW j \in Files, HasNext(j)'
      PROVE  Ts(out'[k]) <= Next_ts(j)'
  <2>1. HasNext(j) /\ Next_ts(j) \in Nat /\ Next_ts(j)' \in Nat
                  /\ Next_ts(j) <= Next_ts(j)'
    BY <1>5, <1>8
  <2>2. CASE k = n
    <3>1. Next_ts(i) <= Next_ts(j) /\ Next_ts(i) \in Nat
      <4>1. Len(file[i]) \in Nat /\ EmittedAll[i] \in Nat
        BY <1>1, FileTypes DEF MergeTypes
      <4>2. EmittedAll[i] + 1 \in 1 .. Len(file[i])
        BY <1>1, <4>1 DEF HasNext
      <4> QED BY <2>1, <4>2, TimesAreNumbers DEF MergeEmit, Next_ts
    <3> QED BY <1>2, <1>6, <2>1, <2>2, <3>1
  <2>3. CASE k \in 1 .. n - 1
    <3>1. Ts(out[k]) <= Next_ts(j) /\ Ts(out[k]) \in Nat
      BY <1>2, <1>3, <1>8, <2>1, <2>3 DEF MergeInv, Sorted
    <3> QED BY <1>2, <2>1, <2>3, <3>1
  <2> QED BY <1>2, <2>2, <2>3
<1>9. ASSUME Sorted, NEW j \in DOMAIN out', NEW k \in DOMAIN out', j < k
      PROVE  Ts(out'[j]) <= Ts(out'[k])
  <2>1. j \in 1 .. n - 1 /\ out'[j] = out[j]
    BY <1>2, <1>9
  <2>2. CASE k = n
    <3>1. Ts(out[j]) <= Next_ts(i)
      BY <1>1, <1>2, <1>9, <2>1 DEF MergeInv, Sorted
    <3> QED BY <1>2, <1>6, <2>1, <2>2, <3>1
  <2>3. CASE k \in 1 .. n - 1
    <3>1. Ts(out[j]) <= Ts(out[k])
      BY <1>2, <1>9, <2>1, <2>3 DEF MergeInv, Sorted
    <3> QED BY <1>2, <2>1, <2>3, <3>1
  <2> QED BY <1>2, <2>2, <2>3
<1>10. Sorted' <=> Sorted
  BY <1>1 DEF Sorted, Abstract!Ascending
<1> QED BY <1>4, <1>7, <1>8, <1>9, <1>10 DEF MergeInv, Sorted

-----------------------------------------------------------------------------
\* Where the events of file i are in the output.
Places(i) == {k \in DOMAIN out : out[k][1] = i}

\* They are as many as were emitted; the output ends when no file has more.
CountInv ==
  /\ \A i \in Files : IsFiniteSet(Places(i)) /\ Cardinality(Places(i)) = EmittedAll[i]
  /\ outClosed => \A i \in Files : ~HasNext(i)

\* An emitted event has a place of its own.
LEMMA EmitCountInv ==
  ASSUME MergeTypes, CountInv, NEW i \in Files, MergeEmit(i)
  PROVE  CountInv'
<1> DEFINE n == Len(out) + 1
<1>1. /\ out \in Seq(Files \X Nat) /\ EmittedAll \in [Files -> Nat]
      /\ out' = Append(out, <<i, EmittedAll[i] + 1>>) /\ ~outClosed /\ outClosed' = outClosed
      /\ EmittedAll' = [EmittedAll EXCEPT ![i] = @ + 1]
  BY DEF MergeTypes, MergeEmit, CountInv
<1>2. /\ DOMAIN out' = DOMAIN out \union {n} /\ n \notin DOMAIN out /\ out'[n][1] = i
      /\ \A k \in DOMAIN out : out'[k] = out[k]
  BY <1>1
<1> HIDE DEF n
<1>3. ASSUME NEW j \in Files
      PROVE  IsFiniteSet(Places(j)') /\ Cardinality(Places(j)') = EmittedAll'[j]
  <2>1. Places(j)' = IF j = i THEN Places(j) \union {n} ELSE Places(j)
    BY <1>2 DEF Places
  <2>2. n \notin Places(j) /\ IsFiniteSet(Places(j)) /\ Cardinality(Places(j)) = EmittedAll[j]
    BY <1>2 DEF Places, CountInv
  <2>3. EmittedAll'[j] = IF j = i THEN EmittedAll[j] + 1 ELSE EmittedAll[j]
    BY <1>1
  <2> QED BY <2>1, <2>2, <2>3, FS_AddElement
<1> QED BY <1>1, <1>3 DEF CountInv

\* The end and the steps that are not seen keep both.
LEMMA QuietSteps ==
  ASSUME MergeTypes, MergeEnd \/ UNCHANGED <<file, EmittedAll, out, outClosed>>
  PROVE  (MergeInv => MergeInv') /\ (CountInv => CountInv')
<1>1. UNCHANGED <<file, EmittedAll, out>>
  BY DEF MergeEnd
<1>2. outClosed' => outClosed \/ \A i \in Files : ~HasNext(i)
  BY DEF MergeEnd
<1>3. /\ \A i : (HasNext(i)' <=> HasNext(i)) /\ Next_ts(i)' = Next_ts(i)
                  /\ Places(i)' = Places(i)
      /\ \A k : Ts(out[k])' = Ts(out[k])
      /\ Sorted' <=> Sorted
  BY <1>1 DEF HasNext, Next_ts, Places, Ts, Sorted, Abstract!Ascending
<1>4. MergeInv => MergeInv'
  BY <1>1, <1>3 DEF MergeInv
<1>5. CountInv => CountInv'
  BY <1>1, <1>2, <1>3 DEF CountInv
<1> QED BY <1>4, <1>5

\* Both hold of every state.
LEMMA MergeHolds == Spec => [](MergeTypes /\ MergeInv /\ CountInv)
<1>1. TypeOK /\ HeapInv /\ Init => MergeInv /\ CountInv
  <2> SUFFICES ASSUME TypeOK, HeapInv, Init PROVE MergeInv /\ CountInv
    OBVIOUS
  <2>1. DOMAIN out = {} /\ ~outClosed
    BY DEF Init
  <2>2. ASSUME NEW i \in Files PROVE EmittedAll[i] = 0 /\ Places(i) = {}
    <3>1. popped[i] = 0 /\ ~Held(i)
      BY DEF Init, Held
    <3> QED BY <2>1, <3>1, EmittedIs DEF EmittedAsHeld, EmittedAll, Places
  <2> QED BY <2>1, <2>2, FS_EmptySet DEF MergeInv, CountInv
<1>2. MergeTypes /\ MergeInv /\ CountInv /\ MergeStep => MergeInv' /\ CountInv'
  BY QuietSteps, EmitMergeInv, EmitCountInv DEF MergeStep
<1> QED BY <1>1, <1>2, Typing, StepMerges, TypesOfMerge, PTL DEF Spec

\* run_impl of FlatMerger turns sorted files into a sorted output.
THEOREM OutputIsSorted == Spec => []SortedOutput
<1>1. MergeInv => SortedOutput
  BY DEF MergeInv, Sorted, SortedOutput, Abstract!SortedOutput, Abstract!Ts, Ts, Files
<1> QED BY <1>1, MergeHolds, PTL

\* When the output has ended, every event of every file is in it.
MergeIsWhole == outClosed => \A i \in Files : Cardinality(Places(i)) = Len(file[i])

\* A merge that ends has lost nothing.
THEOREM OutputIsComplete == Spec => []MergeIsWhole
<1>1. MergeTypes /\ CountInv => MergeIsWhole
  <2> SUFFICES ASSUME MergeTypes, CountInv, outClosed, NEW i \in Files
               PROVE  Cardinality(Places(i)) = Len(file[i])
    BY DEF MergeIsWhole
  <2>1. EmittedAll[i] \in Nat /\ EmittedAll[i] <= Len(file[i]) /\ ~(EmittedAll[i] < Len(file[i]))
    BY DEF MergeTypes, CountInv, HasNext
  <2>2. Len(file[i]) \in Nat
    BY FileTypes DEF MergeTypes
  <2> QED BY <2>1, <2>2 DEF CountInv
<1> QED BY <1>1, MergeHolds, PTL
=============================================================================
