--------------------------- MODULE Pipeline_proofs ---------------------------
(***************************************************************************)
(* The threads of main.cpp, for every number of files and every size of a  *)
(* batch.  The pipeline is a FlatMerger over files cut to whole batches:   *)
(* each of its steps is one of that merger's or leaves it alone.  So what  *)
(* FlatMerger_proofs shows of a merger holds of the pipeline.              *)
(*                                                                         *)
(* And the times that it orders the events by: the two JSON parsers read   *)
(* the same time from the same text, for all dates from 1970 on and all    *)
(* digits after the point.  And what JsonSimpleDataParser reads of a line  *)
(* that is cut off, and both of the lines before the first such one.       *)
(***************************************************************************)
EXTENDS Pipeline, JsonNativeDataParser, FiniteSetTheorems, WellFoundedInduction, TLAPS

\* What arrives of a file.
whole == [i \in Files |-> SubSeq(file[i], 1, WholeBatches(i))]
Short == INSTANCE FlatMerger_proofs WITH file <- whole, Streams <- Seq(Nat)

\* A quotient and a remainder that fit are the quotient and the remainder.
LEMMA DivUnique ==
  ASSUME NEW a \in Nat, NEW b \in Nat \ {0}, NEW q \in Nat, NEW r \in Nat, a = q * b + r, r < b
  PROVE  a \div b = q /\ a % b = r
<1> DEFINE d == a \div b
           m == a % b
<1>1. d \in Int /\ m \in Int /\ 0 <= m /\ m < b /\ a = b * d + m
  BY Z3
<1> HIDE DEF d, m
<1>2. b * (d - q) = r - m
  BY <1>1
<1>3. ~(d - q >= 1)
  BY <1>1, <1>2
<1>4. ~(q - d >= 1)
  BY <1>1, <1>2
<1>5. d = q
  BY <1>1, <1>3, <1>4
<1> QED BY <1>1, <1>2, <1>5 DEF d, m

\* Whole batches are no more than the file.
LEMMA WholeFits ==
  ASSUME NEW a \in Nat, NEW b \in Nat \ {0}
  PROVE  /\ (a \div b) * b \in Nat /\ (a \div b) * b <= a /\ a < (a \div b) * b + b
         /\ a \div b \in Nat
<1> DEFINE d == a \div b
           m == a % b
<1>1. d \in Int /\ m \in Int /\ 0 <= m /\ m < b /\ a = b * d + m
  BY Z3
<1> HIDE DEF d, m
<1>2. d >= 0
  BY <1>1
<1>3. d * b = b * d /\ b * d \in Int /\ b * d >= 0
  BY <1>1, <1>2
<1> QED BY <1>1, <1>2, <1>3 DEF d

\* Some whole batches of a file are no more than all of them.
LEMMA WholeMost ==
  ASSUME NEW a \in Nat, NEW b \in Nat \ {0}, NEW q \in Nat, q * b <= a
  PROVE  q * b <= (a \div b) * b
<1> DEFINE d == a \div b
<1>1. d \in Nat /\ d * b \in Nat /\ a < d * b + b
  BY WholeFits
<1> HIDE DEF d
<1>2. q * b < (d + 1) * b
  BY <1>1
<1>3. q < d + 1
  BY <1>1, <1>2
<1>4. q <= d
  BY <1>1, <1>3
<1>5. q * b <= d * b
  BY <1>1, <1>4
<1> QED BY <1>5 DEF d
-----------------------------------------------------------------------------
(* The invariant *)

\* The types of what FlatMerger does not have.
ThreadTypes ==
  /\ file \in [Files -> Streams]
  /\ fed \in [Files -> Nat] /\ fedClosed \in [Files -> BOOLEAN]
  /\ ppc \in [Files -> {"parse", "closed", "done"}]
  /\ parsed \in [Files -> Nat] /\ count \in [Files -> 0 .. BatchSize - 1]
  /\ dpc \in {"run", "done"} /\ iopc \in {"run", "done"}
  /\ dispatched \in Nat /\ counter \in Nat /\ snapshots \in Nat /\ printed \in Nat
  /\ printClosed \in BOOLEAN /\ mainpc \in {"join", "exit", "terminated"}

\* What was pushed are whole batches, and what was parsed and not pushed is in
\* the batch; once the queue is closed it has had every whole batch.
BatchInv ==
  \A i \in Files :
    /\ \E q \in Nat : fed[i] = q * BatchSize
    /\ parsed[i] <= Len(file[i]) /\ fed[i] <= WholeBatches(i)
    /\ ppc[i] = "parse" => ~fedClosed[i] /\ fed[i] + count[i] = parsed[i]
    /\ ppc[i] # "parse" => fedClosed[i] /\ fed[i] = WholeBatches(i)

\* A file is a sequence of numbers, and so is what arrives of it.
LEMMA WholeIs ==
  ASSUME file \in [Files -> Streams], NEW i \in Files
  PROVE  /\ file[i] \in Seq(Nat) /\ Len(file[i]) \in Nat
         /\ WholeBatches(i) \in Nat /\ WholeBatches(i) <= Len(file[i])
         /\ whole[i] \in Seq(Nat) /\ Len(whole[i]) = WholeBatches(i)
         /\ \A k \in 1 .. WholeBatches(i) : whole[i][k] = file[i][k]
<1>1. file[i] \in Seq(Nat) /\ Len(file[i]) \in Nat
  BY FileAssumption
<1>2. WholeBatches(i) \in Nat /\ WholeBatches(i) <= Len(file[i])
  BY <1>1, PipelineAssumption, WholeFits DEF WholeBatches
<1>3. whole[i] = SubSeq(file[i], 1, WholeBatches(i))
  BY DEF whole
<1> DEFINE n == WholeBatches(i)
           f == file[i]
<1>4. n \in Nat /\ n <= Len(f) /\ f \in Seq(Nat) /\ whole[i] = SubSeq(f, 1, n)
  BY <1>1, <1>2, <1>3
<1> HIDE DEF n, f
<1>5. /\ SubSeq(f, 1, n) \in Seq(Nat) /\ Len(SubSeq(f, 1, n)) = n
      /\ \A k \in 1 .. n : SubSeq(f, 1, n)[k] = f[k]
  BY <1>4
<1> QED BY <1>1, <1>2, <1>4, <1>5 DEF n, f

\* A parser batches an event, or pushes the batch it fills.
LEMMA ParseStep ==
  ASSUME ThreadTypes, BatchInv, NEW i \in Files, Parse(i)
  PROVE  ThreadTypes' /\ BatchInv' /\ (Short!Feed(i) \/ UNCHANGED Short!vars)
<1>1. /\ ppc[i] = "parse" /\ parsed[i] < Len(file[i])
      /\ parsed' = [parsed EXCEPT ![i] = @ + 1]
      /\ UNCHANGED <<file, fedClosed, popped, heap, mpc, cursor, out, outClosed, ppc, dpc,
                     dispatched, counter, snapshots, printClosed, printed, iopc, mainpc>>
      /\ whole' = whole
  BY DEF Parse, mergeVars, sinkVars, ioVars, whole, WholeBatches
<1>2. /\ BatchSize \in Nat \ {0} /\ count[i] \in 0 .. BatchSize - 1 /\ fed[i] \in Nat
      /\ parsed[i] \in Nat /\ ~fedClosed[i] /\ fed[i] + count[i] = parsed[i]
      /\ Len(file[i]) \in Nat
  BY <1>1, WholeIs, PipelineAssumption DEF ThreadTypes, BatchInv
<1>3. PICK q \in Nat : fed[i] = q * BatchSize
  BY DEF BatchInv
<1>4. WholeBatches(i) = WholeBatches(i)' /\ \A j \in Files : WholeBatches(j)' = WholeBatches(j)
  BY <1>1 DEF WholeBatches
<1>5. CASE count[i] + 1 >= BatchSize
  <2>1. count[i] + 1 = BatchSize /\ count[i] + 1 > 0
    BY <1>2, <1>5
  <2>2. fed' = [fed EXCEPT ![i] = @ + BatchSize] /\ count' = [count EXCEPT ![i] = 0]
    BY <1>2, <1>5, <2>1 DEF Parse, Flush
  <2>3. /\ q + 1 \in Nat /\ fed[i] + BatchSize = (q + 1) * BatchSize
        /\ fed[i] + BatchSize = parsed[i] + 1 /\ parsed[i] + 1 <= Len(file[i])
        /\ fed[i] + BatchSize \in Nat /\ fed[i] + BatchSize > fed[i]
    <3>1. (q + 1) * BatchSize = q * BatchSize + BatchSize
      BY <1>2
    <3>2. fed[i] + BatchSize = (q + 1) * BatchSize /\ q + 1 \in Nat
      BY <1>3, <3>1
    <3>3. parsed[i] + 1 <= Len(file[i])
      BY <1>1, <1>2
    <3>4. fed[i] + BatchSize = parsed[i] + 1
      <4>1. fed[i] + (count[i] + 1) = (fed[i] + count[i]) + 1 /\ count[i] \in Nat
        BY <1>2
      <4> QED BY <1>2, <2>1, <4>1
    <3>5. fed[i] + BatchSize \in Nat /\ fed[i] + BatchSize > fed[i]
      BY <1>2
    <3> QED BY <3>2, <3>3, <3>4, <3>5
  <2>4. fed[i] + BatchSize <= WholeBatches(i)
    BY <1>2, <2>3, WholeMost DEF WholeBatches
  <2>5. ThreadTypes'
    BY <1>1, <1>2, <2>2, <2>3 DEF ThreadTypes
  <2>6. BatchInv'
    <3> SUFFICES ASSUME NEW j \in Files
                 PROVE  /\ \E r \in Nat : fed'[j] = r * BatchSize
                        /\ parsed'[j] <= Len(file[j]) /\ fed'[j] <= WholeBatches(j)
                        /\ ppc[j] = "parse" => ~fedClosed[j] /\ fed'[j] + count'[j] = parsed'[j]
                        /\ ppc[j] # "parse" => fedClosed[j] /\ fed'[j] = WholeBatches(j)
      BY <1>1, <1>4 DEF BatchInv
    <3>1. CASE j = i
      <4>1. fed'[i] = fed[i] + BatchSize /\ count'[i] = 0 /\ parsed'[i] = parsed[i] + 1
        BY <1>1, <2>2 DEF ThreadTypes
      <4>2. \E r \in Nat : fed'[i] = r * BatchSize
        BY <2>3, <4>1
      <4>3. fed'[i] + count'[i] = parsed'[i]
        BY <1>2, <2>3, <4>1
      <4> QED BY <1>1, <1>2, <2>3, <2>4, <3>1, <4>1, <4>2, <4>3
    <3>2. CASE j # i
      <4>1. fed'[j] = fed[j] /\ count'[j] = count[j] /\ parsed'[j] = parsed[j]
        BY <1>1, <2>2, <3>2 DEF ThreadTypes
      <4> QED BY <4>1 DEF BatchInv
    <3> QED BY <3>1, <3>2
  <2>7. Short!Feed(i)
    <3>1. fed[i] + BatchSize \in fed[i] + 1 .. Len(whole[i])
      BY <1>2, <2>3, <2>4, WholeIs DEF ThreadTypes
    <3>2. fed' = [fed EXCEPT ![i] = fed[i] + BatchSize]
      BY <2>2
    <3> QED BY <1>1, <1>2, <3>1, <3>2 DEF Short!Feed, Short!mergeVars
  <2> QED BY <2>5, <2>6, <2>7
<1>6. CASE ~(count[i] + 1 >= BatchSize)
  <2>1. count' = [count EXCEPT ![i] = @ + 1] /\ fed' = fed /\ count[i] + 1 \in 0 .. BatchSize - 1
    BY <1>2, <1>6 DEF Parse
  <2>2. ThreadTypes'
    BY <1>1, <1>2, <2>1 DEF ThreadTypes
  <2>3. BatchInv'
    <3> SUFFICES ASSUME NEW j \in Files
                 PROVE  /\ parsed'[j] <= Len(file[j])
                        /\ ppc[j] = "parse" => fed[j] + count'[j] = parsed'[j]
      BY <1>1, <1>4, <2>1 DEF BatchInv
    <3>1. CASE j = i
      <4>1. count'[i] = count[i] + 1 /\ parsed'[i] = parsed[i] + 1
        BY <1>1, <2>1 DEF ThreadTypes
      <4> QED BY <1>1, <1>2, <3>1, <4>1
    <3>2. CASE j # i
      <4>1. count'[j] = count[j] /\ parsed'[j] = parsed[j]
        BY <1>1, <2>1, <3>2 DEF ThreadTypes
      <4> QED BY <4>1 DEF BatchInv
    <3> QED BY <3>1, <3>2
  <2>4. UNCHANGED Short!vars
    BY <1>1, <2>1 DEF Short!vars, Short!inVars, Short!mergeVars
  <2> QED BY <2>2, <2>3, <2>4
<1> QED BY <1>5, <1>6

\* When its queue is closed, every whole batch has been pushed.
LEMMA CloseStep ==
  ASSUME ThreadTypes, BatchInv, NEW i \in Files, CloseFileQueue(i)
  PROVE  ThreadTypes' /\ BatchInv' /\ Short!CloseFile(i)
<1>1. /\ ppc[i] = "parse" /\ parsed[i] = Len(file[i])
      /\ fedClosed' = [fedClosed EXCEPT ![i] = TRUE] /\ ppc' = [ppc EXCEPT ![i] = "closed"]
      /\ UNCHANGED <<file, fed, popped, heap, mpc, cursor, out, outClosed, parsed, count, dpc,
                     dispatched, counter, snapshots, printClosed, printed, iopc, mainpc>>
      /\ whole' = whole /\ \A j \in Files : WholeBatches(j)' = WholeBatches(j)
  BY DEF CloseFileQueue, mergeVars, sinkVars, ioVars, whole, WholeBatches
<1>2. /\ BatchSize \in Nat \ {0} /\ count[i] \in 0 .. BatchSize - 1 /\ fed[i] \in Nat
      /\ ~fedClosed[i] /\ fed[i] + count[i] = Len(file[i]) /\ Len(file[i]) \in Nat
  BY <1>1, WholeIs, PipelineAssumption DEF ThreadTypes, BatchInv
<1>3. fed[i] = WholeBatches(i)
  <2>1. PICK q \in Nat : fed[i] = q * BatchSize
    BY DEF BatchInv
  <2>2. count[i] \in Nat /\ count[i] < BatchSize /\ Len(file[i]) = q * BatchSize + count[i]
    BY <1>2, <2>1
  <2>3. Len(file[i]) \div BatchSize = q
    BY <1>2, <2>2, DivUnique
  <2> QED BY <2>1, <2>3 DEF WholeBatches
<1>4. ThreadTypes'
  BY <1>1 DEF ThreadTypes
<1>5. BatchInv'
  <2> SUFFICES ASSUME NEW j \in Files
               PROVE  /\ ppc'[j] = "parse" => ~fedClosed'[j] /\ fed[j] + count[j] = parsed[j]
                      /\ ppc'[j] # "parse" => fedClosed'[j] /\ fed[j] = WholeBatches(j)
    BY <1>1 DEF BatchInv
  <2> QED BY <1>1, <1>3 DEF ThreadTypes, BatchInv
<1>6. Short!CloseFile(i)
  <2>1. fed[i] = Len(whole[i])
    BY <1>3, WholeIs DEF ThreadTypes
  <2> QED BY <1>1, <1>2, <2>1 DEF Short!CloseFile, Short!mergeVars
<1> QED BY <1>4, <1>5, <1>6

\* The flush of ~BatchPusher() finds its queue closed.
LEMMA DestroyStep ==
  ASSUME ThreadTypes, BatchInv, NEW i \in Files, DestroyBatcher(i)
  PROVE  ThreadTypes' /\ BatchInv' /\ UNCHANGED Short!vars
<1>1. /\ ppc[i] = "closed" /\ ppc' = [ppc EXCEPT ![i] = "done"] /\ Flush(i, count[i])
      /\ UNCHANGED <<file, fedClosed, popped, heap, mpc, cursor, out, outClosed, parsed, dpc,
                     dispatched, counter, snapshots, printClosed, printed, iopc, mainpc>>
      /\ whole' = whole /\ \A j \in Files : WholeBatches(j)' = WholeBatches(j)
  BY DEF DestroyBatcher, mergeVars, sinkVars, ioVars, whole, WholeBatches
<1>2. fedClosed[i]
  BY <1>1 DEF BatchInv
<1>3. fed' = fed /\ count' = count
  BY <1>1, <1>2 DEF Flush, ThreadTypes
<1>4. ThreadTypes'
  BY <1>1, <1>3 DEF ThreadTypes
<1>5. BatchInv'
  <2>1. \A j \in Files : ppc'[j] = "parse" <=> ppc[j] = "parse"
    BY <1>1 DEF ThreadTypes
  <2> QED BY <1>1, <1>3, <2>1 DEF BatchInv
<1>6. UNCHANGED Short!vars
  BY <1>1, <1>3 DEF Short!vars, Short!inVars, Short!mergeVars
<1> QED BY <1>4, <1>5, <1>6

\* What FlatMerger_proofs assumes of the number of files.
LEMMA ShortAssumption == Short!FileAssumption
BY FileAssumption DEF Short!FileAssumption

\* The merger sees the same receive times in a file and in what arrives of it.
LEMMA MergeStep ==
  ASSUME ThreadTypes, BatchInv, Short!TypeOK, Short!HeapInv, Merge
  PROVE  ThreadTypes' /\ BatchInv' /\ Short!Merger
<1>1. /\ UNCHANGED <<file, fed, fedClosed, ppc, parsed, count, dpc, dispatched, counter, snapshots,
                     printClosed, printed, iopc, mainpc>>
      /\ whole' = whole /\ \A j \in Files : WholeBatches(j)' = WholeBatches(j)
  BY DEF Merge, Merger, Prime, Emit, Refill, CloseOutput, inVars, parserVars, sinkVars, ioVars,
         whole, WholeBatches
<1>2. ThreadTypes'
  BY <1>1 DEF ThreadTypes
<1>3. BatchInv'
  BY <1>1 DEF BatchInv
<1>4. CASE Prime \/ Refill \/ CloseOutput
  BY <1>1, <1>2, <1>3, <1>4 DEF Prime, Refill, CloseOutput, PopInto, PrimeAt, inVars, Short!Merger,
     Short!Prime, Short!Refill, Short!CloseOutput, Short!PopInto, Short!PrimeAt, Short!inVars
<1>5. CASE Emit
  <2>1. ASSUME NEW e \in heap PROVE Short!Ts(e) = Ts(e)
    <3>1. /\ e[1] \in Files /\ e[2] \in Nat /\ e[2] > 0 /\ e[2] = popped[e[1]]
      <4>1. e \in Files \X Nat
        BY DEF Short!TypeOK, Files, Short!Files
      <4>2. e = <<e[1], popped[e[1]]>> /\ e[2] > 0
        BY DEF Short!HeapInv, Short!Next_event
      <4> QED BY <4>1, <4>2
    <3>2. popped[e[1]] <= fed[e[1]] /\ fed[e[1]] <= WholeBatches(e[1])
          /\ fed[e[1]] \in Nat /\ WholeBatches(e[1]) \in Nat
      BY <3>1, WholeIs DEF Short!TypeOK, Files, Short!Files, ThreadTypes, BatchInv
    <3>3. e[2] \in 1 .. WholeBatches(e[1])
      BY <3>1, <3>2
    <3> QED BY <3>1, <3>3, WholeIs DEF Ts, Short!Ts, ThreadTypes
  <2>2. Least(heap) = Short!Least(heap)
    BY <2>1 DEF Least, Short!Least
  <2>3. Short!Emit
    BY <1>1, <1>5, <2>2 DEF Emit, Short!Emit, inVars, Short!inVars
  <2> QED BY <1>2, <1>3, <2>3 DEF Short!Merger
<1> QED BY <1>4, <1>5 DEF Merge, Merger

\* The other threads leave the merger and the parsers alone.
LEMMA OtherStep ==
  ASSUME ThreadTypes, BatchInv,
         \/ Dispatcher \/ Io \/ JoinAll \/ UNCHANGED allVars
         \/ \E i \in Files : ParserThrows(i)
  PROVE  ThreadTypes' /\ BatchInv' /\ UNCHANGED Short!vars
<1>1. /\ UNCHANGED <<file, fed, fedClosed, popped, heap, mpc, cursor, out, outClosed,
                     ppc, parsed, count>>
      /\ whole' = whole /\ \A j \in Files : WholeBatches(j)' = WholeBatches(j)
  BY DEF Dispatcher, Dispatch, DispatchEnd, Io, PrintMessage, PrintEnd, JoinAll, ParserThrows,
         allVars, vars, inVars, mergeVars, parserVars, whole, WholeBatches
<1>2. /\ dpc' \in {"run", "done"} /\ iopc' \in {"run", "done"} /\ printClosed' \in BOOLEAN
      /\ mainpc' \in {"join", "exit", "terminated"} /\ dispatched' \in Nat
      /\ counter' \in Nat /\ snapshots' \in Nat /\ printed' \in Nat
  <2>1. CASE Dispatch
    BY <2>1 DEF Dispatch, ioVars, ThreadTypes
  <2>2. CASE DispatchEnd
    BY <2>2 DEF DispatchEnd, ioVars, ThreadTypes
  <2>4. CASE PrintMessage
    BY <2>4 DEF PrintMessage, sinkVars, ThreadTypes
  <2>5. CASE PrintEnd
    BY <2>5 DEF PrintEnd, sinkVars, ThreadTypes
  <2>3. CASE JoinAll \/ UNCHANGED allVars \/ \E i \in Files : ParserThrows(i)
    BY <2>3 DEF JoinAll, ParserThrows, allVars, sinkVars, ioVars, ThreadTypes
  <2> QED BY <2>1, <2>2, <2>3, <2>4, <2>5 DEF Dispatcher, Io
<1>3. ThreadTypes'
  BY <1>1, <1>2 DEF ThreadTypes
<1>4. BatchInv'
  BY <1>1 DEF BatchInv
<1>5. UNCHANGED Short!vars
  BY <1>1 DEF Short!vars, Short!inVars, Short!mergeVars
<1> QED BY <1>3, <1>4, <1>5

\* The pipeline begins as a merger of whole batches ...
LEMMA InitShort == PipelineInit => ThreadTypes /\ BatchInv /\ Short!Init
<1> SUFFICES ASSUME PipelineInit PROVE ThreadTypes /\ BatchInv /\ Short!Init
  OBVIOUS
<1>1. file \in [Files -> Streams]
  BY DEF PipelineInit, Init
<1>2. /\ fed = [i \in Files |-> 0] /\ fedClosed = [i \in Files |-> FALSE]
      /\ ppc = [i \in Files |-> "parse"] /\ parsed = [i \in Files |-> 0]
      /\ count = [i \in Files |-> 0] /\ BatchSize \in Nat \ {0}
  BY PipelineAssumption DEF PipelineInit, Init
<1>3. ThreadTypes
  <2>1. 0 \in 0 .. BatchSize - 1
    BY <1>2
  <2>2. /\ fed \in [Files -> Nat] /\ fedClosed \in [Files -> BOOLEAN]
        /\ ppc \in [Files -> {"parse", "closed", "done"}]
        /\ parsed \in [Files -> Nat] /\ count \in [Files -> 0 .. BatchSize - 1]
    BY <1>2, <2>1
  <2>3. /\ dpc = "run" /\ iopc = "run" /\ dispatched = 0 /\ counter = 0 /\ snapshots = 0
        /\ printed = 0 /\ printClosed = FALSE /\ mainpc = "join"
    BY DEF PipelineInit
  <2> QED BY <1>1, <2>2, <2>3 DEF ThreadTypes
<1>4. BatchInv
  <2> SUFFICES ASSUME NEW i \in Files
               PROVE  /\ \E q \in Nat : fed[i] = q * BatchSize
                      /\ parsed[i] <= Len(file[i]) /\ fed[i] <= WholeBatches(i)
                      /\ ppc[i] = "parse" => ~fedClosed[i] /\ fed[i] + count[i] = parsed[i]
                      /\ ppc[i] # "parse" => fedClosed[i] /\ fed[i] = WholeBatches(i)
    BY DEF BatchInv
  <2>1. 0 = 0 * BatchSize
    BY <1>2
  <2> QED BY <1>1, <1>2, <2>1, WholeIs
<1>5. Short!Init
  <2>1. whole \in [Short!Files -> Seq(Nat)]
    BY <1>1, WholeIs DEF whole, Files, Short!Files
  <2> QED BY <2>1 DEF PipelineInit, Init, Short!Init, Short!PrimeAt, PrimeAt, Files, Short!Files
<1> QED BY <1>3, <1>4, <1>5

PipelineInv == ThreadTypes /\ BatchInv /\ Short!TypeOK /\ Short!HeapInv

\* ... and goes on as one.
LEMMA StepShort ==
  PipelineInv /\ [PipelineNext]_allVars => PipelineInv' /\ [Short!Next]_(Short!vars)
<1> SUFFICES ASSUME PipelineInv, [PipelineNext]_allVars
             PROVE  PipelineInv' /\ [Short!Next]_(Short!vars)
  OBVIOUS
<1>1. ThreadTypes' /\ BatchInv' /\ [Short!Next]_(Short!vars)
  <2>1. ASSUME NEW i \in Files, ParserThread(i)
        PROVE  ThreadTypes' /\ BatchInv' /\ [Short!Next]_(Short!vars)
    <3>1. i \in Short!Files
      BY DEF Files, Short!Files
    <3>2. \/ Short!Feed(i) \/ Short!CloseFile(i) \/ UNCHANGED Short!vars
      BY <2>1, ParseStep, CloseStep, DestroyStep DEF PipelineInv, ParserThread
    <3>3. ThreadTypes' /\ BatchInv'
      BY <2>1, ParseStep, CloseStep, DestroyStep DEF PipelineInv, ParserThread
    <3> QED BY <3>1, <3>2, <3>3 DEF Short!Next
  <2>2. CASE Merge
    BY <2>2, MergeStep DEF PipelineInv, Short!Next
  <2>3. CASE \/ Dispatcher \/ Io \/ JoinAll \/ UNCHANGED allVars
             \/ \E i \in Files : ParserThrows(i)
    BY <2>3, OtherStep DEF PipelineInv
  <2> QED BY <2>1, <2>2, <2>3 DEF PipelineNext
<1>2. Short!TypeOK' /\ Short!HeapInv'
  BY <1>1, ShortAssumption, Short!StepInv DEF PipelineInv
<1> QED BY <1>1, <1>2 DEF PipelineInv

\* The pipeline is a merger of whole batches.
LEMMA IsShort == PipelineSpec => []PipelineInv /\ Short!Spec
<1>1. PipelineInit => PipelineInv /\ Short!Init
  BY InitShort, ShortAssumption, Short!InitInv DEF PipelineInv
<1> QED BY <1>1, StepShort, PTL DEF PipelineSpec, Short!Spec

\* What reaches the order books is a merge of the whole batches of every file.
THEOREM MergesBatches == PipelineSpec => MergesWholeBatches
<1>1. Short!Spec => Short!ImplementsKWayMerge
  BY ShortAssumption, Short!IsMerge
<1>2. Short!ImplementsKWayMerge => MergesWholeBatches
  BY DEF Short!ImplementsKWayMerge, MergesWholeBatches, Short!Abstract!Spec, Batched!Spec,
         Short!Abstract!Init, Batched!Init, Short!Abstract!vars, Batched!vars,
         Short!Abstract!Next, Batched!Next, Short!Abstract!Emit, Batched!Emit,
         Short!Abstract!End, Batched!End, Short!Abstract!HasNext, Batched!HasNext,
         Short!Abstract!Next_ts, Batched!Next_ts, Short!Emitted, Emitted, whole, Files, Short!Files,
         Short!Cardinality, Cardinality
<1> QED BY <1>1, <1>2, IsShort, PTL
-----------------------------------------------------------------------------
(* Nothing is left behind *)

\* Where in the first n events of the output those with a receive time are.
Timed(n) == {k \in 1 .. n : Ts(out[k]) > 0}

\* The dispatcher's counts are those of what it has popped; a thread has ended
\* only when the one before it has, and has left it nothing.
DrainInv ==
  /\ out \in Seq(Files \X Nat) /\ (outClosed <=> mpc = "done")
  /\ dispatched <= Len(out) /\ counter = Cardinality(Timed(dispatched))
  /\ snapshots = counter \div ReportEvery /\ printed <= snapshots
  /\ dpc = "done" => outClosed /\ dispatched = Len(out)
  /\ printClosed <=> dpc = "done"
  /\ iopc = "done" => printClosed /\ printed = snapshots
  /\ mainpc = "exit" => dpc = "done" /\ iopc = "done"

\* One event more.
LEMMA TimedOneMore ==
  ASSUME NEW n \in Nat
  PROVE  /\ IsFiniteSet(Timed(n)) /\ Cardinality(Timed(n)) \in Nat /\ Cardinality(Timed(n)) <= n
         /\ Cardinality(Timed(n + 1)) = IF Ts(out[n + 1]) > 0 THEN Cardinality(Timed(n)) + 1
                                        ELSE Cardinality(Timed(n))
<1>1. IsFiniteSet(1 .. n) /\ Cardinality(1 .. n) = n
  BY FS_Interval
<1>2. Timed(n) \in SUBSET (1 .. n)
  BY DEF Timed
<1>3. IsFiniteSet(Timed(n)) /\ Cardinality(Timed(n)) <= Cardinality(1 .. n)
      /\ Cardinality(Timed(n)) \in Nat
  BY <1>1, <1>2, FS_Subset, FS_CardinalityType
<1>4. Timed(n + 1) = IF Ts(out[n + 1]) > 0 THEN Timed(n) \union {n + 1} ELSE Timed(n)
  BY DEF Timed
<1>5. n + 1 \notin Timed(n)
  BY DEF Timed
<1> QED BY <1>1, <1>3, <1>4, <1>5, FS_AddElement

\* Every so many counts make a snapshot.
LEMMA OneMoreCount ==
  ASSUME NEW c \in Nat, NEW r \in Nat \ {0}
  PROVE  (c + 1) \div r = IF (c + 1) % r = 0 THEN c \div r + 1 ELSE c \div r
<1> DEFINE d == c \div r
           m == c % r
<1>1. d \in Int /\ m \in Int /\ 0 <= m /\ m < r /\ c = r * d + m
  BY Z3
<1>2. d \in Nat
  BY WholeFits
<1> HIDE DEF d, m
<1>3. c + 1 = d * r + (m + 1)
  BY <1>1
<1>4. CASE m + 1 < r
  <2>1. (c + 1) \div r = d /\ (c + 1) % r = m + 1
    BY <1>1, <1>2, <1>3, <1>4, DivUnique
  <2> QED BY <1>1, <2>1 DEF d
<1>5. CASE m + 1 = r
  <2>1. c + 1 = (d + 1) * r + 0 /\ d + 1 \in Nat
    BY <1>1, <1>2, <1>3, <1>5
  <2>2. (c + 1) \div r = d + 1 /\ (c + 1) % r = 0
    BY <2>1, DivUnique
  <2> QED BY <2>2 DEF d
<1> QED BY <1>1, <1>4, <1>5

\* At first there is nothing.
LEMMA InitDrain == PipelineInit => DrainInv
<1> SUFFICES ASSUME PipelineInit PROVE DrainInv
  OBVIOUS
<1>1. /\ out = <<>> /\ ~outClosed /\ mpc = PrimeAt(1) /\ dispatched = 0 /\ counter = 0
      /\ snapshots = 0 /\ printed = 0 /\ dpc = "run" /\ iopc = "run" /\ ~printClosed
      /\ mainpc = "join"
  BY DEF PipelineInit, Init
<1>2. Timed(0) = {} /\ Cardinality({}) = 0
  BY FS_EmptySet DEF Timed
<1>3. 0 \div ReportEvery = 0
  <2>1. ReportEvery \in Nat \ {0} /\ 0 = 0 * ReportEvery + 0
    BY PipelineAssumption
  <2> QED BY <2>1, DivUnique
<1>4. mpc # "done"
  BY <1>1 DEF PrimeAt
<1> QED BY <1>1, <1>2, <1>3, <1>4 DEF DrainInv

\* The dispatcher applies an event.
LEMMA DispatchDrain ==
  ASSUME ThreadTypes, DrainInv, Dispatch
  PROVE  DrainInv'
<1>1. /\ dpc = "run" /\ dispatched < Len(out) /\ dispatched' = dispatched + 1
      /\ UNCHANGED <<file, mpc, out, outClosed, dpc, printClosed, printed, iopc, mainpc>>
  BY DEF Dispatch, vars, mergeVars, ioVars
<1>2. /\ dispatched \in Nat /\ counter \in Nat /\ snapshots \in Nat /\ printed \in Nat
      /\ ReportEvery \in Nat \ {0} /\ Len(out) \in Nat
  BY PipelineAssumption DEF ThreadTypes, DrainInv
<1>3. Timed(dispatched)' = Timed(dispatched + 1)
  BY <1>1 DEF Timed, Ts
<1>4. counter' = Cardinality(Timed(dispatched)')
  BY <1>2, <1>3, TimedOneMore DEF Dispatch, DrainInv
<1>5. snapshots' = counter' \div ReportEvery /\ snapshots <= snapshots' /\ snapshots' \in Nat
  <2>1. CASE Ts(out[dispatched + 1]) > 0
    <3>1. counter' = counter + 1
          /\ snapshots' = IF counter' % ReportEvery = 0 THEN snapshots + 1 ELSE snapshots
      BY <2>1 DEF Dispatch
    <3>2. snapshots = counter \div ReportEvery
      BY DEF DrainInv
    <3>3. (counter + 1) \div ReportEvery
            = IF (counter + 1) % ReportEvery = 0 THEN counter \div ReportEvery + 1
              ELSE counter \div ReportEvery
      BY <1>2, OneMoreCount
    <3>4. snapshots' = counter' \div ReportEvery
      BY <3>1, <3>2, <3>3
    <3> QED BY <1>2, <3>1, <3>4
  <2>2. CASE ~(Ts(out[dispatched + 1]) > 0)
    BY <1>2, <2>2 DEF Dispatch, DrainInv
  <2> QED BY <2>1, <2>2
<1>6. dispatched' <= Len(out) /\ printed <= snapshots' /\ dpc # "done"
  BY <1>1, <1>2, <1>5 DEF DrainInv
<1>7. iopc # "done" /\ mainpc # "exit"
  BY <1>1 DEF DrainInv
<1> QED BY <1>1, <1>4, <1>5, <1>6, <1>7 DEF DrainInv

\* The merger only adds to the output, until it closes it.
LEMMA MergeDrain ==
  ASSUME ThreadTypes, DrainInv, Short!TypeOK, Merge
  PROVE  DrainInv'
<1>1. UNCHANGED <<file, dpc, dispatched, counter, snapshots, printClosed, printed, iopc, mainpc>>
  BY DEF Merge, Merger, Prime, Emit, Refill, CloseOutput, sinkVars, ioVars
<1>2. dispatched \in Nat /\ dispatched <= Len(out) /\ Len(out) \in Nat
      /\ out \in Seq(Files \X Nat)
  BY DEF ThreadTypes, DrainInv
<1>3. mpc # "done" /\ ~outClosed
  BY DEF Merge, Merger, Prime, Emit, Refill, CloseOutput, DrainInv
<1>4. CASE UNCHANGED out
  <2>1. Timed(dispatched)' = Timed(dispatched)
    BY <1>1, <1>4 DEF Timed, Ts
  <2>2. outClosed' <=> mpc' = "done"
    <3>1. CASE Prime \/ Refill
      BY <1>3, <3>1 DEF Prime, Refill, PrimeAt
    <3>2. CASE CloseOutput
      BY <3>2 DEF CloseOutput
    <3>3. CASE Emit
      BY <1>3, <3>3 DEF Emit
    <3> QED BY <3>1, <3>2, <3>3 DEF Merge, Merger
  <2>3. dpc # "done"
    BY <1>3 DEF DrainInv
  <2> QED BY <1>1, <1>4, <2>1, <2>2, <2>3 DEF DrainInv
<1>5. CASE Emit
  <2>1. PICK top \in heap : out' = Append(out, top)
    BY <1>5 DEF Emit, Least
  <2>2. top \in Files \X Nat /\ mpc' = "refill" /\ outClosed' = outClosed
    BY <1>5, <2>1 DEF Emit, Short!TypeOK, Files, Short!Files
  <2>3. /\ out' \in Seq(Files \X Nat) /\ Len(out') = Len(out) + 1
        /\ \A k \in 1 .. Len(out) : out'[k] = out[k]
    BY <1>2, <2>1, <2>2
  <2>4. Timed(dispatched)' = Timed(dispatched)
    <3>1. ASSUME NEW k \in 1 .. dispatched PROVE out'[k] = out[k]
      <4>1. k \in 1 .. Len(out)
        BY <1>2
      <4> QED BY <2>3, <4>1
    <3> QED BY <1>1, <3>1 DEF Timed, Ts
  <2>5. dpc # "done" /\ dispatched <= Len(out')
    BY <1>2, <1>3, <2>3 DEF DrainInv
  <2> QED BY <1>1, <1>3, <2>2, <2>3, <2>4, <2>5 DEF DrainInv
<1> QED BY <1>4, <1>5 DEF Merge, Merger, Prime, Refill, CloseOutput

\* The other threads.
LEMMA OtherDrain ==
  ASSUME ThreadTypes, DrainInv,
         \/ DispatchEnd \/ Io \/ JoinAll \/ UNCHANGED allVars
         \/ \E i \in Files : ParserThread(i) \/ ParserThrows(i)
  PROVE  DrainInv'
<1>1. /\ UNCHANGED <<file, mpc, out, outClosed, dispatched, counter, snapshots>>
  BY DEF DispatchEnd, Io, PrintMessage, PrintEnd, JoinAll, ParserThread, ParserThrows, Parse,
         CloseFileQueue, DestroyBatcher, allVars, vars, mergeVars, sinkVars
<1>2. Timed(dispatched)' = Timed(dispatched)
  BY <1>1 DEF Timed, Ts
<1>3. CASE DispatchEnd
  BY <1>1, <1>2, <1>3 DEF DispatchEnd, ioVars, DrainInv
<1>4. CASE PrintMessage
  BY <1>1, <1>2, <1>4 DEF PrintMessage, sinkVars, DrainInv, ThreadTypes
<1>5. CASE PrintEnd
  BY <1>1, <1>2, <1>5 DEF PrintEnd, sinkVars, DrainInv
<1>6. CASE JoinAll
  BY <1>1, <1>2, <1>6 DEF JoinAll, sinkVars, ioVars, DrainInv
<1>7. CASE UNCHANGED allVars
  BY <1>1, <1>2, <1>7 DEF allVars, sinkVars, ioVars, DrainInv
<1>8. ASSUME NEW i \in Files, ParserThread(i)
      PROVE  DrainInv'
  <2>1. UNCHANGED <<dpc, printClosed, printed, iopc, mainpc>>
    BY <1>8 DEF ParserThread, Parse, CloseFileQueue, DestroyBatcher, sinkVars, ioVars
  <2> QED BY <1>1, <1>2, <2>1 DEF DrainInv
<1>9. ASSUME NEW i \in Files, ParserThrows(i)
      PROVE  DrainInv'
  BY <1>1, <1>2, <1>9 DEF ParserThrows, sinkVars, ioVars, DrainInv
<1> QED BY <1>3, <1>4, <1>5, <1>6, <1>7, <1>8, <1>9 DEF Io

\* Every step keeps the books of the threads straight.
LEMMA StepDrain == PipelineInv /\ DrainInv /\ [PipelineNext]_allVars => DrainInv'
<1> SUFFICES ASSUME PipelineInv, DrainInv, [PipelineNext]_allVars PROVE DrainInv'
  OBVIOUS
<1> QED BY DispatchDrain, MergeDrain, OtherDrain DEF PipelineNext, Dispatcher, PipelineInv

\* The types, and a batch that never fills its array, hold for every number of
\* files and every size of a batch.
THEOREM PipelineTyping == PipelineSpec => []PipelineTypeOK
<1>1. PipelineInv /\ DrainInv => PipelineTypeOK
  <2> SUFFICES ASSUME PipelineInv, DrainInv PROVE PipelineTypeOK
    OBVIOUS
  <2>1. TypeOK
    <3>1. ASSUME NEW i \in Files
          PROVE  popped[i] <= fed[i] /\ fed[i] <= Len(file[i])
      <4>1. /\ fed[i] <= WholeBatches(i) /\ WholeBatches(i) <= Len(file[i])
            /\ fed[i] \in Nat /\ WholeBatches(i) \in Nat /\ Len(file[i]) \in Nat
        BY WholeIs DEF PipelineInv, ThreadTypes, BatchInv
      <4> QED BY <4>1 DEF PipelineInv, Short!TypeOK, Short!Files, Files
    <3> QED BY <3>1 DEF PipelineInv, Short!TypeOK, Short!Files, Files, ThreadTypes, TypeOK
  <2>2. counter <= dispatched
    BY TimedOneMore DEF PipelineInv, ThreadTypes, DrainInv
  <2>3. dispatched \in 0 .. Len(out) /\ counter \in 0 .. dispatched /\ printed \in 0 .. snapshots
    BY <2>2 DEF PipelineInv, ThreadTypes, DrainInv
  <2> QED BY <2>1, <2>3 DEF PipelineTypeOK, PipelineInv, ThreadTypes
<1> QED BY <1>1, IsShort, InitDrain, StepDrain, PTL DEF PipelineSpec

\* The merge of the whole batches has all of them once it is closed.
LEMMA OutputIsWhole == PipelineSpec => []Short!MergeIsWhole
<1>1. Short!Spec => []Short!MergeIsWhole
  BY ShortAssumption, Short!OutputIsComplete
<1> QED BY <1>1, IsShort, PTL

\* When main returns every whole batch has been merged and applied to the books, and
\* every snapshot printed: each queue was closed when its readers could still drain it.
THEOREM ExitIsDrained == PipelineSpec => []ExitMeansDrained
<1>1. PipelineInv /\ DrainInv /\ Short!MergeIsWhole => ExitMeansDrained
  <2> SUFFICES ASSUME PipelineInv, DrainInv, Short!MergeIsWhole, mainpc = "exit"
               PROVE  /\ dispatched = Len(out)
                      /\ \A i \in Files :
                           WholeBatches(i) = Cardinality({k \in DOMAIN out : out[k][1] = i})
                      /\ counter = Cardinality({k \in DOMAIN out : Ts(out[k]) > 0})
                      /\ printed = counter \div ReportEvery
    BY DEF ExitMeansDrained
  <2>1. /\ dispatched = Len(out) /\ outClosed /\ printed = counter \div ReportEvery
        /\ counter = Cardinality(Timed(Len(out))) /\ DOMAIN out = 1 .. Len(out)
    BY DEF DrainInv
  <2>2. Timed(Len(out)) = {k \in DOMAIN out : Ts(out[k]) > 0}
    BY <2>1 DEF Timed
  <2>3. ASSUME NEW i \in Files
        PROVE  WholeBatches(i) = Cardinality({k \in DOMAIN out : out[k][1] = i})
    <3>1. Len(SubSeq(file[i], 1, WholeBatches(i))) = WholeBatches(i)
      BY WholeIs DEF whole, PipelineInv, ThreadTypes
    <3>2. Short!Cardinality({k \in DOMAIN out : out[k][1] = i}) = Len(whole[i])
      BY <2>1 DEF Short!MergeIsWhole, Short!Places, Short!Files, Files
    <3>3. \A S : Short!Cardinality(S) = Cardinality(S)
      BY DEF Short!Cardinality, Cardinality
    <3> QED BY <3>1, <3>2, <3>3 DEF whole
  <2> QED BY <2>1, <2>2, <2>3
<1> QED BY <1>1, IsShort, InitDrain, StepDrain, OutputIsWhole, PTL DEF PipelineSpec
-----------------------------------------------------------------------------
(* The timestamps of the parser threads *)

\* The days before the first of March of the year z.
YearDays(z) == 365 * z + z \div 4 - z \div 100 + z \div 400

\* A year from March to March has a day more when February in it has one.
LEMMA YearLength ==
  ASSUME NEW z \in Int
  PROVE  YearDays(z) - YearDays(z - 1) = IF Leap(z) THEN 366 ELSE 365
BY SMT DEF YearDays, Leap

\* The formula, with the era out of it.
LEMMA Formula ==
  ASSUME NEW y \in Int, NEW mo \in 1 .. 12, NEW dy \in Int
  PROVE  /\ mo <= 2 => DaysFromCivil(y, mo, dy)
                         = YearDays(y - 1) + DayOfYear(mo, dy) - EpochDay
         /\ mo > 2 => DaysFromCivil(y, mo, dy)
                        = YearDays(y) + DayOfYear(mo, dy) - EpochDay
<1>1. CASE mo <= 2
  BY <1>1, SMTT(10) DEF DaysFromCivil, DayOfEra, DayOfYear, YearDays, EraDays, EpochDay
<1>2. CASE mo > 2
  BY <1>2, SMTT(10) DEF DaysFromCivil, DayOfEra, DayOfYear, YearDays, EraDays, EpochDay
<1> QED BY <1>1, <1>2, SMT

\* Every month but February has the days that the formula counts for it.
LEMMA MonthLength ==
  ASSUME NEW y \in Int, NEW mo \in (1 .. 11) \ {2}
  PROVE  DayOfYear(mo + 1, 1) = DayOfYear(mo, MonthDays(y, mo)) + 1
<1>1. mo \in {1, 3, 4, 5, 6, 7, 8, 9, 10, 11}
  BY SMT
<1> QED BY <1>1, SMTT(20) DEF DayOfYear, MonthDays

\* The formula is right at the epoch ...
THEOREM EpochIsZero == DaysFromCivil(1970, 1, 1) = 0
BY SMTT(10) DEF DaysFromCivil, DayOfEra, DayOfYear, EraDays, EpochDay

\* ... and grows by one from any day of the calendar to the next.
THEOREM DaysFollow ==
  ASSUME NEW y \in Int, NEW mo \in 1 .. 12, NEW dy \in 1 .. MonthDays(y, mo)
  PROVE  LET next == NextDay(<<y, mo, dy>>)
         IN  DaysFromCivil(next[1], next[2], next[3]) = DaysFromCivil(y, mo, dy) + 1
<1>1. /\ MonthDays(y, mo) \in 28 .. 31 /\ dy \in Int
      /\ y - 1 \in Int /\ y + 1 \in Int
  BY SMT DEF MonthDays
<1>2. CASE dy < MonthDays(y, mo)
  <2>1. NextDay(<<y, mo, dy>>) = <<y, mo, dy + 1>>
    BY <1>2, SMT DEF NextDay
  <2>2. DaysFromCivil(y, mo, dy + 1) = DaysFromCivil(y, mo, dy) + 1
    BY <1>1, SMTT(10) DEF DaysFromCivil, DayOfEra, DayOfYear, EraDays, EpochDay
  <2> QED BY <2>1, <2>2, SMT
<1>3. CASE dy = MonthDays(y, mo) /\ mo # 12
  <2>1. NextDay(<<y, mo, dy>>) = <<y, mo + 1, 1>>
    BY <1>1, <1>3, SMT DEF NextDay
  <2>2. DaysFromCivil(y, mo + 1, 1) = DaysFromCivil(y, mo, dy) + 1
    <3>1. CASE mo = 1
      BY <1>1, <1>3, <3>1, SMTT(20)
         DEF DaysFromCivil, DayOfEra, DayOfYear, MonthDays, EraDays, EpochDay
    <3>2. CASE mo = 2
      <4>1. /\ DaysFromCivil(y, 3, 1) = YearDays(y) + DayOfYear(3, 1) - EpochDay
            /\ DaysFromCivil(y, 2, dy)
                 = YearDays(y - 1) + DayOfYear(2, dy) - EpochDay
        BY <1>1, Formula, SMT
      <4>2. DayOfYear(3, 1) = 0 /\ DayOfYear(2, dy) = 336 + dy
        BY <1>1, SMT DEF DayOfYear
      <4>3. /\ YearDays(y) - YearDays(y - 1) = dy + 337
            /\ YearDays(y) \in Int /\ YearDays(y - 1) \in Int /\ EpochDay \in Int
        BY <1>1, <1>3, <3>2, YearLength, SMT DEF MonthDays, YearDays, EpochDay
      <4> QED BY <1>1, <3>2, <4>1, <4>2, <4>3, SMT
    <3>3. CASE mo > 2
      <4>1. /\ DaysFromCivil(y, mo + 1, 1)
                 = YearDays(y) + DayOfYear(mo + 1, 1) - EpochDay
            /\ DaysFromCivil(y, mo, dy) = YearDays(y) + DayOfYear(mo, dy) - EpochDay
        BY <1>1, <1>3, <3>3, Formula, SMT
      <4>2. DayOfYear(mo + 1, 1) = DayOfYear(mo, dy) + 1
        BY <1>3, <3>3, MonthLength, SMT
      <4>3. YearDays(y) \in Int /\ DayOfYear(mo, dy) \in Int /\ EpochDay \in Int
        BY <1>1, SMT DEF YearDays, DayOfYear, EpochDay
      <4> QED BY <4>1, <4>2, <4>3, SMT
    <3> QED BY <1>3, <3>1, <3>2, <3>3, SMT
  <2> QED BY <2>1, <2>2, SMT
<1>4. CASE dy = MonthDays(y, mo) /\ mo = 12
  <2>1. NextDay(<<y, mo, dy>>) = <<y + 1, 1, 1>>
    BY <1>1, <1>4, SMT DEF NextDay
  <2>2. DaysFromCivil(y + 1, 1, 1) = DaysFromCivil(y, 12, 31) + 1
    BY SMTT(20) DEF DaysFromCivil, DayOfEra, DayOfYear, EraDays, EpochDay
  <2>3. dy = 31
    BY <1>4, SMT DEF MonthDays
  <2> QED BY <1>4, <2>1, <2>2, <2>3, SMT
<1> QED BY <1>1, <1>2, <1>3, <1>4, SMT

\* The days of the year y before the month after k, as timegm counts them.
Before(y) == LET before[k \in 0 .. 12] == IF k = 0 THEN 0 ELSE before[k - 1] + MonthDays(y, k)
             IN  before

LeapDay(y) == IF Leap(y) THEN 1 ELSE 0

\* The recursive function exists, for here it is, and so it is what its
\* definition says.
LEMMA BeforeIs ==
  ASSUME NEW y \in Int, NEW k \in 0 .. 12
  PROVE  Before(y)[k] = IF k = 0 THEN 0 ELSE Before(y)[k - 1] + MonthDays(y, k)
<1> DEFINE F(f) == [j \in 0 .. 12 |-> IF j = 0 THEN 0 ELSE f[j - 1] + MonthDays(y, j)]
           starts == [j \in 0 .. 12 |-> IF j < 2 THEN 31 * j
                                        ELSE DayOfYear(j + 1, 1) + 59 + LeapDay(y)]
<1>1. Before(y) = CHOOSE f : f = F(f)
  BY DEF Before
<1>2. starts = F(starts)
  <2> SUFFICES ASSUME NEW j \in 0 .. 12 PROVE starts[j] = F(starts)[j]
    OBVIOUS
  <2>1. j \in {0, 1, 2, 3, 4, 5, 6, 7, 8, 9, 10, 11, 12}
    OBVIOUS
  <2> QED BY <2>1 DEF MonthDays, DayOfYear, LeapDay
<1>3. Before(y) = F(Before(y))
  <2> HIDE DEF F, starts
  <2> QED BY <1>1, <1>2
<1> QED BY <1>3

\* The formula counts the days before a month from the first of March.
LEMMA MonthStarts ==
  ASSUME NEW y \in Int, NEW mo \in 1 .. 12
  PROVE  Before(y)[mo - 1] = IF mo <= 2 THEN 31 * (mo - 1)
                                        ELSE DayOfYear(mo, 1) + 59 + LeapDay(y)
<1>1. /\ Before(y)[0] = 0 /\ Before(y)[1] = 31 /\ Before(y)[2] = 59 + LeapDay(y)
  BY BeforeIs DEF MonthDays, LeapDay
<1>2. /\ Before(y)[3] = 90 + LeapDay(y) /\ Before(y)[4] = 120 + LeapDay(y)
      /\ Before(y)[5] = 151 + LeapDay(y) /\ Before(y)[6] = 181 + LeapDay(y)
  BY <1>1, BeforeIs DEF MonthDays, LeapDay
<1>3. /\ Before(y)[7] = 212 + LeapDay(y) /\ Before(y)[8] = 243 + LeapDay(y)
      /\ Before(y)[9] = 273 + LeapDay(y) /\ Before(y)[10] = 304 + LeapDay(y)
      /\ Before(y)[11] = 334 + LeapDay(y)
  BY <1>2, BeforeIs DEF MonthDays, LeapDay
<1>4. mo \in {1, 2, 3, 4, 5, 6, 7, 8, 9, 10, 11, 12}
  OBVIOUS
<1> HIDE DEF Before
<1> QED BY <1>1, <1>2, <1>3, <1>4 DEF DayOfYear

\* A finite set of numbers has a least one: no finite set is the smallest without.
LEMMA LeastExists ==
  ASSUME NEW P, IsFiniteSet(P), P \subseteq Nat, P # {}
  PROVE  \E p \in P : \A q \in P : p <= q
<1> DEFINE least(S) == \E p \in S : \A q \in S : p <= q
           wrong == {S \in SUBSET P : S # {} /\ ~least(S)}
<1>1. wrong = {}
  <2> SUFFICES ASSUME wrong # {} PROVE FALSE
    OBVIOUS
  <2>1. wrong \subseteq FiniteSubsetsOf(P)
    BY FS_FiniteSubsetsOfFinite
  <2>2. PICK S \in wrong : \A T \in wrong : <<T, S>> \notin StrictSubsetOrdering(P)
    BY <2>1, FS_StrictSubsetOrderingWellFounded, WFMin
  <2>3. PICK x \in S : TRUE
    OBVIOUS
  <2>4. S \subseteq P /\ ~least(S) /\ x \in Nat
    OBVIOUS
  <2>5. S \ {x} \notin wrong
    <3>1. S \in SUBSET P /\ S \ {x} \in SUBSET P /\ S \ {x} # S
      BY <2>4
    <3>2. <<S \ {x}, S>> \in StrictSubsetOrdering(P)
      BY <3>1 DEF StrictSubsetOrdering
    <3> HIDE DEF wrong
    <3> QED BY <2>2, <3>2
  <2>6. S \ {x} # {}
    <3> SUFFICES ASSUME S \ {x} = {} PROVE FALSE
      OBVIOUS
    <3>1. \A q \in S : q = x
      OBVIOUS
    <3> QED BY <2>4, <3>1
  <2>7. PICK y \in S \ {x} : \A q \in S \ {x} : y <= q
    BY <2>4, <2>5, <2>6
  <2>8. y \in Nat /\ \A q \in S : q \in Nat
    BY <2>4, <2>7
  <2>9. CASE x <= y
    <3>1. \A q \in S : x <= q
      BY <2>4, <2>7, <2>8, <2>9
    <3> QED BY <2>4, <3>1
  <2>10. CASE y <= x
    <3>1. \A q \in S : y <= q
      BY <2>4, <2>7, <2>8, <2>10
    <3> QED BY <2>4, <2>7, <3>1
  <2> QED BY <2>4, <2>8, <2>9, <2>10
<1> QED BY <1>1

\* Induction over an interval: there is no least number that is not in R.
LEMMA UpTo ==
  ASSUME NEW lo \in Nat, NEW hi \in Nat, NEW R, lo \in R,
         \A n \in lo + 1 .. hi : n - 1 \in R => n \in R
  PROVE  \A n \in lo .. hi : n \in R
<1> DEFINE rest == (lo .. hi) \ R
<1>1. rest = {}
  <2> SUFFICES ASSUME rest # {} PROVE FALSE
    OBVIOUS
  <2>1. IsFiniteSet(rest)
    <3>1. IsFiniteSet(lo .. hi)
      BY FS_Interval
    <3> QED BY <3>1, FS_Subset
  <2>2. PICK n \in rest : \A m \in rest : n <= m
    <3>1. rest \subseteq Nat
      OBVIOUS
    <3> HIDE DEF rest
    <3> QED BY <2>1, <3>1, LeastExists
  <2>3. n \in lo + 1 .. hi
    BY <2>2
  <2>4. n - 1 \in R
    BY <2>2, <2>3
  <2> QED BY <2>3, <2>4
<1> QED BY <1>1

\* The leap years from 1970 on, counted one by one, are those of the formula:
\* there is no first year where they are not.
LEMMA LeapYears ==
  ASSUME NEW y \in Nat, y >= 1970
  PROVE  Cardinality({k \in 1970 .. y - 1 : Leap(k)}) = YearDays(y - 1) - 719162 - 365 * (y - 1970)
<1> DEFINE leaps(z) == {k \in 1970 .. z - 1 : Leap(k)}
           right(z) == Cardinality(leaps(z)) = YearDays(z - 1) - 719162 - 365 * (z - 1970)
<1>1. ASSUME NEW z \in 1970 .. y PROVE IsFiniteSet(leaps(z))
  <2>1. IsFiniteSet(1970 .. z - 1)
    BY FS_Interval
  <2> QED BY <2>1, FS_Subset
<1>2. right(1970)
  <2>1. leaps(1970) = {}
    OBVIOUS
  <2> QED BY <2>1, FS_EmptySet DEF YearDays
<1>3. ASSUME NEW z \in 1971 .. y, right(z - 1) PROVE right(z)
  <2>1. leaps(z) = IF Leap(z - 1) THEN leaps(z - 1) \union {z - 1} ELSE leaps(z - 1)
    OBVIOUS
  <2>2. IsFiniteSet(leaps(z - 1)) /\ z - 1 \notin leaps(z - 1)
    BY <1>1
  <2>3. Cardinality(leaps(z)) = Cardinality(leaps(z - 1)) + LeapDay(z - 1)
    <3> HIDE DEF leaps
    <3>1. Cardinality(leaps(z - 1)) \in Nat
      BY <2>2, FS_CardinalityType
    <3> QED BY <2>1, <2>2, <3>1, FS_AddElement DEF LeapDay
  <2>4. YearDays(z - 1) = YearDays(z - 2) + 365 + LeapDay(z - 1)
    <3>1. YearDays(z - 1) - YearDays(z - 1 - 1) = IF Leap(z - 1) THEN 366 ELSE 365
      BY YearLength
    <3>2. z - 1 - 1 = z - 2 /\ YearDays(z - 2) \in Int /\ YearDays(z - 1) \in Int
      BY DEF YearDays
    <3> QED BY <3>1, <3>2 DEF LeapDay
  <2>5. YearDays(z - 2) \in Int /\ YearDays(z - 1) \in Int /\ LeapDay(z - 1) \in Int
    BY DEF YearDays, LeapDay
  <2>6. Cardinality(leaps(z - 1)) = YearDays(z - 2) - 719162 - 365 * (z - 1 - 1970)
    BY <1>3
  <2> HIDE DEF leaps
  <2> QED BY <2>3, <2>4, <2>5, <2>6
<1> HIDE DEF right
<1>4. \A z \in 1970 .. y : z \in {x \in 1970 .. y : right(x)}
  <2> DEFINE R == {x \in 1970 .. y : right(x)}
  <2>1. 1970 \in R /\ \A z \in 1971 .. y : z - 1 \in R => z \in R
    BY <1>2, <1>3
  <2> HIDE DEF R
  <2>2. \A z \in 1970 .. y : z \in R
    BY <2>1, UpTo
  <2> QED BY <2>2 DEF R
<1>5. right(y)
  BY <1>4
<1> QED BY <1>5 DEF right

\* ndp_parseIso8601Nanos and timegm agree on every date from 1970 on: Hinnant's
\* formula is the count of the days.
THEOREM DaysAreCounted ==
  ASSUME NEW y \in Nat, y >= 1970, NEW mo \in 1 .. 12, NEW dy \in Nat
  PROVE  DaysFromCivil(y, mo, dy) = DaysCounted(y, mo, dy)
<1> DEFINE leaps == {k \in 1970 .. y - 1 : Leap(k)}
<1>1. DaysCounted(y, mo, dy)
        = 365 * (y - 1970) + Cardinality(leaps) + Before(y)[mo - 1] + dy - 1
  BY DEF DaysCounted, Before
<1>2. Cardinality(leaps) = YearDays(y - 1) - 719162 - 365 * (y - 1970)
  BY LeapYears
<1> HIDE DEF leaps
<1>3. DayOfYear(mo, dy) = DayOfYear(mo, 1) + dy - 1 /\ DayOfYear(mo, 1) \in Int
  BY DEF DayOfYear
<1>4. YearDays(y - 1) \in Int /\ YearDays(y) = YearDays(y - 1) + 365 + LeapDay(y) /\ LeapDay(y) \in Int
  BY YearLength DEF YearDays, LeapDay
<1>5. CASE mo <= 2
  <2>1. DayOfYear(mo, 1) = 306 + 31 * (mo - 1)
    BY <1>5 DEF DayOfYear
  <2>2. DaysFromCivil(y, mo, dy) = YearDays(y - 1) + DayOfYear(mo, dy) - EpochDay
    BY <1>5, Formula
  <2>3. Before(y)[mo - 1] = 31 * (mo - 1)
    BY <1>5, MonthStarts
  <2> QED BY <1>1, <1>2, <1>3, <1>4, <2>1, <2>2, <2>3 DEF EpochDay
<1>6. CASE mo > 2
  <2>1. DaysFromCivil(y, mo, dy) = YearDays(y) + DayOfYear(mo, dy) - EpochDay
    BY <1>6, Formula
  <2>2. Before(y)[mo - 1] = DayOfYear(mo, 1) + 59 + LeapDay(y)
    BY <1>6, MonthStarts
  <2> QED BY <1>1, <1>2, <1>3, <1>4, <2>1, <2>2 DEF EpochDay
<1> QED BY <1>5, <1>6
Powers(p) == [k \in 0 .. 9 |-> IF k = 0 THEN 1 ELSE 10 * p[k - 1]]
Spelling(v, digits, n) == [k \in 0 .. n |-> IF k = 0 THEN 0 ELSE 10 * v[k - 1] + digits[k]]
Weighing(s, digits) ==
  [k \in 0 .. 9 |-> IF k = 0 THEN 0 ELSE s[k - 1] + digits[k] * Pow10(9 - k)]

\* POW10 holds the powers of ten.
LEMMA PowersAre ==
  /\ Pow10(0) = 1 /\ \A n \in 1 .. 9 : Pow10(n) = 10 * Pow10(n - 1)
  /\ \A n \in 0 .. 9 : Pow10(n) \in Nat
<1> DEFINE p == CHOOSE f : f = Powers(f)
           q == [k \in 0 .. 9 |->
                   IF k = 0 THEN 1 ELSE IF k = 1 THEN 10 ELSE IF k = 2 THEN 100
                   ELSE IF k = 3 THEN 1000 ELSE IF k = 4 THEN 10000
                   ELSE IF k = 5 THEN 100000 ELSE IF k = 6 THEN 1000000
                   ELSE IF k = 7 THEN 10000000 ELSE IF k = 8 THEN 100000000 ELSE 1000000000]
<1>1. \A n : Pow10(n) = p[n]
  BY SMT DEF Pow10, Powers
<1>2. q = Powers(q)
  <2> SUFFICES ASSUME NEW k \in 0 .. 9 PROVE q[k] = Powers(q)[k]
    BY SMT DEF Powers
  <2>1. k \in {0, 1, 2, 3, 4, 5, 6, 7, 8, 9}
    BY SMT
  <2> QED BY <2>1, SMT DEF Powers
<1>3. p = Powers(p)
  <2> HIDE DEF q
  <2> QED BY <1>2
<1>4. p[0] = 1 /\ \A k \in 1 .. 9 : p[k] = 10 * p[k - 1]
  <2> HIDE DEF p
  <2> QED BY <1>3 DEF Powers
<1> HIDE DEF p, q
<1>5. \A n \in 0 .. 9 : p[n] \in Nat
  <2> DEFINE R == {n \in 0 .. 9 : p[n] \in Nat}
  <2>1. 0 \in R /\ \A n \in 0 + 1 .. 9 : n - 1 \in R => n \in R
    BY <1>4
  <2> HIDE DEF R
  <2>2. \A n \in 0 .. 9 : n \in R
    BY <2>1, UpTo
  <2> QED BY <2>2 DEF R
<1> QED BY <1>1, <1>4, <1>5

\* The recursive functions of Spelt and Fixed9.
Spelled(d) == CHOOSE v : v = Spelling(v, d, 9)
Weighed(d) == CHOOSE s : s = Weighing(s, d)

\* What the recursive functions of the digits are: they exist, for here they are.
LEMMA SpeltIs ==
  ASSUME NEW d, \A k \in 1 .. 9 : d[k] \in Nat
  PROVE  Spelled(d) = Spelling(Spelled(d), d, 9) /\ Spelt(d, 9) = Spelled(d)[9]
<1> DEFINE a1 == 10 * 0 + d[1]
           a2 == 10 * a1 + d[2]
           a3 == 10 * a2 + d[3]
           a4 == 10 * a3 + d[4]
           a5 == 10 * a4 + d[5]
           a6 == 10 * a5 + d[6]
           a7 == 10 * a6 + d[7]
           a8 == 10 * a7 + d[8]
           a9 == 10 * a8 + d[9]
           w == [k \in 0 .. 9 |->
                   IF k = 0 THEN 0 ELSE IF k = 1 THEN a1 ELSE IF k = 2 THEN a2
                   ELSE IF k = 3 THEN a3 ELSE IF k = 4 THEN a4 ELSE IF k = 5 THEN a5
                   ELSE IF k = 6 THEN a6 ELSE IF k = 7 THEN a7 ELSE IF k = 8 THEN a8 ELSE a9]
<1>1. Spelt(d, 9) = Spelled(d)[9]
  BY DEF Spelt, Spelled, Spelling
<1>2. w = Spelling(w, d, 9)
  <2> SUFFICES ASSUME NEW k \in 0 .. 9 PROVE w[k] = Spelling(w, d, 9)[k]
    BY DEF Spelling
  <2>1. k \in {0, 1, 2, 3, 4, 5, 6, 7, 8, 9}
    OBVIOUS
  <2> QED BY <2>1 DEF Spelling
<1>3. Spelled(d) = Spelling(Spelled(d), d, 9)
  <2> HIDE DEF w
  <2> QED BY <1>2 DEF Spelled
<1> QED BY <1>1, <1>3

LEMMA Fixed9Is ==
  ASSUME NEW d, \A k \in 1 .. 9 : d[k] \in Nat
  PROVE  Weighed(d) = Weighing(Weighed(d), d) /\ Fixed9(d) = Weighed(d)[9]
<1> DEFINE a1 == 0 + d[1] * Pow10(8)
           a2 == a1 + d[2] * Pow10(7)
           a3 == a2 + d[3] * Pow10(6)
           a4 == a3 + d[4] * Pow10(5)
           a5 == a4 + d[5] * Pow10(4)
           a6 == a5 + d[6] * Pow10(3)
           a7 == a6 + d[7] * Pow10(2)
           a8 == a7 + d[8] * Pow10(1)
           a9 == a8 + d[9] * Pow10(0)
           w == [k \in 0 .. 9 |->
                   IF k = 0 THEN 0 ELSE IF k = 1 THEN a1 ELSE IF k = 2 THEN a2
                   ELSE IF k = 3 THEN a3 ELSE IF k = 4 THEN a4 ELSE IF k = 5 THEN a5
                   ELSE IF k = 6 THEN a6 ELSE IF k = 7 THEN a7 ELSE IF k = 8 THEN a8 ELSE a9]
<1>1. Fixed9(d) = Weighed(d)[9]
  BY DEF Fixed9, Weighed, Weighing
<1>2. w = Weighing(w, d)
  <2> SUFFICES ASSUME NEW k \in 0 .. 9 PROVE w[k] = Weighing(w, d)[k]
    BY DEF Weighing
  <2>1. k \in {0, 1, 2, 3, 4, 5, 6, 7, 8, 9}
    OBVIOUS
  <2> QED BY <2>1 DEF Weighing
<1>3. Weighed(d) = Weighing(Weighed(d), d)
  <2> HIDE DEF w
  <2> QED BY <1>2 DEF Weighed
<1> QED BY <1>1, <1>3

\* parse_nanos_fixed9 and the loop with POW10 read the same nanoseconds from a
\* text of nine digits or more.
THEOREM FractionsAgree ==
  ASSUME NEW digits \in Seq(0 .. 9), Len(digits) >= 9
  PROVE  Fixed9(digits) = Fraction(digits)
<1>1. \A k \in 1 .. 9 : digits[k] \in Nat
  BY SMT
<1> DEFINE v == Spelled(digits)
           s == Weighed(digits)
<1>2. v = Spelling(v, digits, 9) /\ Spelt(digits, 9) = v[9]
  BY <1>1, SpeltIs
<1>3. s = Weighing(s, digits) /\ Fixed9(digits) = s[9]
  BY <1>1, Fixed9Is
<1> HIDE DEF v, s
<1>4. Fraction(digits) = v[9] * 1
  <2>1. AtMost9(Len(digits)) = 9
    BY SMT DEF AtMost9
  <2>2. Fraction(digits) = Spelt(digits, 9) * Pow10(0)
    BY <2>1, SMT DEF Fraction
  <2>3. Pow10(0) = 1
    BY PowersAre, Zenon
  <2> QED BY <1>2, <2>2, <2>3, Zenon
<1>5. /\ v[0] = 0 /\ s[0] = 0
      /\ \A k \in 1 .. 9 : v[k] = 10 * v[k - 1] + digits[k]
      /\ \A k \in 1 .. 9 : s[k] = s[k - 1] + digits[k] * Pow10(9 - k)
  BY <1>2, <1>3, SMT DEF Spelling, Weighing
<1>6. ASSUME NEW k \in 1 .. 9, v[k - 1] \in Nat, s[k - 1] = Pow10(10 - k) * v[k - 1]
      PROVE  v[k] \in Nat /\ s[k] = Pow10(9 - k) * v[k]
  <2>1. PICK n \in Nat : n = Pow10(9 - k)
    <3>1. 9 - k \in 0 .. 9
      OBVIOUS
    <3> QED BY <3>1, PowersAre, Zenon
  <2>2. Pow10(10 - k) = 10 * n
    <3>1. 10 - k \in 1 .. 9 /\ 10 - k - 1 = 9 - k
      OBVIOUS
    <3> QED BY <2>1, <3>1, PowersAre, Zenon
  <2>3. PICK a \in Nat, d \in Nat : a = v[k - 1] /\ d = digits[k]
    BY <1>1, <1>6
  <2>4. v[k] = 10 * a + d /\ s[k] = (10 * n) * a + d * n
    BY <1>5, <1>6, <2>1, <2>2, <2>3, Zenon
  <2>5. (10 * n) * a + d * n = n * (10 * a + d)
    OBVIOUS
  <2> QED BY <2>1, <2>4, <2>5
<1>7. v[9] \in Nat /\ s[9] = Pow10(0) * v[9]
  <2> DEFINE R == {k \in 0 .. 9 : v[k] \in Nat /\ s[k] = Pow10(9 - k) * v[k]}
  <2>1. 0 \in R
    <3>1. PICK n \in Nat : n = Pow10(9 - 0)
      <4>1. 9 - 0 \in 0 .. 9
        OBVIOUS
      <4> QED BY <4>1, PowersAre, Zenon
    <3>2. 0 = n * 0 /\ 0 \in Nat /\ 0 \in 0 .. 9
      OBVIOUS
    <3> QED BY <1>5, <3>1, <3>2, Zenon
  <2>2. ASSUME NEW k \in 0 + 1 .. 9, k - 1 \in R PROVE k \in R
    <3>1. k \in 1 .. 9 /\ 9 - (k - 1) = 10 - k
      OBVIOUS
    <3>2. v[k - 1] \in Nat /\ s[k - 1] = Pow10(9 - (k - 1)) * v[k - 1]
      BY <2>2, Zenon
    <3>3. s[k - 1] = Pow10(10 - k) * v[k - 1]
      BY <3>1, <3>2, Zenon
    <3>4. v[k] \in Nat /\ s[k] = Pow10(9 - k) * v[k]
      BY <1>6, <3>1, <3>2, <3>3, Zenon
    <3>5. k \in 0 .. 9
      OBVIOUS
    <3> QED BY <3>4, <3>5, Zenon
  <2> HIDE DEF R
  <2>3. \A k \in 0 .. 9 : k \in R
    BY <2>1, <2>2, UpTo
  <2>4. 9 \in R
    BY <2>3
  <2> QED BY <2>4 DEF R
<1>8. s[9] = v[9] * 1
  <2>1. s[9] = 1 * v[9]
    BY <1>7, PowersAre, Zenon
  <2>2. PICK a \in Nat : a = v[9]
    BY <1>7, Zenon
  <2> QED BY <2>1, <2>2
<1> QED BY <1>3, <1>4, <1>8, Zenon
-----------------------------------------------------------------------------
(* The tokens of a line *)

Keys == {"hd", "instrument_id", "ts_event", "ts_recv", "order_id", "size", "symbol", "price"}
Token == {Q, "open", "close", "comma", "colon", "symbolText", "null", TornNull}
         \union Keys \union DOMAIN Stamp \union DOMAIN Number \union DOMAIN PriceText

\* The texts that the tables give a value.
LEMMA TablesAre ==
  /\ DOMAIN Stamp = {"stamp1", "stamp2", "stamp3", "stamp4"}
  /\ DOMAIN Number = {"n1", "n2", "n3", "torn"}
  /\ DOMAIN PriceText = {"price1", "price2", "torn"}
BY DEF Stamp, Number, PriceText

\* The four parts of a line.
HdTokens(l) ==
  <<Q, "hd", Q, "colon", "open", Q, "instrument_id", Q, "colon", l.instrument_id, "comma",
    Q, "ts_event", Q, "colon", Q, l.ts_event, Q, "close">>
RecvTokens(l) == <<Q, "ts_recv", Q, "colon", Q, l.ts_recv, Q>>
RestTokens(l) ==
  <<Q, "order_id", Q, "colon", Q, l.order_id, Q, "comma",
    Q, "size", Q, "colon", l.size, "comma",
    Q, "symbol", Q, "colon", Q, "symbolText", Q, "comma">>
PriceTokens(l) ==
  IF l.price = "null" THEN <<Q, "price", Q, "colon", "null">>
  ELSE <<Q, "price", Q, "colon", Q, l.price, Q>>

\* u is s followed by t.
IsJoin(u, s, t) ==
  /\ Len(u) = Len(s) + Len(t)
  /\ \A i \in 1 .. Len(s) : u[i] = s[i]
  /\ \A i \in 1 .. Len(t) : u[Len(s) + i] = t[i]

\* A sequence that is s followed by t is s \o t.
LEMMA Joins ==
  ASSUME NEW S, NEW s \in Seq(S), NEW t \in Seq(S), NEW u \in Seq(S), IsJoin(u, s, t)
  PROVE  s \o t = u
BY DEF IsJoin

\* The texts of a line, the names and the punctuation are tokens.
LEMMA TextsAreTokens ==
  ASSUME NEW l \in Line
  PROVE  /\ l.instrument_id \in Token /\ l.ts_event \in Token /\ l.ts_recv \in Token
         /\ l.order_id \in Token /\ l.size \in Token /\ l.price \in Token
         /\ Q \in Token /\ "open" \in Token /\ "close" \in Token /\ "comma" \in Token
         /\ "colon" \in Token /\ "symbolText" \in Token /\ "null" \in Token
         /\ Keys \subseteq Token
BY DEF Line, Token

\* A value with its name, bare and between quotes.
LEMMA NamedTexts ==
  ASSUME NEW name \in Token, NEW v \in Token
  PROVE  /\ Named(name, <<v>>) = <<Q, name, Q, "colon", v>>
         /\ Named(name, Quoted(v)) = <<Q, name, Q, "colon", Q, v, Q>>
         /\ Named(name, <<v>>) \in Seq(Token) /\ Named(name, Quoted(v)) \in Seq(Token)
<1>1. Q \in Token /\ "colon" \in Token
  BY DEF Token
<1>2. IsJoin(<<Q, name, Q, "colon", v>>, <<Q, name, Q, "colon">>, <<v>>)
  BY DEF IsJoin
<1>3. IsJoin(<<Q, name, Q, "colon", Q, v, Q>>, <<Q, name, Q, "colon">>, <<Q, v, Q>>)
  BY DEF IsJoin
<1>4. /\ <<Q, name, Q, "colon", v>> \in Seq(Token) /\ <<v>> \in Seq(Token)
      /\ <<Q, name, Q, "colon", Q, v, Q>> \in Seq(Token) /\ <<Q, v, Q>> \in Seq(Token)
      /\ <<Q, name, Q, "colon">> \in Seq(Token)
  BY <1>1
<1>5. Named(name, <<v>>) = <<Q, name, Q, "colon", v>>
  BY <1>2, <1>4, Joins DEF Named
<1>6. Named(name, Quoted(v)) = <<Q, name, Q, "colon", Q, v, Q>>
  BY <1>3, <1>4, Joins DEF Named, Quoted
<1> QED BY <1>4, <1>5, <1>6

\* The object hd of a line, token by token.
LEMMA HdIs ==
  ASSUME NEW l \in Line
  PROVE  /\ HdTokens(l) \in Seq(Token)
         /\ HdTokens(l) = Named("hd", <<"open">> \o Named("instrument_id", <<l.instrument_id>>)
              \o <<"comma">> \o Named("ts_event", Quoted(l.ts_event)) \o <<"close">>)
<1> DEFINE a == l.instrument_id
           b == l.ts_event
           s1 == Named("instrument_id", <<a>>)
           s2 == <<"open">> \o s1
           s3 == s2 \o <<"comma">>
           e == Named("ts_event", Quoted(b))
           s4 == s3 \o e
           s5 == s4 \o <<"close">>
<1>1. /\ a \in Token /\ b \in Token /\ Q \in Token /\ "open" \in Token /\ "close" \in Token
      /\ "comma" \in Token /\ "colon" \in Token /\ "hd" \in Token
      /\ "instrument_id" \in Token /\ "ts_event" \in Token
  BY TextsAreTokens DEF Keys
<1> HIDE DEF a, b
<1>2. s1 = <<Q, "instrument_id", Q, "colon", a>> /\ s1 \in Seq(Token)
  BY <1>1, NamedTexts
<1>3. e = <<Q, "ts_event", Q, "colon", Q, b, Q>> /\ e \in Seq(Token)
  BY <1>1, NamedTexts
<1>4. <<"open">> \in Seq(Token) /\ <<"close">> \in Seq(Token) /\ <<"comma">> \in Seq(Token)
  BY <1>1
<1> HIDE DEF s1, e
<1> HIDE DEF s2, s3, s4, s5
<1>5. /\ s2 = <<"open", Q, "instrument_id", Q, "colon", a>>
      /\ s2 \in Seq(Token)
  <2> DEFINE u == <<"open", Q, "instrument_id", Q, "colon", a>>
  <2>1. IsJoin(u, <<"open">>, s1)
    BY <1>2 DEF IsJoin
  <2>2. u \in Seq(Token)
    BY <1>1
  <2> HIDE DEF u
  <2>3. <<"open">> \o s1 = u
    BY <1>2, <1>3, <1>4, <1>2, <2>1, <2>2, Joins
  <2> QED BY <2>2, <2>3 DEF s2, u
<1>6. /\ s3 = <<"open", Q, "instrument_id", Q, "colon", a, "comma">>
      /\ s3 \in Seq(Token)
  <2> DEFINE u == <<"open", Q, "instrument_id", Q, "colon", a, "comma">>
  <2>1. IsJoin(u, s2, <<"comma">>)
    BY <1>5 DEF IsJoin
  <2>2. u \in Seq(Token)
    BY <1>1
  <2> HIDE DEF u
  <2>3. s2 \o <<"comma">> = u
    BY <1>2, <1>3, <1>4, <1>5, <2>1, <2>2, Joins
  <2> QED BY <2>2, <2>3 DEF s3, u
<1>7. /\ s4 = <<"open", Q, "instrument_id", Q, "colon", a, "comma",
          Q, "ts_event", Q, "colon", Q, b, Q>>
      /\ s4 \in Seq(Token)
  <2> DEFINE u == <<"open", Q, "instrument_id", Q, "colon", a, "comma",
          Q, "ts_event", Q, "colon", Q, b, Q>>
  <2>1. IsJoin(u, s3, e)
    BY <1>3, <1>6 DEF IsJoin
  <2>2. u \in Seq(Token)
    BY <1>1
  <2> HIDE DEF u
  <2>3. s3 \o e = u
    BY <1>2, <1>3, <1>4, <1>3, <1>6, <2>1, <2>2, Joins
  <2> QED BY <2>2, <2>3 DEF s4, u
<1>8. /\ s5 = <<"open", Q, "instrument_id", Q, "colon", a, "comma",
          Q, "ts_event", Q, "colon", Q, b, Q, "close">>
      /\ s5 \in Seq(Token)
  <2> DEFINE u == <<"open", Q, "instrument_id", Q, "colon", a, "comma",
          Q, "ts_event", Q, "colon", Q, b, Q, "close">>
  <2>1. IsJoin(u, s4, <<"close">>)
    BY <1>7 DEF IsJoin
  <2>2. u \in Seq(Token)
    BY <1>1
  <2> HIDE DEF u
  <2>3. s4 \o <<"close">> = u
    BY <1>2, <1>3, <1>4, <1>7, <2>1, <2>2, Joins
  <2> QED BY <2>2, <2>3 DEF s5, u
<1>9. HdTokens(l) \in Seq(Token)
  BY <1>1 DEF HdTokens, a, b
<1>10. Named("hd", s5) = HdTokens(l)
  <2>1. IsJoin(HdTokens(l), <<Q, "hd", Q, "colon">>, s5)
    BY <1>8 DEF IsJoin, HdTokens, a, b
  <2>2. <<Q, "hd", Q, "colon">> \in Seq(Token)
    BY <1>1
  <2> QED BY <1>8, <1>9, <2>1, <2>2, Joins DEF Named
<1> QED BY <1>9, <1>10 DEF s1, s2, s3, s4, s5, e, a, b

\* The field ts_recv of a line, token by token.
LEMMA RecvIs ==
  ASSUME NEW l \in Line
  PROVE  /\ RecvTokens(l) \in Seq(Token)
         /\ RecvTokens(l) = Named("ts_recv", Quoted(l.ts_recv))
<1> DEFINE a == l.ts_recv
<1>1. a \in Token /\ "ts_recv" \in Token
  BY TextsAreTokens DEF Keys
<1> HIDE DEF a
<1>2. /\ Named("ts_recv", Quoted(a)) = <<Q, "ts_recv", Q, "colon", Q, a, Q>>
      /\ Named("ts_recv", Quoted(a)) \in Seq(Token)
  BY <1>1, NamedTexts
<1>3. RecvTokens(l) = <<Q, "ts_recv", Q, "colon", Q, a, Q>>
  BY DEF RecvTokens, a
<1> QED BY <1>2, <1>3 DEF a

\* The fields from order_id on to the comma before price, token by token.
LEMMA RestIs ==
  ASSUME NEW l \in Line
  PROVE  /\ RestTokens(l) \in Seq(Token)
         /\ RestTokens(l) =
              Named("order_id", Quoted(l.order_id)) \o <<"comma">>
              \o Named("size", <<l.size>>) \o <<"comma">>
              \o Named("symbol", Quoted("symbolText")) \o <<"comma">>
<1> DEFINE a == l.order_id
           b == l.size
           s1 == Named("order_id", Quoted(a))
           s2 == s1 \o <<"comma">>
           e == Named("size", <<b>>)
           s3 == s2 \o e
           s4 == s3 \o <<"comma">>
           y == Named("symbol", Quoted("symbolText"))
           s5 == s4 \o y
           s6 == s5 \o <<"comma">>
<1>1. /\ a \in Token /\ b \in Token /\ Q \in Token /\ "comma" \in Token /\ "colon" \in Token
      /\ "order_id" \in Token /\ "size" \in Token /\ "symbol" \in Token /\ "symbolText" \in Token
  BY TextsAreTokens DEF Keys
<1> HIDE DEF a, b
<1>2. s1 = <<Q, "order_id", Q, "colon", Q, a, Q>> /\ s1 \in Seq(Token)
  BY <1>1, NamedTexts
<1>3. e = <<Q, "size", Q, "colon", b>> /\ e \in Seq(Token)
  BY <1>1, NamedTexts
<1>4. /\ y = <<Q, "symbol", Q, "colon", Q, "symbolText", Q>> /\ y \in Seq(Token)
      /\ <<"comma">> \in Seq(Token)
  <2>1. /\ Named("symbol", Quoted("symbolText")) = <<Q, "symbol", Q, "colon", Q, "symbolText", Q>>
        /\ Named("symbol", Quoted("symbolText")) \in Seq(Token)
    BY <1>1, NamedTexts
  <2>2. <<"comma">> \in Seq(Token)
    BY <1>1
  <2> QED BY <2>1, <2>2 DEF y
<1> HIDE DEF s1, e, y
<1> HIDE DEF s2, s3, s4, s5, s6
<1>5. /\ s2 = <<Q, "order_id", Q, "colon", Q, a, Q, "comma">>
      /\ s2 \in Seq(Token)
  <2> DEFINE u == <<Q, "order_id", Q, "colon", Q, a, Q, "comma">>
  <2>1. IsJoin(u, s1, <<"comma">>)
    BY <1>2 DEF IsJoin
  <2>2. u \in Seq(Token)
    BY <1>1
  <2> HIDE DEF u
  <2>3. s1 \o <<"comma">> = u
    BY <1>2, <1>3, <1>4, <1>2, <2>1, <2>2, Joins
  <2> QED BY <2>2, <2>3 DEF s2, u
<1>6. /\ s3 = <<Q, "order_id", Q, "colon", Q, a, Q, "comma",
          Q, "size", Q, "colon", b>>
      /\ s3 \in Seq(Token)
  <2> DEFINE u == <<Q, "order_id", Q, "colon", Q, a, Q, "comma",
          Q, "size", Q, "colon", b>>
  <2>1. IsJoin(u, s2, e)
    BY <1>3, <1>5 DEF IsJoin
  <2>2. u \in Seq(Token)
    BY <1>1
  <2> HIDE DEF u
  <2>3. s2 \o e = u
    BY <1>2, <1>3, <1>4, <1>3, <1>5, <2>1, <2>2, Joins
  <2> QED BY <2>2, <2>3 DEF s3, u
<1>7. /\ s4 = <<Q, "order_id", Q, "colon", Q, a, Q, "comma",
          Q, "size", Q, "colon", b, "comma">>
      /\ s4 \in Seq(Token)
  <2> DEFINE u == <<Q, "order_id", Q, "colon", Q, a, Q, "comma",
          Q, "size", Q, "colon", b, "comma">>
  <2>1. IsJoin(u, s3, <<"comma">>)
    BY <1>6 DEF IsJoin
  <2>2. u \in Seq(Token)
    BY <1>1
  <2> HIDE DEF u
  <2>3. s3 \o <<"comma">> = u
    BY <1>2, <1>3, <1>4, <1>6, <2>1, <2>2, Joins
  <2> QED BY <2>2, <2>3 DEF s4, u
<1>8. /\ s5 = <<Q, "order_id", Q, "colon", Q, a, Q, "comma",
          Q, "size", Q, "colon", b, "comma",
          Q, "symbol", Q, "colon", Q, "symbolText", Q>>
      /\ s5 \in Seq(Token)
  <2> DEFINE u == <<Q, "order_id", Q, "colon", Q, a, Q, "comma",
          Q, "size", Q, "colon", b, "comma",
          Q, "symbol", Q, "colon", Q, "symbolText", Q>>
  <2>1. IsJoin(u, s4, y)
    BY <1>4, <1>7 DEF IsJoin
  <2>2. u \in Seq(Token)
    BY <1>1
  <2> HIDE DEF u
  <2>3. s4 \o y = u
    BY <1>2, <1>3, <1>4, <1>4, <1>7, <2>1, <2>2, Joins
  <2> QED BY <2>2, <2>3 DEF s5, u
<1>9. /\ s6 = <<Q, "order_id", Q, "colon", Q, a, Q, "comma",
          Q, "size", Q, "colon", b, "comma",
          Q, "symbol", Q, "colon", Q, "symbolText", Q, "comma">>
      /\ s6 \in Seq(Token)
  <2> DEFINE u == <<Q, "order_id", Q, "colon", Q, a, Q, "comma",
          Q, "size", Q, "colon", b, "comma",
          Q, "symbol", Q, "colon", Q, "symbolText", Q, "comma">>
  <2>1. IsJoin(u, s5, <<"comma">>)
    BY <1>8 DEF IsJoin
  <2>2. u \in Seq(Token)
    BY <1>1
  <2> HIDE DEF u
  <2>3. s5 \o <<"comma">> = u
    BY <1>2, <1>3, <1>4, <1>8, <2>1, <2>2, Joins
  <2> QED BY <2>2, <2>3 DEF s6, u
<1>10. RestTokens(l) = s6
  BY <1>9 DEF RestTokens, a, b
<1> QED BY <1>9, <1>10 DEF s1, s2, s3, s4, s5, s6, e, y, a, b

\* The price of a line, quoted or null, token by token.
LEMMA PriceIs ==
  ASSUME NEW l \in Line
  PROVE  /\ PriceTokens(l) \in Seq(Token)
         /\ PriceTokens(l) = Named("price", IF l.price = "null" THEN <<"null">> ELSE Quoted(l.price))
<1>1. l.price \in Token /\ "price" \in Token /\ "null" \in Token
  BY TextsAreTokens DEF Keys
<1>2. CASE l.price = "null"
  BY <1>1, <1>2, NamedTexts DEF PriceTokens
<1>3. CASE l.price # "null"
  BY <1>1, <1>3, NamedTexts DEF PriceTokens
<1> QED BY <1>2, <1>3

\* s is in t, after the first o.
Within(s, t, o) == o + Len(s) <= Len(t) /\ \A i \in 1 .. Len(s) : t[o + i] = s[i]

\* Both halves of s \o t are in it.
LEMMA JoinedWithin ==
  ASSUME NEW s \in Seq(Token), NEW t \in Seq(Token)
  PROVE  s \o t \in Seq(Token) /\ Len(s \o t) = Len(s) + Len(t)
         /\ Within(s, s \o t, 0) /\ Within(t, s \o t, Len(s))
BY DEF Within

\* What is in a part is in the whole.
LEMMA WithinWithin ==
  ASSUME NEW t \in Seq(Token), NEW s \in Seq(Token), NEW u \in Seq(Token),
         NEW o \in Nat, NEW p \in Nat, Within(s, t, o), Within(u, s, p)
  PROVE  Within(u, t, o + p)
<1>1. o + p + Len(u) <= Len(t)
  BY DEF Within
<1>2. ASSUME NEW i \in 1 .. Len(u) PROVE t[o + p + i] = u[i]
  <2>1. p + i \in 1 .. Len(s)  /\ o + (p + i) = o + p + i
    BY DEF Within
  <2>2. t[o + (p + i)] = s[p + i]
    BY <2>1 DEF Within
  <2>3. s[p + i] = u[i]
    BY DEF Within
  <2> QED BY <2>1, <2>2, <2>3
<1> QED BY <1>1, <1>2 DEF Within

\* Where the parts come, and how many tokens there are.
HdAt(l) == IF l.hdFirst THEN 1 ELSE 9
RecvAt(l) == IF l.hdFirst THEN 21 ELSE 1
Width(l) == IF l.price = "null" THEN 57 ELSE 59

\* t is the text of l, as its parts.
IsText(t, l) ==
  /\ t \in Seq(Token) /\ Len(t) = Width(l)
  /\ t[1] = "open" /\ t[Width(l)] = "close"
  /\ t[IF l.hdFirst THEN 21 ELSE 9] = "comma" /\ t[29] = "comma"
  /\ Within(HdTokens(l), t, HdAt(l)) /\ Within(RecvTokens(l), t, RecvAt(l))
  /\ Within(RestTokens(l), t, 29) /\ Within(PriceTokens(l), t, 51)

\* The text of a line has its parts where they belong.
LEMMA TextIs == ASSUME NEW l \in Line PROVE IsText(Text(l), l)
<1> DEFINE hd == HdTokens(l)
           recv == RecvTokens(l)
           rest == RestTokens(l)
           price == PriceTokens(l)
           open == <<"open">>
           comma == <<"comma">>
           close == <<"close">>
           first == IF l.hdFirst THEN hd ELSE recv
           second == IF l.hdFirst THEN recv ELSE hd
           m1 == first \o comma
           m == m1 \o second
           t1 == open \o m
           t2 == t1 \o comma
           tail == rest \o price
           t3 == t2 \o tail
           t == t3 \o close
<1>1. /\ hd \in Seq(Token) /\ Len(hd) = 19 /\ recv \in Seq(Token) /\ Len(recv) = 7
      /\ rest \in Seq(Token) /\ Len(rest) = 22
      /\ price \in Seq(Token) /\ Len(price) = Width(l) - 52
  <2>1. Len(hd) = 19 /\ Len(recv) = 7 /\ Len(rest) = 22
    BY DEF HdTokens, RecvTokens, RestTokens
  <2>2. Len(price) = Width(l) - 52
    BY DEF PriceTokens, Width
  <2> QED BY <2>1, <2>2, HdIs, RecvIs, RestIs, PriceIs
<1>2. /\ open \in Seq(Token) /\ Len(open) = 1 /\ open[1] = "open"
      /\ comma \in Seq(Token) /\ Len(comma) = 1 /\ comma[1] = "comma"
      /\ close \in Seq(Token) /\ Len(close) = 1 /\ close[1] = "close"
  BY TextsAreTokens
<1>3. Text(l) = t
  BY HdIs, RecvIs, RestIs, PriceIs DEF Text
<1> HIDE DEF hd, recv, rest, price, open, comma, close
<1>4. /\ first \in Seq(Token) /\ second \in Seq(Token)
      /\ Len(first) = (IF l.hdFirst THEN 19 ELSE 7) /\ Len(second) = (IF l.hdFirst THEN 7 ELSE 19)
  BY <1>1
<1> HIDE DEF first, second, m1, m, t1, t2, tail, t3, t
<1>5. /\ m1 \in Seq(Token) /\ Len(m1) = Len(first) + 1
      /\ Within(first, m1, 0) /\ Within(comma, m1, Len(first))
  <2>1. /\ first \o comma \in Seq(Token) /\ Len(first \o comma) = Len(first) + Len(comma)
        /\ Within(first, first \o comma, 0) /\ Within(comma, first \o comma, Len(first))
    BY <1>2, <1>4, JoinedWithin
  <2> QED BY <1>2, <1>4, <2>1 DEF m1
<1>6. /\ m \in Seq(Token) /\ Len(m) = 27
      /\ Within(m1, m, 0) /\ Within(second, m, Len(first) + 1)
  <2>1. /\ m1 \o second \in Seq(Token) /\ Len(m1 \o second) = Len(m1) + Len(second)
        /\ Within(m1, m1 \o second, 0) /\ Within(second, m1 \o second, Len(m1))
    BY <1>4, <1>5, JoinedWithin
  <2> QED BY <1>4, <1>5, <2>1 DEF m
<1>7. /\ t1 \in Seq(Token) /\ Len(t1) = 28
      /\ Within(open, t1, 0) /\ Within(m, t1, 1)
  <2>1. /\ open \o m \in Seq(Token) /\ Len(open \o m) = Len(open) + Len(m)
        /\ Within(open, open \o m, 0) /\ Within(m, open \o m, Len(open))
    BY <1>2, <1>6, JoinedWithin
  <2> QED BY <1>2, <1>6, <2>1 DEF t1
<1>8. /\ t2 \in Seq(Token) /\ Len(t2) = 29
      /\ Within(t1, t2, 0) /\ Within(comma, t2, 28)
  <2>1. /\ t1 \o comma \in Seq(Token) /\ Len(t1 \o comma) = Len(t1) + Len(comma)
        /\ Within(t1, t1 \o comma, 0) /\ Within(comma, t1 \o comma, Len(t1))
    BY <1>2, <1>7, JoinedWithin
  <2> QED BY <1>2, <1>7, <2>1 DEF t2
<1>9. /\ tail \in Seq(Token) /\ Len(tail) = Width(l) - 30
      /\ Within(rest, tail, 0) /\ Within(price, tail, 22)
  <2>1. /\ rest \o price \in Seq(Token) /\ Len(rest \o price) = Len(rest) + Len(price)
        /\ Within(rest, rest \o price, 0) /\ Within(price, rest \o price, Len(rest))
    BY <1>1, JoinedWithin
  <2> QED BY <1>1, <2>1 DEF tail, Width
<1>10. /\ t3 \in Seq(Token) /\ Len(t3) = Width(l) - 1
      /\ Within(t2, t3, 0) /\ Within(tail, t3, 29)
  <2>1. /\ t2 \o tail \in Seq(Token) /\ Len(t2 \o tail) = Len(t2) + Len(tail)
        /\ Within(t2, t2 \o tail, 0) /\ Within(tail, t2 \o tail, Len(t2))
    BY <1>8, <1>9, JoinedWithin
  <2> QED BY <1>8, <1>9, <2>1 DEF t3, Width
<1>11. /\ t \in Seq(Token) /\ Len(t) = Width(l)
      /\ Within(t3, t, 0) /\ Within(close, t, Width(l) - 1)
  <2>1. /\ t3 \o close \in Seq(Token) /\ Len(t3 \o close) = Len(t3) + Len(close)
        /\ Within(t3, t3 \o close, 0) /\ Within(close, t3 \o close, Len(t3))
    BY <1>2, <1>10, JoinedWithin
  <2> QED BY <1>2, <1>10, <2>1 DEF t, Width
<1>12. Within(t2, t, 0) /\ Within(tail, t, 29)
  <2>1. Within(t2, t, 0 + 0)
    BY <1>8, <1>10, <1>11, WithinWithin
  <2>2. Within(tail, t, 0 + 29)
    BY <1>9, <1>10, <1>11, WithinWithin
  <2> QED BY <1>4, <2>1, <2>2
<1>13. Within(t1, t, 0) /\ Within(comma, t, 28)
  <2>1. Within(t1, t, 0 + 0)
    BY <1>7, <1>8, <1>11, <1>12, WithinWithin
  <2>2. Within(comma, t, 0 + 28)
    BY <1>2, <1>8, <1>11, <1>12, WithinWithin
  <2> QED BY <1>4, <2>1, <2>2
<1>14. Within(open, t, 0) /\ Within(m, t, 1)
  <2>1. Within(open, t, 0 + 0)
    BY <1>2, <1>7, <1>11, <1>13, WithinWithin
  <2>2. Within(m, t, 0 + 1)
    BY <1>6, <1>7, <1>11, <1>13, WithinWithin
  <2> QED BY <1>4, <2>1, <2>2
<1>15. Within(rest, t, 29) /\ Within(price, t, 51)
  <2>1. Within(rest, t, 29 + 0)
    BY <1>1, <1>9, <1>11, <1>12, WithinWithin
  <2>2. Within(price, t, 29 + 22)
    BY <1>1, <1>9, <1>11, <1>12, WithinWithin
  <2> QED BY <1>4, <2>1, <2>2
<1>16. Within(m1, t, 1) /\ Within(second, t, Len(first) + 2)
  <2>1. Within(m1, t, 1 + 0)
    BY <1>5, <1>6, <1>11, <1>14, WithinWithin
  <2>2. Within(second, t, 1 + (Len(first) + 1))
    BY <1>4, <1>6, <1>11, <1>14, WithinWithin
  <2> QED BY <1>4, <2>1, <2>2
<1>17. Within(first, t, 1) /\ Within(comma, t, Len(first) + 1)
  <2>1. Within(first, t, 1 + 0)
    BY <1>4, <1>5, <1>11, <1>16, WithinWithin
  <2>2. Within(comma, t, 1 + Len(first))
    BY <1>2, <1>4, <1>5, <1>11, <1>16, WithinWithin
  <2> QED BY <1>4, <2>1, <2>2
<1>18. Within(hd, t, HdAt(l)) /\ Within(recv, t, RecvAt(l))
  <2>1. CASE l.hdFirst
    <3>1. first = hd /\ second = recv /\ HdAt(l) = 1 /\ RecvAt(l) = 21
      BY <2>1 DEF first, second, HdAt, RecvAt
    <3>2. Len(first) + 2 = 21
      BY <1>4, <2>1
    <3> QED BY <1>16, <1>17, <3>1, <3>2
  <2>2. CASE ~l.hdFirst
    <3>1. first = recv /\ second = hd /\ HdAt(l) = 9 /\ RecvAt(l) = 1
      BY <2>2 DEF first, second, HdAt, RecvAt
    <3>2. Len(first) + 2 = 9
      BY <1>4, <2>2
    <3> QED BY <1>16, <1>17, <3>1, <3>2
  <2> QED BY <2>1, <2>2
<1>19. /\ t[1] = "open" /\ t[Width(l)] = "close"
       /\ t[IF l.hdFirst THEN 21 ELSE 9] = "comma" /\ t[29] = "comma"
  BY <1>2, <1>4, <1>11, <1>13, <1>14, <1>17 DEF Within, Width
<1> QED BY <1>3, <1>11, <1>15, <1>18, <1>19 DEF IsText, hd, recv, rest, price

\* Where a name stands, its quote.
KeyPlace(l, key) ==
  CASE key = "hd" -> HdAt(l) + 1
    [] key = "ts_recv" -> RecvAt(l) + 1
    [] key = "order_id" -> 30
    [] key = "size" -> 38
    [] key = "price" -> 52
LineKeys == {"hd", "ts_recv", "order_id", "size", "price"}

\* s has key as a name, at the quote i, and nowhere else.
HasKey(s, key, i) ==
  /\ i \in 1 .. Len(s) - 3
  /\ s[i] = Q /\ s[i + 1] = key /\ s[i + 2] = Q /\ s[i + 3] = "colon"
  /\ \A j \in 1 .. Len(s) : s[j] = key => j = i + 1

\* The texts are no names and no punctuation.
LEMMA TextsDiffer ==
  ASSUME NEW l \in Line
  PROVE  /\ l.instrument_id \in DOMAIN Number /\ l.ts_event \in DOMAIN Stamp
         /\ l.ts_recv \in DOMAIN Stamp /\ l.order_id \in DOMAIN Number
         /\ l.size \in DOMAIN Number /\ l.price \in DOMAIN PriceText \union {"null"}
         /\ l.hdFirst \in BOOLEAN
         /\ \A x \in {l.instrument_id, l.ts_event, l.ts_recv, l.order_id, l.size, l.price} :
              /\ x \notin Keys /\ x \notin Punctuation /\ x # "symbolText"
              /\ x # TornNull
         /\ Q = "quote"
BY TablesAre DEF Line, Keys, Punctuation, Q, TornNull

\* No token of a part is a name, but those that the part begins its fields with.
LEMMA PartsApart ==
  ASSUME NEW l \in Line, NEW key \in LineKeys
  PROVE  /\ \A k \in 1 .. 19 : HdTokens(l)[k] = key => key = "hd" /\ k = 2
         /\ \A k \in 1 .. 7 : RecvTokens(l)[k] = key => key = "ts_recv" /\ k = 2
         /\ \A k \in 1 .. 22 : RestTokens(l)[k] = key =>
              (key = "order_id" /\ k = 2) \/ (key = "size" /\ k = 10)
         /\ \A k \in 1 .. Len(PriceTokens(l)) : PriceTokens(l)[k] = key => key = "price" /\ k = 2
<1>1. \A x \in {l.instrument_id, l.ts_event, l.ts_recv, l.order_id, l.size, l.price} : x # key
  BY TextsDiffer DEF Keys, LineKeys
<1>2. \A k \in 1 .. 19 : HdTokens(l)[k] = key => key = "hd" /\ k = 2
  BY <1>1, TextsDiffer DEF HdTokens, LineKeys
<1>3. \A k \in 1 .. 7 : RecvTokens(l)[k] = key => key = "ts_recv" /\ k = 2
  BY <1>1, TextsDiffer DEF RecvTokens, LineKeys
<1>4. \A k \in 1 .. 22 : RestTokens(l)[k] = key =>
        (key = "order_id" /\ k = 2) \/ (key = "size" /\ k = 10)
  BY <1>1, TextsDiffer DEF RestTokens, LineKeys
<1>5. \A k \in 1 .. Len(PriceTokens(l)) : PriceTokens(l)[k] = key => key = "price" /\ k = 2
  BY <1>1, TextsDiffer DEF PriceTokens, LineKeys
<1> QED BY <1>2, <1>3, <1>4, <1>5

\* Which part a token of a line is in.
LEMMA PartOf ==
  ASSUME NEW l \in Line, NEW i \in 1 .. Width(l)
  PROVE  \/ i \in {1, 29, Width(l), IF l.hdFirst THEN 21 ELSE 9}
         \/ i - HdAt(l) \in 1 .. 19
         \/ i - RecvAt(l) \in 1 .. 7
         \/ i - 29 \in 1 .. 22
         \/ i - 51 \in 1 .. Width(l) - 52
BY DEF Width, HdAt, RecvAt

\* A line has each name once, at its place.
LEMMA KeysOnce ==
  ASSUME NEW l \in Line, NEW t, IsText(t, l), NEW key \in LineKeys
  PROVE  HasKey(t, key, KeyPlace(l, key))
<1>1. /\ Len(HdTokens(l)) = 19 /\ Len(RecvTokens(l)) = 7 /\ Len(RestTokens(l)) = 22
      /\ Len(PriceTokens(l)) = Width(l) - 52
  BY DEF HdTokens, RecvTokens, RestTokens, PriceTokens, Width
<1>2. /\ \A k \in 1 .. 19 : t[HdAt(l) + k] = HdTokens(l)[k]
      /\ \A k \in 1 .. 7 : t[RecvAt(l) + k] = RecvTokens(l)[k]
      /\ \A k \in 1 .. 22 : t[29 + k] = RestTokens(l)[k]
      /\ \A k \in 1 .. Width(l) - 52 : t[51 + k] = PriceTokens(l)[k]
  BY <1>1 DEF IsText, Within
<1>3. KeyPlace(l, key) \in 1 .. Len(t) - 3
  BY DEF IsText, KeyPlace, LineKeys, HdAt, RecvAt, Width
<1>4. ASSUME NEW j \in 1 .. Len(t), t[j] = key PROVE j = KeyPlace(l, key) + 1
  <2>1. j \in 1 .. Width(l)
    BY DEF IsText
  <2>2. CASE j \in {1, 29, Width(l), IF l.hdFirst THEN 21 ELSE 9}
    <3>1. t[j] \in {"open", "close", "comma"}
      BY <2>2 DEF IsText
    <3> QED BY <1>4, <3>1 DEF LineKeys
  <2>3. CASE j - HdAt(l) \in 1 .. 19
    <3>1. PICK k \in 1 .. 19 : k = j - HdAt(l)
      BY <2>3
    <3>2. HdAt(l) + k = j
      BY <3>1 DEF HdAt
    <3>3. HdTokens(l)[k] = key
      BY <1>2, <1>4, <3>2
    <3>4. key = "hd" /\ k = 2
      BY <3>3, PartsApart
    <3>5. KeyPlace(l, key) = HdAt(l) + 1 /\ HdAt(l) \in Nat
      BY <3>4 DEF KeyPlace, HdAt
    <3> QED BY <3>2, <3>4, <3>5
  <2>4. CASE j - RecvAt(l) \in 1 .. 7
    <3>1. PICK k \in 1 .. 7 : k = j - RecvAt(l)
      BY <2>4
    <3>2. RecvAt(l) + k = j
      BY <3>1 DEF RecvAt
    <3>3. RecvTokens(l)[k] = key
      BY <1>2, <1>4, <3>2
    <3>4. key = "ts_recv" /\ k = 2
      BY <3>3, PartsApart
    <3>5. KeyPlace(l, key) = RecvAt(l) + 1 /\ RecvAt(l) \in Nat
      BY <3>4 DEF KeyPlace, RecvAt
    <3> QED BY <3>2, <3>4, <3>5
  <2>5. CASE j - 29 \in 1 .. 22
    <3>1. PICK k \in 1 .. 22 : k = j - 29
      BY <2>5
    <3>2. 29 + k = j
      BY <3>1
    <3>3. RestTokens(l)[k] = key
      BY <1>2, <1>4, <3>2
    <3>4. (key = "order_id" /\ k = 2) \/ (key = "size" /\ k = 10)
      BY <3>3, PartsApart
    <3> QED BY <3>2, <3>4 DEF KeyPlace
  <2>6. CASE j - 51 \in 1 .. Width(l) - 52
    <3>1. PICK k \in 1 .. Width(l) - 52 : k = j - 51
      BY <2>6
    <3>2. 51 + k = j
      BY <3>1 DEF Width
    <3>3. PriceTokens(l)[k] = key
      BY <1>2, <1>4, <3>2
    <3>4. key = "price" /\ k = 2
      BY <1>1, <3>3, PartsApart
    <3> QED BY <3>2, <3>4 DEF KeyPlace
  <2> QED BY <2>1, <2>2, <2>3, <2>4, <2>5, <2>6, PartOf
<1>5. LET i == KeyPlace(l, key)
      IN  t[i] = Q /\ t[i + 1] = key /\ t[i + 2] = Q /\ t[i + 3] = "colon"
  <2>1. CASE key = "hd"
    BY <1>2, <2>1 DEF KeyPlace, HdTokens, HdAt
  <2>2. CASE key = "ts_recv"
    BY <1>2, <2>2 DEF KeyPlace, RecvTokens, RecvAt
  <2>3. CASE key = "order_id"
    BY <1>2, <2>3 DEF KeyPlace, RestTokens
  <2>4. CASE key = "size"
    BY <1>2, <2>4 DEF KeyPlace, RestTokens
  <2>5. CASE key = "price"
    BY <1>2, <2>5 DEF KeyPlace, PriceTokens, Width
  <2> QED BY <2>1, <2>2, <2>3, <2>4, <2>5 DEF LineKeys
<1> QED BY <1>3, <1>4, <1>5 DEF HasKey

-----------------------------------------------------------------------------
(* JsonSimpleDataParser on a line, whole or cut off *)

\* s is what is left of t: a beginning, the last token of which may be torn.
IsLeft(s, t) ==
  /\ s \in Seq(Token) /\ Len(s) <= Len(t)
  /\ \A i \in 1 .. Len(s) :
       \/ s[i] = t[i]
       \/ i = Len(s) /\ t[i] \notin Punctuation /\ s[i] = IF t[i] = "null" THEN TornNull ELSE Torn

\* What is left of a line is a beginning of its text.
LEMMA LeftIs ==
  ASSUME NEW w \in LinesLeft
  PROVE  /\ IsLeft(Left(w), Text(w.line)) /\ Len(Left(w)) = w.kept
         /\ ~w.torn => \A i \in 1 .. w.kept : Left(w)[i] = Text(w.line)[i]
<1> DEFINE t == Text(w.line)
           s == SubSeq(t, 1, w.kept)
<1>1. w.line \in Line /\ w.kept \in Nat /\ w.torn \in BOOLEAN /\ w.kept <= Len(t)
  BY DEF LinesLeft
<1>2. t \in Seq(Token)
  BY <1>1, TextIs DEF IsText
<1> HIDE DEF t
<1>3. s \in Seq(Token) /\ Len(s) = w.kept /\ \A i \in 1 .. w.kept : s[i] = t[i]
  BY <1>1, <1>2
<1>4. Torn \in Token /\ TornNull \in Token
  BY TablesAre DEF Token, Torn
<1> DEFINE cut == w.torn /\ w.kept > 0 /\ s[w.kept] \notin Punctuation
           last == IF s[w.kept] = "null" THEN TornNull ELSE Torn
<1>5. Left(w) = IF cut THEN [s EXCEPT ![w.kept] = last] ELSE s
  BY DEF Left, t
<1>6. last \in Token
  BY <1>4
<1> HIDE DEF s, last
<1>7. CASE cut
  <2>1. w.kept \in 1 .. Len(s)
    BY <1>1, <1>3, <1>7
  <2>2. Left(w) \in Seq(Token) /\ Len(Left(w)) = w.kept
    BY <1>3, <1>5, <1>6, <1>7, <2>1
  <2>3. \A i \in 1 .. w.kept : Left(w)[i] = IF i = w.kept THEN last ELSE t[i]
    BY <1>3, <1>5, <1>7, <2>1
  <2>4. last = IF t[w.kept] = "null" THEN TornNull ELSE Torn
    BY <1>3, <2>1 DEF last
  <2>5. t[w.kept] \notin Punctuation
    BY <1>3, <1>7, <2>1
  <2> QED BY <1>1, <1>7, <2>2, <2>3, <2>4, <2>5 DEF IsLeft, t
<1>8. CASE ~cut
  BY <1>1, <1>3, <1>5, <1>8 DEF IsLeft, t
<1> QED BY <1>7, <1>8

\* findValue finds what is left of the value, if all of the name is.
LEMMA FindsValue ==
  ASSUME NEW t \in Seq(Token), NEW s, IsLeft(s, t), NEW key \in Keys, NEW i, HasKey(t, key, i)
  PROVE  findValue(s, key) = IF i + 3 <= Len(s) THEN SubSeq(s, i + 4, Len(s)) ELSE Nothing
<1> DEFINE name == Named(key, <<>>)
           at == {j \in 1 .. Len(s) - 3 : SubSeq(s, j, j + 3) = name}
<1>1. s \in Seq(Token) /\ Len(s) \in Nat /\ Len(s) <= Len(t) /\ i \in 1 .. Len(t) - 3
  BY DEF IsLeft, HasKey
<1>2. name \in Seq(Token) /\ Len(name) = 4 /\ name[1] = Q /\ name[2] = key /\ name[3] = Q
      /\ name[4] = "colon"
  <2>1. Q \in Token /\ key \in Token /\ "colon" \in Token
    BY DEF Token
  <2> DEFINE n == <<Q, key, Q, "colon">>
  <2>2. n \in Seq(Token) /\ Len(n) = 4 /\ n[1] = Q /\ n[2] = key /\ n[3] = Q /\ n[4] = "colon"
    BY <2>1
  <2>3. name = n
    <3>1. IsJoin(n, n, <<>>)
      BY DEF IsJoin
    <3>2. <<>> \in Seq(Token)
      OBVIOUS
    <3>3. n \o <<>> = n
      <4> HIDE DEF n
      <4> QED BY <2>2, <3>1, <3>2, Joins
    <3> QED BY <3>3 DEF Named
  <2> HIDE DEF name, n
  <2> QED BY <2>2, <2>3
<1> HIDE DEF name
<1>3. ASSUME NEW j \in at PROVE j = i
  <2>1. j \in 1 .. Len(s) - 3 /\ SubSeq(s, j, j + 3) = name
    OBVIOUS
  <2>2. SubSeq(s, j, j + 3)[2] = s[j + 1]
    BY <1>1, <2>1
  <2>3. s[j + 1] = key /\ j + 1 \in 1 .. Len(s) /\ j + 1 # Len(s)
    BY <1>1, <1>2, <2>1, <2>2
  <2>4. t[j + 1] = key
    BY <2>3 DEF IsLeft
  <2> QED BY <1>1, <2>3, <2>4 DEF HasKey
<1>4. i + 3 <= Len(s) => i \in at
  <2> SUFFICES ASSUME i + 3 <= Len(s) PROVE i \in at
    OBVIOUS
  <2>1. s[i] = Q /\ s[i + 1] = key /\ s[i + 2] = Q /\ s[i + 3] = "colon"
    <3>1. t[i] = Q /\ t[i + 1] = key /\ t[i + 2] = Q /\ t[i + 3] = "colon"
      BY DEF HasKey
    <3>2. Q \in Punctuation /\ "colon" \in Punctuation
      BY DEF Punctuation
    <3>3. {i, i + 1, i + 2, i + 3} \subseteq 1 .. Len(s) /\ i + 1 # Len(s)
      BY <1>1
    <3> QED BY <3>1, <3>2, <3>3 DEF IsLeft
  <2> DEFINE u == SubSeq(s, i, i + 3)
  <2>2. u \in Seq(Token) /\ Len(u) = 4 /\ \A k \in 1 .. 4 : u[k] = s[i + k - 1]
    BY <1>1
  <2>3. u[1] = Q /\ u[2] = key /\ u[3] = Q /\ u[4] = "colon"
    BY <1>1, <2>1, <2>2
  <2> HIDE DEF u
  <2>4. u = name
    <3>1. \A k \in 1 .. 4 : u[k] = name[k]
      BY <1>2, <2>3
    <3> QED BY <1>2, <2>2, <3>1
  <2>5. i \in 1 .. Len(s) - 3
    BY <1>1
  <2> QED BY <2>4, <2>5 DEF u
<1>5. findValue(s, key) = IF at = {} THEN Nothing
                          ELSE LET j == CHOOSE j \in at : \A k \in at : j <= k
                               IN  SubSeq(s, j + 4, Len(s))
  BY DEF findValue, name
<1>6. CASE i + 3 <= Len(s)
  <2>1. at = {i}
    BY <1>3, <1>4, <1>6
  <2> HIDE DEF at
  <2>2. (CHOOSE j \in at : \A k \in at : j <= k) = i
    <3>1. \E j \in at : \A k \in at : j <= k
      BY <1>1, <2>1
    <3>2. (CHOOSE j \in at : \A k \in at : j <= k) \in at
      BY <3>1
    <3> QED BY <2>1, <3>2
  <2> QED BY <1>5, <1>6, <2>1, <2>2
<1>7. CASE i + 3 > Len(s)
  <2>1. at = {}
    <3> SUFFICES ASSUME NEW j \in at PROVE FALSE
      OBVIOUS
    <3>1. j \in 1 .. Len(s) - 3 /\ j = i
      BY <1>3
    <3> QED BY <1>1, <1>7, <3>1
  <2> HIDE DEF at
  <2> QED BY <1>1, <1>5, <1>7, <2>1
<1> QED BY <1>1, <1>6, <1>7

\* r begins an object: its first brace opens, and the next ends it, at m.
HoldsObject(r, m) ==
  /\ r \in Seq(Token) /\ (r # Nothing => r[1] = "open")
  /\ \A j \in 1 .. Len(r) : j <= m => (r[j] = "open" <=> j = 1) /\ (r[j] = "close" <=> j = m)

\* getObject gives the object whose closing brace is the m-th token.
LEMMA FindsObject ==
  ASSUME NEW s \in Seq(Token), NEW key, NEW m \in Nat, m >= 2,
         HoldsObject(findValue(s, key), m)
  PROVE  getObject(s, key) = IF Len(findValue(s, key)) >= m THEN SubSeq(findValue(s, key), 1, m)
                             ELSE Nothing
<1> DEFINE r == findValue(s, key)
<1>0. /\ r \in Seq(Token) /\ (r # Nothing => r[1] = "open")
      /\ \A j \in 1 .. Len(r) : j <= m => (r[j] = "open" <=> j = 1) /\ (r[j] = "close" <=> j = m)
  BY DEF HoldsObject
<1> DEFINE opened(i) == {j \in 1 .. i : r[j] = "open"}
           closed(i) == {j \in 1 .. i : r[j] = "close"}
           depth(i) == Cardinality(opened(i)) - Cardinality(closed(i))
           ends == {i \in 1 .. Len(r) : depth(i) = 0}
<1>1. getObject(s, key) = IF r = Nothing \/ r[1] # "open" \/ ends = {} THEN Nothing
                          ELSE SubSeq(r, 1, CHOOSE i \in ends : \A j \in ends : i <= j)
  BY DEF getObject
<1> HIDE DEF r
<1>2. ASSUME NEW i \in 1 .. Len(r), i < m PROVE i \notin ends
  <2>1. opened(i) = {1} /\ closed(i) = {}
    BY <1>0, <1>2
  <2>2. Cardinality({1}) = 1 /\ Cardinality({}) = 0
    BY FS_Singleton, FS_EmptySet
  <2>3. depth(i) = 1
    <3> HIDE DEF opened, closed
    <3> QED BY <2>1, <2>2
  <2> HIDE DEF depth
  <2> QED BY <2>3
<1>3. m \in 1 .. Len(r) => m \in ends
  <2> SUFFICES ASSUME m \in 1 .. Len(r) PROVE m \in ends
    OBVIOUS
  <2>1. opened(m) = {1} /\ closed(m) = {m}
    BY <1>0
  <2>2. Cardinality({1}) = 1 /\ Cardinality({m}) = 1
    BY FS_Singleton
  <2>3. depth(m) = 0
    <3> HIDE DEF opened, closed
    <3> QED BY <2>1, <2>2
  <2> HIDE DEF depth
  <2> QED BY <2>3
<1> HIDE DEF depth
<1>4. CASE Len(r) >= m
  <2>1. m \in ends /\ \A j \in ends : m <= j
    BY <1>0, <1>2, <1>3, <1>4
  <2>2. \A j \in ends : j \in Nat
    OBVIOUS
  <2> HIDE DEF ends
  <2>3. (CHOOSE i \in ends : \A j \in ends : i <= j) = m
    <3> DEFINE c == CHOOSE i \in ends : \A j \in ends : i <= j
    <3>1. c \in ends /\ \A j \in ends : c <= j
      BY <2>1
    <3> HIDE DEF c
    <3>2. c <= m /\ m <= c /\ c \in Nat
      BY <2>1, <2>2, <3>1
    <3>3. c = m
      BY <3>2
    <3> QED BY <3>3 DEF c
  <2>4. r # Nothing
    BY <1>0, <1>4 DEF Nothing
  <2>5. r[1] = "open" /\ ends # {}
    BY <1>0, <2>1, <2>4
  <2>6. getObject(s, key) = SubSeq(r, 1, m)
    BY <1>1, <2>3, <2>4, <2>5
  <2> QED BY <1>4, <2>6 DEF r
<1>5. CASE Len(r) < m
  <2>1. ends = {}
    BY <1>2, <1>5
  <2> HIDE DEF ends
  <2>2. getObject(s, key) = Nothing
    BY <1>1, <2>1
  <2>3. ~(Len(r) >= m)
    BY <1>0, <1>5
  <2> QED BY <2>2, <2>3 DEF r
<1>6. Len(r) \in Nat
  BY <1>0
<1> QED BY <1>4, <1>5, <1>6

\* The text between the quotes of a value, if both are left.
LEMMA GetsString ==
  ASSUME NEW t \in Seq(Token), NEW s, IsLeft(s, t), NEW key \in Keys, NEW i, HasKey(t, key, i),
         i + 6 <= Len(t), t[i + 4] = Q, t[i + 6] = Q
  PROVE  getString(s, key) = IF i + 6 <= Len(s) THEN <<t[i + 5]>> ELSE Nothing
<1> DEFINE rest == findValue(s, key)
<1>1. rest = IF i + 3 <= Len(s) THEN SubSeq(s, i + 4, Len(s)) ELSE Nothing
  BY FindsValue
<1>2. s \in Seq(Token) /\ Len(s) \in Nat /\ i \in Nat /\ i >= 1
  BY DEF IsLeft, HasKey
<1>3. getString(s, key) = IF Len(rest) >= 3 /\ rest[1] = Q /\ rest[3] = Q THEN <<rest[2]>> ELSE Nothing
  BY DEF getString
<1> HIDE DEF rest
<1>4. CASE i + 6 <= Len(s)
  <2>1. Len(rest) >= 3 /\ rest[1] = s[i + 4] /\ rest[2] = s[i + 5] /\ rest[3] = s[i + 6]
    BY <1>1, <1>2, <1>4
  <2>2. s[i + 4] = Q /\ s[i + 5] = t[i + 5] /\ s[i + 6] = Q
    <3>1. Q \in Punctuation
      BY DEF Punctuation
    <3>2. {i + 4, i + 5, i + 6} \subseteq 1 .. Len(s) /\ i + 5 # Len(s)
      BY <1>2, <1>4
    <3> QED BY <3>1, <3>2 DEF IsLeft
  <2> QED BY <1>3, <1>4, <2>1, <2>2
<1>5. CASE i + 6 > Len(s)
  <2>1. Len(rest) < 3
    <3>1. CASE i + 3 <= Len(s)
      BY <1>1, <1>2, <1>5, <3>1
    <3>2. CASE i + 3 > Len(s)
      BY <1>1, <1>2, <3>2 DEF Nothing
    <3> QED BY <1>2, <3>1, <3>2
  <2>2. ~(Len(rest) >= 3)
    <3>1. Len(rest) \in Nat
      <4>1. rest \in Seq(Token)
        BY <1>1, <1>2 DEF Nothing
      <4> QED BY <4>1
    <3> QED BY <2>1, <3>1
  <2> QED BY <1>2, <1>3, <1>5, <2>2
<1> QED BY <1>2, <1>4, <1>5

\* A number, or what is left of it.
LEMMA GetsNumber ==
  ASSUME NEW t \in Seq(Token), NEW s, IsLeft(s, t), NEW key \in Keys, NEW i, HasKey(t, key, i),
         i + 4 <= Len(t), t[i + 4] \in DOMAIN Number
  PROVE  getNumericRaw(s, key) = IF i + 4 <= Len(s) THEN <<s[i + 4]>> ELSE Nothing
<1> DEFINE rest == findValue(s, key)
<1>1. rest = IF i + 3 <= Len(s) THEN SubSeq(s, i + 4, Len(s)) ELSE Nothing
  BY FindsValue
<1>2. s \in Seq(Token) /\ Len(s) \in Nat /\ i \in Nat /\ i >= 1
  BY DEF IsLeft, HasKey
<1>3. getNumericRaw(s, key) = IF rest # Nothing /\ rest[1] \in DOMAIN Number THEN <<rest[1]>> ELSE Nothing
  BY DEF getNumericRaw
<1> HIDE DEF rest
<1>4. CASE i + 4 <= Len(s)
  <2>1. rest[1] = s[i + 4] /\ Len(rest) >= 1
    BY <1>1, <1>2, <1>4
  <2>2. rest # Nothing
    BY <2>1 DEF Nothing
  <2>3. s[i + 4] \in DOMAIN Number
    <3>1. i + 4 \in 1 .. Len(s)
      BY <1>2, <1>4
    <3>2. t[i + 4] # "null" /\ Torn \in DOMAIN Number
      BY TablesAre DEF Torn
    <3> QED BY <3>1, <3>2 DEF IsLeft
  <2> QED BY <1>3, <1>4, <2>1, <2>2, <2>3
<1>5. CASE i + 4 > Len(s)
  <2>1. rest = Nothing
    <3>1. CASE i + 3 <= Len(s)
      <4>1. rest \in Seq(Token) /\ Len(rest) = 0
        BY <1>1, <1>2, <1>5, <3>1
      <4> QED BY <4>1 DEF Nothing
    <3>2. CASE i + 3 > Len(s)
      BY <1>1, <1>2, <3>2
    <3> QED BY <1>2, <3>1, <3>2
  <2> QED BY <1>2, <1>3, <1>5, <2>1
<1> QED BY <1>2, <1>4, <1>5

\* What hd holds, when all of it is left.
LEMMA HdFields ==
  ASSUME NEW l \in Line, NEW t, IsText(t, l), NEW s, IsLeft(s, t)
  PROVE  /\ getString(getObject(s, "hd"), "ts_event") =
              IF HdAt(l) + 19 <= Len(s) THEN <<l.ts_event>> ELSE Nothing
         /\ getNumericRaw(getObject(s, "hd"), "instrument_id") =
              IF HdAt(l) + 19 <= Len(s) THEN <<l.instrument_id>> ELSE Nothing
<1> DEFINE h == HdAt(l)
           rest == findValue(s, "hd")
           obj == SubSeq(rest, 1, 15)
<1>1. /\ s \in Seq(Token) /\ Len(s) \in Nat /\ t \in Seq(Token) /\ Len(s) <= Len(t)
      /\ h \in Nat /\ h + 19 < Len(t)
  BY DEF IsLeft, IsText, HdAt, Width
<1>2. \A k \in 1 .. 19 : t[h + k] = HdTokens(l)[k]
  BY DEF IsText, Within, HdTokens
<1>3. rest = IF h + 4 <= Len(s) THEN SubSeq(s, h + 5, Len(s)) ELSE Nothing
  <2>1. HasKey(t, "hd", h + 1)
    BY KeysOnce DEF LineKeys, KeyPlace
  <2>2. findValue(s, "hd") = IF (h + 1) + 3 <= Len(s) THEN SubSeq(s, (h + 1) + 4, Len(s)) ELSE Nothing
    BY <1>1, <2>1, FindsValue DEF Keys
  <2> QED BY <1>1, <2>2
<1> HIDE DEF h, rest
<1>4. rest \in Seq(Token) /\ Len(rest) \in Nat
      /\ (Len(rest) >= 15 <=> h + 19 <= Len(s))
      /\ \A j \in 1 .. Len(rest) : rest[j] = s[h + 4 + j] /\ h + 4 + j \in 1 .. Len(s)
  <2>1. CASE h + 4 <= Len(s)
    BY <1>1, <1>3, <2>1
  <2>2. CASE ~(h + 4 <= Len(s))
    BY <1>1, <1>3, <2>2 DEF Nothing
  <2> QED BY <2>1, <2>2
<1>5. /\ HdTokens(l)[5] = "open" /\ HdTokens(l)[19] = "close"
      /\ \A k \in 6 .. 18 : HdTokens(l)[k] \notin {"open", "close"}
  BY TextsDiffer DEF HdTokens, Punctuation
<1>6. ASSUME NEW j \in 1 .. Len(rest), j <= 15
      PROVE  (rest[j] = "open" <=> j = 1) /\ (rest[j] = "close" <=> j = 15)
  <2>1. rest[j] = s[h + 4 + j] /\ h + 4 + j \in 1 .. Len(s) /\ h + 4 + j \in 1 .. Len(t)
    BY <1>1, <1>4
  <2>2. t[h + 4 + j] = HdTokens(l)[4 + j]
    <3>1. PICK k \in 1 .. 19 : k = 4 + j
      BY <1>6
    <3>2. h + k = h + 4 + j
      BY <1>1, <3>1
    <3> QED BY <1>2, <3>1, <3>2
  <2>3. (t[h + 4 + j] = "open" <=> j = 1) /\ (t[h + 4 + j] = "close" <=> j = 15)
    <3>1. j = 1 \/ j = 15 \/ 4 + j \in 6 .. 18
      BY <1>6
    <3> QED BY <1>5, <1>6, <2>2, <3>1
  <2>4. \/ s[h + 4 + j] = t[h + 4 + j]
        \/ t[h + 4 + j] \notin Punctuation /\ s[h + 4 + j] \in {TornNull, Torn}
    BY <2>1 DEF IsLeft
  <2> QED BY <2>1, <2>3, <2>4 DEF Punctuation, Torn, TornNull
<1>7. getObject(s, "hd") = IF Len(rest) >= 15 THEN obj ELSE Nothing
  <2>1. rest # Nothing => rest[1] = "open"
    <3> SUFFICES ASSUME rest # Nothing PROVE rest[1] = "open"
      OBVIOUS
    <3>1. Len(rest) # 0
      BY <1>4 DEF Nothing
    <3> QED BY <1>4, <1>6, <3>1
  <2>2. findValue(s, "hd") = rest
    BY DEF rest
  <2>3. \A j \in 1 .. Len(rest) : j <= 15 => (rest[j] = "open" <=> j = 1) /\ (rest[j] = "close" <=> j = 15)
    BY <1>6
  <2>4. rest \in Seq(Token) /\ 15 \in Nat /\ 15 >= 2
    BY <1>4
  <2>5. HoldsObject(findValue(s, "hd"), 15)
    BY <2>1, <2>2, <2>3, <2>4 DEF HoldsObject
  <2>6. getObject(s, "hd") = IF Len(findValue(s, "hd")) >= 15 THEN SubSeq(findValue(s, "hd"), 1, 15)
                             ELSE Nothing
    BY <1>1, <2>4, <2>5, FindsObject
  <2> QED BY <2>2, <2>6
<1>8. CASE ~(h + 19 <= Len(s))
  <2>1. getObject(s, "hd") = Nothing
    BY <1>4, <1>7, <1>8
  <2>2. \A key : findValue(<<>>, key) = Nothing
    BY DEF findValue
  <2>3. \A key : getString(<<>>, key) = Nothing /\ getNumericRaw(<<>>, key) = Nothing
    BY <2>2 DEF getString, getNumericRaw, Nothing
  <2> QED BY <1>8, <2>1, <2>3 DEF Nothing, h
<1>9. CASE h + 19 <= Len(s)
  <2>1. getObject(s, "hd") = obj /\ obj \in Seq(Token) /\ Len(obj) = 15
        /\ \A j \in 1 .. 15 : obj[j] = rest[j]
    <3>1. rest \in Seq(Token) /\ Len(rest) >= 15
      BY <1>4, <1>9
    <3>2. obj \in Seq(Token) /\ Len(obj) = 15 /\ \A j \in 1 .. 15 : obj[j] = rest[j]
      BY <3>1
    <3> QED BY <1>7, <3>1, <3>2
  <2>2. ASSUME NEW j \in 1 .. 15 PROVE obj[j] = HdTokens(l)[4 + j]
    <3>1. obj[j] = s[h + 4 + j] /\ h + 4 + j \in 1 .. Len(s)
      <4>1. j \in 1 .. Len(rest)
        BY <1>4, <1>9
      <4> QED BY <1>4, <2>1, <4>1
    <3>2. s[h + 4 + j] = t[h + 4 + j]
      <4>1. CASE j = 15
        <5>1. t[h + 4 + j] = "close"
          <6>1. h + 19 = h + 4 + j
            BY <1>1, <4>1
          <6> QED BY <1>2, <1>5, <6>1
        <5> QED BY <3>1, <5>1 DEF IsLeft, Punctuation
      <4>2. CASE j # 15
        <5>1. h + 4 + j # Len(s)
          BY <1>1, <1>9, <4>2
        <5> QED BY <3>1, <5>1 DEF IsLeft
      <4> QED BY <4>1, <4>2
    <3>3. t[h + 4 + j] = HdTokens(l)[4 + j]
      <4>1. PICK k \in 1 .. 19 : k = 4 + j
        OBVIOUS
      <4>2. h + k = h + 4 + j
        BY <1>1, <4>1
      <4> QED BY <1>2, <4>1, <4>2
    <3> QED BY <3>1, <3>2, <3>3
  <2> HIDE DEF obj
  <2>3. /\ obj[1] = "open" /\ obj[2] = Q /\ obj[3] = "instrument_id" /\ obj[4] = Q /\ obj[5] = "colon"
        /\ obj[6] = l.instrument_id /\ obj[7] = "comma" /\ obj[8] = Q /\ obj[9] = "ts_event"
        /\ obj[10] = Q /\ obj[11] = "colon" /\ obj[12] = Q /\ obj[13] = l.ts_event
        /\ obj[14] = Q /\ obj[15] = "close"
    BY <2>2 DEF HdTokens
  <2>4. l.instrument_id \notin Keys /\ l.ts_event \notin Keys /\ Q = "quote"
        /\ l.instrument_id \in DOMAIN Number
    BY TextsDiffer
  <2>5. HasKey(obj, "instrument_id", 2)
    BY <2>1, <2>3, <2>4 DEF HasKey, Keys
  <2>6. HasKey(obj, "ts_event", 8)
    BY <2>1, <2>3, <2>4 DEF HasKey, Keys
  <2>7. IsLeft(obj, obj)
    BY <2>1 DEF IsLeft
  <2>8. getString(obj, "ts_event") = IF 8 + 6 <= Len(obj) THEN <<obj[8 + 5]>> ELSE Nothing
    BY <2>1, <2>3, <2>6, <2>7, GetsString DEF Keys
  <2>9. getNumericRaw(obj, "instrument_id") = IF 2 + 4 <= Len(obj) THEN <<obj[2 + 4]>> ELSE Nothing
    BY <2>1, <2>3, <2>4, <2>5, <2>7, GetsNumber DEF Keys
  <2> QED BY <1>9, <2>1, <2>3, <2>8, <2>9 DEF h
<1> QED BY <1>8, <1>9

\* The price, unless it is null.
LEMMA PriceField ==
  ASSUME NEW l \in Line, NEW t, IsText(t, l), NEW s, IsLeft(s, t)
  PROVE  LET rest == findValue(s, "price")
         IN  (IF rest # Nothing /\ rest[1] = "null" THEN Nothing ELSE getString(s, "price")) =
               IF l.price # "null" /\ 58 <= Len(s) THEN <<l.price>> ELSE Nothing
<1> DEFINE rest == findValue(s, "price")
<1>1. /\ s \in Seq(Token) /\ Len(s) \in Nat /\ t \in Seq(Token) /\ Len(s) <= Len(t)
      /\ Len(t) = Width(l)
  BY DEF IsLeft, IsText
<1>2. HasKey(t, "price", 52)
  BY KeysOnce DEF LineKeys, KeyPlace
<1>3. rest = IF 55 <= Len(s) THEN SubSeq(s, 56, Len(s)) ELSE Nothing
  <2>1. findValue(s, "price") = IF 52 + 3 <= Len(s) THEN SubSeq(s, 52 + 4, Len(s)) ELSE Nothing
    BY <1>1, <1>2, FindsValue DEF Keys
  <2> QED BY <2>1
<1>4. getString(s, "price") = IF Len(rest) >= 3 /\ rest[1] = Q /\ rest[3] = Q THEN <<rest[2]>> ELSE Nothing
  BY DEF getString
<1>5. \A k \in 1 .. Len(PriceTokens(l)) : t[51 + k] = PriceTokens(l)[k]
  BY DEF IsText, Within
<1> HIDE DEF rest
<1>6. rest # Nothing => rest[1] = s[56] /\ 56 \in 1 .. Len(s)
  BY <1>1, <1>3 DEF Nothing
<1>7. CASE l.price = "null"
  <2>1. t[56] = "null"
    BY <1>5, <1>7 DEF PriceTokens
  <2>2. rest # Nothing => rest[1] \in {"null", TornNull, Torn}
    BY <1>6, <2>1 DEF IsLeft
  <2>3. rest # Nothing => rest[1] # Q
    BY <2>2, TextsDiffer DEF TornNull, Torn
  <2>4. getString(s, "price") = Nothing
    <3>1. CASE rest = Nothing
      BY <1>4, <3>1 DEF Nothing
    <3>2. CASE rest # Nothing
      BY <1>4, <2>3, <3>2
    <3> QED BY <3>1, <3>2
  <2> QED BY <1>7, <2>4 DEF rest
<1>8. CASE l.price # "null"
  <2>1. t[56] = Q /\ t[57] = l.price /\ t[58] = Q /\ Len(t) = 59
    BY <1>1, <1>5, <1>8 DEF PriceTokens, Width
  <2>2. rest # Nothing => rest[1] = Q
    BY <1>6, <2>1 DEF IsLeft, Punctuation
  <2>3. getString(s, "price") = IF 52 + 6 <= Len(s) THEN <<t[52 + 5]>> ELSE Nothing
    BY <1>1, <1>2, <2>1, GetsString DEF Keys
  <2>4. Q # "null"
    BY TextsDiffer
  <2> QED BY <1>8, <2>1, <2>2, <2>3, <2>4 DEF rest
<1> QED BY <1>7, <1>8

\* The event of a line of which s is left.
Parsed(l, s) ==
  [ts_recv |-> TimeCounted(l.ts_recv),
   ts_event |-> IF HdAt(l) + 19 <= Len(s) THEN TimeCounted(l.ts_event) ELSE NoTime,
   instrument_id |-> IF HdAt(l) + 19 <= Len(s) THEN Number[l.instrument_id] ELSE 0,
   order_id |-> IF 36 <= Len(s) THEN Number[l.order_id] ELSE 0,
   size |-> IF 42 <= Len(s) THEN Number[s[42]] ELSE 0,
   price |-> IF l.price # "null" /\ 58 <= Len(s) THEN PriceOf(l.price) ELSE Undef]

\* parseLine on what is left of a line.
LEMMA ParsesLine ==
  ASSUME NEW l \in Line, NEW t, IsText(t, l), NEW s, IsLeft(s, t)
  PROVE  parseLine(s) = IF RecvAt(l) + 7 <= Len(s) THEN <<Parsed(l, s)>> ELSE <<>>
<1> DEFINE hd      == getObject(s, "hd")
           tsRecv  == getString(s, "ts_recv")
           tsEvent == getString(hd, "ts_event")
           instId  == getNumericRaw(hd, "instrument_id")
           orderId == getString(s, "order_id")
           size    == getNumericRaw(s, "size")
           rest    == findValue(s, "price")
           price   == IF rest # Nothing /\ rest[1] = "null" THEN Nothing ELSE getString(s, "price")
<1>1. /\ s \in Seq(Token) /\ Len(s) \in Nat /\ t \in Seq(Token) /\ Len(t) = Width(l)
      /\ RecvAt(l) \in {1, 21} /\ Width(l) \in {57, 59}
  BY DEF IsLeft, IsText, RecvAt, Width
<1>2. tsRecv = IF RecvAt(l) + 7 <= Len(s) THEN <<l.ts_recv>> ELSE Nothing
  <2>1. HasKey(t, "ts_recv", RecvAt(l) + 1)
    BY KeysOnce DEF LineKeys, KeyPlace
  <2>2. /\ t[(RecvAt(l) + 1) + 4] = Q /\ t[(RecvAt(l) + 1) + 5] = l.ts_recv
        /\ t[(RecvAt(l) + 1) + 6] = Q
    <3>1. \A k \in 1 .. 7 : t[RecvAt(l) + k] = RecvTokens(l)[k]
      BY DEF IsText, Within, RecvTokens
    <3>2. t[RecvAt(l) + 5] = Q /\ t[RecvAt(l) + 6] = l.ts_recv /\ t[RecvAt(l) + 7] = Q
      BY <3>1 DEF RecvTokens
    <3> QED BY <1>1, <3>2
  <2>3. tsRecv = IF (RecvAt(l) + 1) + 6 <= Len(s) THEN <<t[(RecvAt(l) + 1) + 5]>> ELSE Nothing
    BY <1>1, <2>1, <2>2, GetsString DEF Keys
  <2> QED BY <1>1, <2>2, <2>3
<1>3. orderId = IF 36 <= Len(s) THEN <<l.order_id>> ELSE Nothing
  <2>1. HasKey(t, "order_id", 30)
    BY KeysOnce DEF LineKeys, KeyPlace
  <2>2. \A k \in 1 .. 22 : t[29 + k] = RestTokens(l)[k]
    BY DEF IsText, Within, RestTokens
  <2>3. t[34] = Q /\ t[35] = l.order_id /\ t[36] = Q
    BY <2>2 DEF RestTokens
  <2>4. orderId = IF 30 + 6 <= Len(s) THEN <<t[30 + 5]>> ELSE Nothing
    BY <1>1, <2>1, <2>3, GetsString DEF Keys
  <2> QED BY <2>3, <2>4
<1>4. size = IF 42 <= Len(s) THEN <<s[42]>> ELSE Nothing
  <2>1. HasKey(t, "size", 38)
    BY KeysOnce DEF LineKeys, KeyPlace
  <2>2. \A k \in 1 .. 22 : t[29 + k] = RestTokens(l)[k]
    BY DEF IsText, Within, RestTokens
  <2>3. t[42] \in DOMAIN Number
    BY <2>2, TextsDiffer DEF RestTokens
  <2>4. size = IF 38 + 4 <= Len(s) THEN <<s[38 + 4]>> ELSE Nothing
    BY <1>1, <2>1, <2>3, GetsNumber DEF Keys
  <2> QED BY <2>4
<1>5. price = IF l.price # "null" /\ 58 <= Len(s) THEN <<l.price>> ELSE Nothing
  BY PriceField
<1>6. /\ tsEvent = IF HdAt(l) + 19 <= Len(s) THEN <<l.ts_event>> ELSE Nothing
      /\ instId = IF HdAt(l) + 19 <= Len(s) THEN <<l.instrument_id>> ELSE Nothing
  BY HdFields
<1>7. Throws(s) <=> \/ tsRecv = Nothing \/ tsRecv[1] \notin DOMAIN Stamp
                    \/ tsEvent # Nothing /\ tsEvent[1] \notin DOMAIN Stamp
  BY DEF Throws
<1>8. parseLine(s) =
        IF Throws(s) THEN <<>>
        ELSE <<[ts_recv  |-> TimeCounted(tsRecv[1]),
                ts_event |-> Field(tsEvent, TimeCounted(tsEvent[1]), NoTime),
                instrument_id |-> Field(instId, Number[instId[1]], 0),
                order_id |-> Field(orderId, Number[orderId[1]], 0),
                size     |-> Field(size, Number[size[1]], 0),
                price    |-> Field(price, PriceOf(price[1]), Undef)]>>
  BY DEF parseLine
<1> HIDE DEF hd, tsRecv, tsEvent, instId, orderId, size, rest, price
<1>9. Throws(s) <=> ~(RecvAt(l) + 7 <= Len(s))
  <2>1. l.ts_recv \in DOMAIN Stamp /\ l.ts_event \in DOMAIN Stamp
    BY TextsDiffer
  <2>2. \A x : <<x>> # Nothing
    BY DEF Nothing
  <2> QED BY <1>2, <1>6, <1>7, <2>1, <2>2
<1>10. \A x, v, d : Field(<<x>>, v, d) = v /\ Field(Nothing, v, d) = d
  BY DEF Field, Nothing
<1>11. ASSUME RecvAt(l) + 7 <= Len(s)
       PROVE  /\ TimeCounted(tsRecv[1]) = TimeCounted(l.ts_recv)
              /\ Field(tsEvent, TimeCounted(tsEvent[1]), NoTime) =
                   IF HdAt(l) + 19 <= Len(s) THEN TimeCounted(l.ts_event) ELSE NoTime
              /\ Field(instId, Number[instId[1]], 0) =
                   IF HdAt(l) + 19 <= Len(s) THEN Number[l.instrument_id] ELSE 0
              /\ Field(orderId, Number[orderId[1]], 0) = IF 36 <= Len(s) THEN Number[l.order_id] ELSE 0
              /\ Field(size, Number[size[1]], 0) = IF 42 <= Len(s) THEN Number[s[42]] ELSE 0
              /\ Field(price, PriceOf(price[1]), Undef) =
                   IF l.price # "null" /\ 58 <= Len(s) THEN PriceOf(l.price) ELSE Undef
  <2>1. tsRecv[1] = l.ts_recv
    BY <1>2, <1>11
  <2>2. Field(tsEvent, TimeCounted(tsEvent[1]), NoTime) =
          IF HdAt(l) + 19 <= Len(s) THEN TimeCounted(l.ts_event) ELSE NoTime
    BY <1>6, <1>10
  <2>3. Field(instId, Number[instId[1]], 0) =
          IF HdAt(l) + 19 <= Len(s) THEN Number[l.instrument_id] ELSE 0
    BY <1>6, <1>10
  <2>4. Field(orderId, Number[orderId[1]], 0) = IF 36 <= Len(s) THEN Number[l.order_id] ELSE 0
    BY <1>3, <1>10
  <2>5. Field(size, Number[size[1]], 0) = IF 42 <= Len(s) THEN Number[s[42]] ELSE 0
    BY <1>4, <1>10
  <2>6. Field(price, PriceOf(price[1]), Undef) =
          IF l.price # "null" /\ 58 <= Len(s) THEN PriceOf(l.price) ELSE Undef
    BY <1>5, <1>10
  <2> QED BY <2>1, <2>2, <2>3, <2>4, <2>5, <2>6
<1>12. CASE RecvAt(l) + 7 <= Len(s)
  <2> DEFINE a == TimeCounted(tsRecv[1])
             b == Field(tsEvent, TimeCounted(tsEvent[1]), NoTime)
             c == Field(instId, Number[instId[1]], 0)
             d == Field(orderId, Number[orderId[1]], 0)
             e == Field(size, Number[size[1]], 0)
             f == Field(price, PriceOf(price[1]), Undef)
  <2>1. parseLine(s) = <<[ts_recv |-> a, ts_event |-> b, instrument_id |-> c, order_id |-> d,
                          size |-> e, price |-> f]>>
    BY <1>8, <1>9, <1>12
  <2>2. /\ a = TimeCounted(l.ts_recv)
        /\ b = IF HdAt(l) + 19 <= Len(s) THEN TimeCounted(l.ts_event) ELSE NoTime
        /\ c = IF HdAt(l) + 19 <= Len(s) THEN Number[l.instrument_id] ELSE 0
        /\ d = IF 36 <= Len(s) THEN Number[l.order_id] ELSE 0
        /\ e = IF 42 <= Len(s) THEN Number[s[42]] ELSE 0
        /\ f = IF l.price # "null" /\ 58 <= Len(s) THEN PriceOf(l.price) ELSE Undef
    BY <1>11, <1>12
  <2> HIDE DEF a, b, c, d, e, f
  <2>3. Parsed(l, s) = [ts_recv |-> a, ts_event |-> b, instrument_id |-> c, order_id |-> d,
                        size |-> e, price |-> f]
    BY <2>2, Zenon DEF Parsed
  <2> QED BY <1>12, <2>1, <2>3, Zenon
<1>13. CASE ~(RecvAt(l) + 7 <= Len(s))
  BY <1>8, <1>9, <1>13
<1> QED BY <1>12, <1>13

\* JsonSimpleDataParser.cpp, parseLine: for all files and lines, wherever each line is cut
\* off, a whole line is read for what it says, and the event of a damaged one has the
\* fields that are left of it and the defaults of the others.
THEOREM LinesAreKeptApart == JsonSpec => []SimpleKeepsLinesApart
<1> DEFINE Typed == textFile \in Seq(LinesLeft)
<1>1. JsonInit => Typed
  BY TextFilesAssumption DEF JsonInit
<1>2. Typed /\ [JsonNext]_jsonVars => Typed'
  BY DEF JsonNext, Begin, Fields, Hd, Returned, jsonVars
<1>3. Typed => SimpleKeepsLinesApart
  <2> SUFFICES ASSUME Typed, NEW i \in DOMAIN textFile
               PROVE  LET m == Meaning(textFile[i].line)
                          events == parseLine(Left(textFile[i]))
                      IN  /\ Intact(textFile[i]) => events = <<m>>
                          /\ \A k \in DOMAIN events : \A f \in DOMAIN m :
                               \/ events[k][f] \in {m[f], Default[f]}
                               \/ textFile[i].torn /\ f = "size" /\ events[k][f] = Number[Torn]
    BY DEF SimpleKeepsLinesApart
  <2> DEFINE w == textFile[i]
             l == w.line
             s == Left(w)
             t == Text(l)
  <2>1. w \in LinesLeft /\ l \in Line
    BY DEF LinesLeft
  <2> HIDE DEF w
  <2>2. IsText(t, l) /\ IsLeft(s, t) /\ Len(s) = w.kept
    BY <2>1, TextIs, LeftIs
  <2>3. parseLine(s) = IF RecvAt(l) + 7 <= Len(s) THEN <<Parsed(l, s)>> ELSE <<>>
    BY <2>1, <2>2, ParsesLine
  <2>4. t[42] = l.size /\ (42 <= Len(s) => 42 \in 1 .. Len(s)) /\ Len(t) = Width(l)
    <3>1. \A k \in 1 .. 22 : t[29 + k] = RestTokens(l)[k]
      BY <2>2 DEF IsText, Within, RestTokens
    <3>2. t[29 + 13] = l.size
      BY <3>1 DEF RestTokens
    <3> QED BY <2>2, <3>2 DEF IsText, IsLeft
  <2>5. 42 <= Len(s) => s[42] = l.size \/ (w.torn /\ s[42] = Torn)
    <3> SUFFICES ASSUME 42 <= Len(s) PROVE s[42] = l.size \/ (w.torn /\ s[42] = Torn)
      OBVIOUS
    <3>1. s[42] = t[42] \/ (t[42] # "null" /\ s[42] = Torn)
      <4>1. l.size # "null"
        BY <2>1, TextsDiffer, TablesAre
      <4> QED BY <2>2, <2>4, <4>1 DEF IsLeft
    <3>2. w.torn \in BOOLEAN /\ (~w.torn => s[42] = t[42])
      BY <2>1, <2>2, <2>4, LeftIs DEF LinesLeft
    <3> QED BY <2>4, <3>1, <3>2
  <2>6. Intact(w) => parseLine(s) = <<Meaning(l)>>
    <3> SUFFICES ASSUME Intact(w) PROVE parseLine(s) = <<Meaning(l)>>
      OBVIOUS
    <3>1. Len(s) = Width(l) /\ ~w.torn
      BY <2>2, <2>4 DEF Intact
    <3>2. RecvAt(l) + 7 <= Len(s) /\ HdAt(l) + 19 <= Len(s) /\ 42 <= Len(s) /\ 36 <= Len(s)
          /\ (l.price # "null" => 58 <= Len(s))
      BY <3>1 DEF RecvAt, HdAt, Width
    <3>3. s[42] = l.size
      BY <2>5, <3>1, <3>2
    <3>4. Parsed(l, s) = Meaning(l)
      BY <3>2, <3>3, Zenon DEF Parsed, Meaning
    <3> QED BY <2>3, <3>2, <3>4
  <2>7. ASSUME NEW k \in DOMAIN parseLine(s), NEW f \in DOMAIN Meaning(l)
        PROVE  \/ parseLine(s)[k][f] \in {Meaning(l)[f], Default[f]}
               \/ w.torn /\ f = "size" /\ parseLine(s)[k][f] = Number[Torn]
    <3>1. parseLine(s)[k] = Parsed(l, s)
      BY <2>3
    <3>2. f \in {"ts_recv", "ts_event", "instrument_id", "order_id", "size", "price"}
      BY DEF Meaning
    <3>3. CASE f # "size"
      BY <3>1, <3>2, <3>3 DEF Parsed, Meaning, Default
    <3>4. CASE f = "size"
      <4>1. Parsed(l, s).size = (IF 42 <= Len(s) THEN Number[s[42]] ELSE 0) /\ Default.size = 0
            /\ Meaning(l).size = Number[l.size]
        BY DEF Parsed, Meaning, Default
      <4> QED BY <2>5, <3>1, <3>4, <4>1
    <3> QED BY <3>3, <3>4
  <2> QED BY <2>6, <2>7 DEF w
<1> QED BY <1>1, <1>2, <1>3, PTL DEF JsonSpec
-----------------------------------------------------------------------------
(* JsonNativeDataParser on the lines before the first damaged one *)

\* FlattenSeq, which joins the first i for each i.
Joining(f, s, n) == [i \in 1 .. n |-> IF i = 1 THEN s[i] ELSE f[i - 1] \o s[i]]
Joined(s) == CHOOSE f : f = Joining(f, s, Len(s))

\* The recursive function of FlattenSeq exists, and so it is what its definition says.
LEMMA JoinedIs ==
  ASSUME NEW S, NEW s \in Seq(Seq(S)), Len(s) # 0
  PROVE  Joined(s) = Joining(Joined(s), s, Len(s)) /\ FlattenSeq(s) = Joined(s)[Len(s)]
<1> DEFINE R == {n \in Nat : \E f : f = Joining(f, s, n)}
<1>1. Len(s) \in Nat /\ Len(s) >= 1
  OBVIOUS
<1>2. 1 \in R
  <2> DEFINE f == [i \in 1 .. 1 |-> s[1]]
  <2>1. f = Joining(f, s, 1)
    BY DEF Joining
  <2> HIDE DEF f
  <2> QED BY <2>1
<1>3. ASSUME NEW n \in 1 + 1 .. Len(s), n - 1 \in R PROVE n \in R
  <2>1. PICK f : f = Joining(f, s, n - 1)
    BY <1>3
  <2> DEFINE g == [i \in 1 .. n |-> IF i = n THEN f[n - 1] \o s[n] ELSE f[i]]
  <2>2. ASSUME NEW i \in 1 .. n PROVE g[i] = Joining(g, s, n)[i]
    <3>1. CASE i = n
      <4>1. n - 1 \in 1 .. n /\ n - 1 # n /\ n # 1
        BY <1>3
      <4>2. g[n - 1] = f[n - 1]
        BY <4>1
      <4> HIDE DEF g
      <4>3. Joining(g, s, n)[n] = g[n - 1] \o s[n]
        <5>1. n \in 1 .. n
          BY <4>1
        <5> QED BY <4>1, <5>1 DEF Joining
      <4> QED BY <3>1, <4>2, <4>3 DEF g
    <3>2. CASE i # n
      <4>1. i \in 1 .. n - 1 /\ g[i] = f[i]
        BY <1>3, <3>2
      <4>2. f[i] = IF i = 1 THEN s[i] ELSE f[i - 1] \o s[i]
        BY <2>1, <4>1 DEF Joining
      <4>3. i # 1 => g[i - 1] = f[i - 1]
        BY <1>3, <3>2, <4>1
      <4> HIDE DEF g
      <4>4. Joining(g, s, n)[i] = IF i = 1 THEN s[i] ELSE g[i - 1] \o s[i]
        BY DEF Joining
      <4> QED BY <4>1, <4>2, <4>3, <4>4
    <3> QED BY <3>1, <3>2
  <2>3. g = Joining(g, s, n)
    <3>1. DOMAIN g = 1 .. n /\ g = [i \in 1 .. n |-> g[i]]
      OBVIOUS
    <3> HIDE DEF g
    <3>2. Joining(g, s, n) = [i \in 1 .. n |-> Joining(g, s, n)[i]]
      BY DEF Joining
    <3> QED BY <2>2, <3>1, <3>2
  <2> HIDE DEF g
  <2> QED BY <1>3, <2>3
<1>4. Len(s) \in R
  <2> HIDE DEF R
  <2>1. \A n \in 1 .. Len(s) : n \in R
    BY <1>1, <1>2, <1>3, UpTo
  <2> QED BY <1>1, <2>1
<1>5. \E f : f = Joining(f, s, Len(s))
  BY <1>4
<1>6. Joined(s) = Joining(Joined(s), s, Len(s))
  BY <1>5 DEF Joined
<1>7. FlattenSeq(s) = Joined(s)[Len(s)]
  BY <1>1, Zenon DEF FlattenSeq, Joined, Joining
<1> QED BY <1>6, <1>7

\* b begins with a.
Begins(a, b) == Len(a) <= Len(b) /\ \A k \in 1 .. Len(a) : b[k] = a[k]

\* s \o t is s followed by t.
LEMMA ConcatIs ==
  ASSUME NEW S, NEW s \in Seq(S), NEW t \in Seq(S)
  PROVE  /\ s \o t \in Seq(S) /\ Len(s \o t) = Len(s) + Len(t) /\ Begins(s, s \o t)
         /\ \A k \in 1 .. Len(t) : (s \o t)[Len(s) + k] = t[k]
BY DEF Begins

\* To begin is transitive.
LEMMA BeginsTwice ==
  ASSUME NEW a, NEW b, NEW c, Len(a) \in Nat, Len(b) \in Nat, Len(c) \in Nat, Begins(a, b), Begins(b, c)
  PROVE  Begins(a, c)
<1>1. \A k \in 1 .. Len(a) : k \in 1 .. Len(b)
  BY DEF Begins
<1> QED BY <1>1 DEF Begins

\* A sequence of sequences and its flattening f[Len(s)]: each f[i] begins it.
LEMMA JoinedBegins ==
  ASSUME NEW S, NEW s \in Seq(Seq(S)), Len(s) # 0, NEW i \in 1 .. Len(s)
  PROVE  /\ Joined(s)[i] \in Seq(S)
         /\ Joined(s)[i] = IF i = 1 THEN s[i] ELSE Joined(s)[i - 1] \o s[i]
         /\ Begins(Joined(s)[i], FlattenSeq(s))
<1> DEFINE f == Joined(s)
           n == Len(s)
<1>1. f = Joining(f, s, n) /\ FlattenSeq(s) = f[n]
  BY JoinedIs
<1> HIDE DEF f
<1>2. \A j \in 1 .. n : f[j] = IF j = 1 THEN s[j] ELSE f[j - 1] \o s[j]
  BY <1>1 DEF Joining
<1>3. n \in Nat /\ 1 <= n /\ \A j \in 1 .. n : s[j] \in Seq(S)
  OBVIOUS
<1> HIDE DEF n
<1>4. \A j \in 1 .. n : f[j] \in Seq(S)
  <2> DEFINE R == {j \in Nat : f[j] \in Seq(S)}
  <2>1. 1 \in R
    BY <1>2, <1>3
  <2>2. ASSUME NEW j \in 1 + 1 .. n, j - 1 \in R PROVE j \in R
    <3>1. j \in 1 .. n /\ j # 1 /\ j \in Nat /\ f[j - 1] \in Seq(S)
      BY <1>3, <2>2
    <3>2. f[j] = f[j - 1] \o s[j] /\ s[j] \in Seq(S)
      BY <1>2, <1>3, <3>1, Zenon
    <3>3. f[j - 1] \o s[j] \in Seq(S)
      BY <3>1, <3>2, ConcatIs
    <3> QED BY <3>1, <3>2, <3>3, Zenon
  <2> HIDE DEF R
  <2>3. \A j \in 1 .. n : j \in R
    BY <1>3, <2>1, <2>2, UpTo
  <2> QED BY <2>3 DEF R
<1>5. Begins(f[i], f[n])
  <2> DEFINE R == {j \in Nat : Begins(f[i], f[j])}
  <2>1. i \in R
    BY <1>3, <1>4 DEF Begins, n
  <2>2. ASSUME NEW j \in i + 1 .. n, j - 1 \in R PROVE j \in R
    <3>1. i \in Nat /\ i >= 1 /\ j \in 1 .. n /\ j - 1 \in 1 .. n /\ j # 1
      BY <1>3 DEF n
    <3>2. f[j] = f[j - 1] \o s[j] /\ s[j] \in Seq(S) /\ f[j - 1] \in Seq(S) /\ f[i] \in Seq(S)
      BY <1>2, <1>3, <1>4, <3>1, Zenon DEF n
    <3>3. Begins(f[i], f[j - 1])
      BY <2>2
    <3>4. Begins(f[j - 1], f[j - 1] \o s[j]) /\ f[j - 1] \o s[j] \in Seq(S)
      <4> DEFINE a == f[j - 1]
                 b == s[j]
      <4>1. a \in Seq(S) /\ b \in Seq(S)
        BY <3>2
      <4> HIDE DEF a, b
      <4>2. Begins(a, a \o b) /\ a \o b \in Seq(S)
        BY <4>1, ConcatIs
      <4> QED BY <4>2 DEF a, b
    <3>5. Begins(f[i], f[j - 1] \o s[j])
      <4> DEFINE a == f[i]
                 b == f[j - 1]
                 c == f[j - 1] \o s[j]
      <4>1. a \in Seq(S) /\ b \in Seq(S) /\ c \in Seq(S) /\ Begins(a, b) /\ Begins(b, c)
        BY <3>2, <3>3, <3>4, Zenon
      <4> HIDE DEF a, b, c
      <4>2. Len(a) \in Nat /\ Len(b) \in Nat /\ Len(c) \in Nat
        BY <4>1
      <4>3. Begins(a, c)
        BY <4>1, <4>2, BeginsTwice
      <4> QED BY <4>3 DEF a, c
    <3>6. Begins(f[i], f[j]) /\ j \in Nat
      BY <3>1, <3>2, <3>5
    <3> QED BY <3>6
  <2> HIDE DEF R
  <2>3. \A j \in i .. n : j \in R
    <3>1. i \in Nat
      BY <1>3 DEF n
    <3> QED BY <1>3, <2>1, <2>2, <3>1, UpTo
  <2>4. n \in i .. n
    BY <1>3 DEF n
  <2> QED BY <2>3, <2>4 DEF R
<1> QED BY <1>1, <1>2, <1>4, <1>5 DEF f, n

\* off[i] is where the newline of the i-th line is.
LaidOut(off) ==
  /\ off \in [0 .. Len(textFile) -> Nat] /\ off[0] = 0 /\ off[Len(textFile)] = Len(data)
  /\ data \in Seq(Token \union {"nl"})
  /\ \A i \in 1 .. Len(textFile) :
       /\ off[i] = off[i - 1] + Len(Left(textFile[i])) + 1 /\ off[i] <= Len(data)
       /\ data[off[i]] = "nl"
       /\ \A k \in 1 .. Len(Left(textFile[i])) : data[off[i - 1] + k] = Left(textFile[i])[k]

\* The lines are in the data, one after the other.
LEMMA DataIs ==
  ASSUME textFile \in Seq(LinesLeft),
         data = FlattenSeq([i \in DOMAIN textFile |-> Append(Left(textFile[i]), "nl")])
  PROVE  \E off : LaidOut(off)
<1> DEFINE S == Token \union {"nl"}
           s == [i \in DOMAIN textFile |-> Append(Left(textFile[i]), "nl")]
           n == Len(textFile)
<1>1. ASSUME NEW i \in 1 .. n
      PROVE  /\ Left(textFile[i]) \in Seq(Token) /\ Append(Left(textFile[i]), "nl") \in Seq(S)
             /\ Len(Append(Left(textFile[i]), "nl")) = Len(Left(textFile[i])) + 1
             /\ \A k \in 1 .. Len(Left(textFile[i])) :
                  Append(Left(textFile[i]), "nl")[k] = Left(textFile[i])[k]
             /\ Append(Left(textFile[i]), "nl")[Len(Left(textFile[i])) + 1] = "nl"
  <2>1. textFile[i] \in LinesLeft
    OBVIOUS
  <2>2. Left(textFile[i]) \in Seq(Token)
    BY <2>1, LeftIs DEF IsLeft
  <2> QED BY <2>2
<1>2. s \in Seq(Seq(S)) /\ Len(s) = n /\ n \in Nat
  <2>1. DOMAIN textFile = 1 .. n /\ n \in Nat
    OBVIOUS
  <2>2. s \in [1 .. n -> Seq(S)]
    BY <1>1, <2>1
  <2> QED BY <2>1, <2>2
<1>3. \A i \in 1 .. n : s[i] = Append(Left(textFile[i]), "nl")
  OBVIOUS
<1>4. data = FlattenSeq(s)
  OBVIOUS
<1> HIDE DEF s
<1>5. CASE n = 0
  <2>1. data = <<>>
    <3>1. s = <<>>
      BY <1>2, <1>5
    <3> QED BY <1>4, <3>1 DEF FlattenSeq
  <2> DEFINE off == [j \in 0 .. n |-> 0]
  <2>2. off \in [0 .. n -> Nat] /\ off[0] = 0 /\ off[n] = 0 /\ 1 .. n = {}
    BY <1>2, <1>5
  <2>3. Len(data) = 0 /\ data \in Seq(S)
    BY <2>1
  <2> HIDE DEF off
  <2>4. LaidOut(off)
    BY <2>2, <2>3 DEF LaidOut
  <2> QED BY <2>4
<1>6. CASE n # 0
  <2> DEFINE f == Joined(s)
             off == [j \in 0 .. n |-> IF j = 0 THEN 0 ELSE Len(f[j])]
  <2>1. \A i \in 1 .. n : /\ f[i] \in Seq(S)
                          /\ f[i] = IF i = 1 THEN s[i] ELSE f[i - 1] \o s[i]
                          /\ Begins(f[i], data)
    BY <1>2, <1>4, <1>6, JoinedBegins
  <2>2. data = f[n]
    BY <1>2, <1>4, <1>6, JoinedIs
  <2> HIDE DEF f
  <2>3. n \in 1 .. n
    BY <1>2, <1>6
  <2>4. data \in Seq(S) /\ Len(data) \in Nat
    BY <2>1, <2>2, <2>3
  <2>5. off \in [0 .. n -> Nat] /\ off[0] = 0 /\ off[n] = Len(data)
    BY <1>2, <2>1, <2>2, <2>3
  <2>6. ASSUME NEW i \in 1 .. n
        PROVE  /\ off[i] = off[i - 1] + Len(Left(textFile[i])) + 1 /\ off[i] <= Len(data)
               /\ data[off[i]] = "nl"
               /\ \A k \in 1 .. Len(Left(textFile[i])) : data[off[i - 1] + k] = Left(textFile[i])[k]
    <3> DEFINE m == Len(Left(textFile[i]))
    <3>1. /\ s[i] \in Seq(S) /\ m \in Nat /\ Len(s[i]) = m + 1 /\ s[i][m + 1] = "nl"
          /\ \A k \in 1 .. m : s[i][k] = Left(textFile[i])[k]
      <4>1. s[i] = Append(Left(textFile[i]), "nl")
        BY <1>3
      <4>2. m \in Nat
        BY <1>1
      <4> QED BY <1>1, <4>1, <4>2, Zenon
    <3> HIDE DEF m
    <3>2. off[i] = Len(f[i]) /\ i - 1 \in 0 .. n /\ off[i - 1] \in Nat
      BY <1>2, <2>5
    <3>3. Len(f[i]) = off[i - 1] + Len(s[i]) /\ \A k \in 1 .. Len(s[i]) : f[i][off[i - 1] + k] = s[i][k]
      <4>1. CASE i = 1
        <5>1. f[i] = s[i] /\ off[i - 1] = 0
          BY <2>1, <2>5, <4>1
        <5> HIDE DEF off
        <5>2. Len(s[i]) = 0 + Len(s[i]) /\ \A k \in 1 .. Len(s[i]) : 0 + k = k
          BY <3>1
        <5> QED BY <5>1, <5>2
      <4>2. CASE i # 1
        <5>1. i - 1 \in 1 .. n /\ i - 1 # 0 /\ off[i - 1] = Len(f[i - 1])
          BY <1>2, <3>2, <4>2
        <5>2. f[i] = f[i - 1] \o s[i] /\ f[i - 1] \in Seq(S)
          BY <2>1, <4>2, <5>1, Zenon
        <5>3. /\ Len(f[i - 1] \o s[i]) = Len(f[i - 1]) + Len(s[i])
              /\ \A k \in 1 .. Len(s[i]) : (f[i - 1] \o s[i])[Len(f[i - 1]) + k] = s[i][k]
          <6> DEFINE a == f[i - 1]
                     b == s[i]
          <6>1. a \in Seq(S) /\ b \in Seq(S)
            BY <3>1, <5>2
          <6> HIDE DEF a, b
          <6>2. Len(a \o b) = Len(a) + Len(b) /\ \A k \in 1 .. Len(b) : (a \o b)[Len(a) + k] = b[k]
            BY <6>1, ConcatIs
          <6> QED BY <6>2 DEF a, b
        <5> HIDE DEF off
        <5>4. f[i] = f[i - 1] \o s[i]
          BY <5>2
        <5> QED BY <5>1, <5>3, <5>4, Zenon
      <4> QED BY <4>1, <4>2
    <3> HIDE DEF off
    <3>4. Begins(f[i], data)
      BY <2>1
    <3>5. Len(f[i]) <= Len(data) /\ \A k \in 1 .. Len(s[i]) : data[off[i - 1] + k] = s[i][k]
      <4>1. \A k \in 1 .. Len(s[i]) : off[i - 1] + k \in 1 .. Len(f[i])
        <5> DEFINE x == Len(s[i])
                   y == Len(f[i])
                   z == off[i - 1]
        <5>1. x \in Nat /\ z \in Nat /\ y = z + x
          BY <3>1, <3>2, <3>3
        <5> HIDE DEF x, y, z
        <5>2. \A k \in 1 .. x : z + k \in 1 .. y
          BY <5>1
        <5> QED BY <5>2 DEF x, y, z
      <4> QED BY <3>3, <3>4, <4>1 DEF Begins
    <3>6. data[off[i]] = "nl"
      <4>1. m + 1 \in 1 .. Len(s[i]) /\ off[i] = off[i - 1] + (m + 1)
        BY <3>1, <3>2, <3>3
      <4> QED BY <3>1, <3>5, <4>1
    <3>7. \A k \in 1 .. m : data[off[i - 1] + k] = Left(textFile[i])[k]
      <4> SUFFICES ASSUME NEW k \in 1 .. m PROVE data[off[i - 1] + k] = Left(textFile[i])[k]
        OBVIOUS
      <4>1. k \in 1 .. Len(s[i])
        BY <3>1
      <4> QED BY <3>1, <3>5, <4>1, Zenon
    <3>8. off[i] = off[i - 1] + m + 1 /\ off[i] <= Len(data)
      <4> DEFINE x == Len(s[i])
                 y == Len(f[i])
                 z == off[i - 1]
                 w == off[i]
      <4>1. x = m + 1 /\ w = y /\ y = z + x /\ y <= Len(data) /\ z \in Nat /\ m \in Nat
        BY <3>1, <3>2, <3>3, <3>5
      <4> HIDE DEF x, y, z, w
      <4>2. w = z + m + 1 /\ w <= Len(data)
        BY <4>1
      <4> QED BY <4>2 DEF z, w
    <3> QED BY <3>6, <3>7, <3>8, Zenon DEF m
  <2> HIDE DEF off
  <2>7. LaidOut(off)
    BY <2>4, <2>5, <2>6 DEF LaidOut
  <2> QED BY <2>7
<1> QED BY <1>5, <1>6

\* The first position from p on that has one of the tokens, or none of them, is q.
FirstWith(p, q, tokens) ==
  p \in Nat /\ q \in p .. Len(data) /\ data[q] \in tokens /\ \A r \in p .. q - 1 : data[r] \notin tokens
FirstWithout(p, q, tokens) ==
  p \in Nat /\ q \in p .. Len(data) /\ data[q] \notin tokens /\ \A r \in p .. q - 1 : data[r] \in tokens

\* Find stops at the first position with one of the tokens.
LEMMA FindIs ==
  ASSUME Len(data) \in Nat, NEW p, NEW q, NEW tokens, FirstWith(p, q, tokens)
  PROVE  Find(p, tokens) = q
<1> DEFINE Good(x) == /\ x = End \/ data[x] \in tokens
                      /\ \A r \in p .. x - 1 : data[r] \notin tokens
           c == CHOOSE x \in p .. End : Good(x)
<1>1. p \in Nat /\ q \in Nat /\ p <= q /\ q < End /\ End \in Nat
  BY DEF FirstWith, End
<1>2. q \in p .. End /\ Good(q)
  BY <1>1 DEF FirstWith
<1>3. ASSUME NEW x \in p .. End, Good(x) PROVE x = q
  <2>1. ~(x < q)
    <3> SUFFICES ASSUME x < q PROVE FALSE
      OBVIOUS
    <3>1. x \in p .. q - 1 /\ x # End
      BY <1>1
    <3> QED BY <1>3, <3>1 DEF FirstWith
  <2>2. ~(q < x)
    <3> SUFFICES ASSUME q < x PROVE FALSE
      OBVIOUS
    <3>1. q \in p .. x - 1
      BY <1>1
    <3> QED BY <1>3, <3>1 DEF FirstWith
  <2> QED BY <1>1, <2>1, <2>2
<1>4. Find(p, tokens) = c
  BY <1>1 DEF Find
<1> HIDE DEF Good
<1>5. c \in p .. End /\ Good(c)
  BY <1>2
<1> QED BY <1>3, <1>4, <1>5

\* Skip stops at the first position without any of the tokens.
LEMMA SkipIs ==
  ASSUME Len(data) \in Nat, NEW p, NEW q, NEW tokens, FirstWithout(p, q, tokens)
  PROVE  Skip(p, tokens) = q
<1> DEFINE Good(x) == /\ x = End \/ data[x] \notin tokens
                      /\ \A r \in p .. x - 1 : data[r] \in tokens
           c == CHOOSE x \in p .. End : Good(x)
<1>1. p \in Nat /\ q \in Nat /\ p <= q /\ q < End /\ End \in Nat
  BY DEF FirstWithout, End
<1>2. q \in p .. End /\ Good(q)
  BY <1>1 DEF FirstWithout
<1>3. ASSUME NEW x \in p .. End, Good(x) PROVE x = q
  <2>1. ~(x < q)
    <3> SUFFICES ASSUME x < q PROVE FALSE
      OBVIOUS
    <3>1. x \in p .. q - 1 /\ x # End
      BY <1>1
    <3> QED BY <1>3, <3>1 DEF FirstWithout
  <2>2. ~(q < x)
    <3> SUFFICES ASSUME q < x PROVE FALSE
      OBVIOUS
    <3>1. q \in p .. x - 1
      BY <1>1
    <3> QED BY <1>3, <3>1 DEF FirstWithout
  <2> QED BY <1>1, <2>1, <2>2
<1>4. Skip(p, tokens) = c
  BY <1>1 DEF Skip
<1> HIDE DEF Good
<1>5. c \in p .. End /\ Good(c)
  BY <1>2
<1> QED BY <1>3, <1>4, <1>5

\* A name, with its quotes and its colon, at p, and a text between quotes at v.
NamedAt(p, key) ==
  /\ p \in Nat \ {0} /\ p + 4 <= Len(data) /\ key # Q
  /\ data[p] = Q /\ data[p + 1] = key /\ data[p + 2] = Q /\ data[p + 3] = "colon"
  /\ data[p + 4] # "colon"
QuotedAt(v, text) ==
  /\ v \in Nat \ {0} /\ v + 2 <= Len(data) /\ text # Q
  /\ data[v] = Q /\ data[v + 1] = text /\ data[v + 2] = Q

\* One token of a sequence.
LEMMA OneToken ==
  ASSUME NEW S, NEW s \in Seq(S), NEW k \in 1 .. Len(s)
  PROVE  SubSeq(s, k, k) = <<s[k]>>
<1> DEFINE u == SubSeq(s, k, k)
           x == s[k]
<1>1. x \in S /\ u \in Seq(S) /\ Len(u) = 1 /\ u[1] = x
  OBVIOUS
<1> HIDE DEF u, x
<1>2. u = <<x>>
  BY <1>1
<1> QED BY <1>2 DEF u, x

\* What the parser reads at a name.
LEMMA ReadsName ==
  ASSUME Len(data) \in Nat, NEW p, NEW key, NamedAt(p, key)
  PROVE  Key(p) = key /\ ValueAt(p) = p + 4
<1>1. p + 1 \in Nat /\ p + 2 \in Nat /\ p + 2 < End /\ Q # "colon"
  BY TextsDiffer DEF NamedAt, End, Q
<1>2. FirstWith(p + 1, p + 2, {Q})
  <2>1. ASSUME NEW r \in p + 1 .. (p + 2) - 1 PROVE r = p + 1
    BY DEF NamedAt
  <2> QED BY <1>1, <2>1 DEF FirstWith, NamedAt
<1>3. KeyEnd(p) = p + 2
  BY <1>2, FindIs DEF KeyEnd
<1>4. FirstWithout(p + 3, p + 4, {"colon"})
  <2>1. ASSUME NEW r \in p + 3 .. (p + 4) - 1 PROVE r = p + 3
    BY DEF NamedAt
  <2> QED BY <1>1, <2>1 DEF FirstWithout, NamedAt
<1>5. Past(p + 2) = p + 3
  BY <1>1 DEF Past, NamedAt
<1>6. Skip(p + 3, {"colon"}) = p + 4
  BY <1>4, SkipIs
<1> QED BY <1>3, <1>5, <1>6 DEF Key, ValueAt, NamedAt

\* What it reads at the quote before a text.
LEMMA ReadsQuoted ==
  ASSUME Len(data) \in Nat, data \in Seq(Token \union {"nl"}), NEW v, NEW text, QuotedAt(v, text)
  PROVE  /\ At(v, Q) /\ v + 1 < End /\ data[v + 1] = text
         /\ TextEnd(v) = v + 2 /\ Past(TextEnd(v)) = v + 3 /\ TextAt(v) = <<text>>
         /\ AfterString(v + 1) = v + 3
<1>1. v \in Nat /\ v + 2 < End /\ v + 1 \in Nat /\ v + 2 \in Nat
  BY DEF QuotedAt, End
<1>2. FirstWith(v + 1, v + 2, {Q})
  <2>1. ASSUME NEW r \in v + 1 .. (v + 2) - 1 PROVE r = v + 1
    BY <1>1
  <2> QED BY <1>1, <2>1 DEF FirstWith, QuotedAt
<1>3. Find(v + 1, {Q}) = v + 2
  BY <1>2, FindIs
<1>4. Past(v + 2) = v + 3
  BY <1>1 DEF Past
<1>5. SubSeq(data, v + 1, (v + 2) - 1) = <<text>>
  <2>1. (v + 2) - 1 = v + 1 /\ v + 1 \in 1 .. Len(data)
    BY <1>1 DEF QuotedAt
  <2> DEFINE k == v + 1
  <2>2. k \in 1 .. Len(data)
    BY <2>1
  <2> HIDE DEF k
  <2>3. SubSeq(data, k, k) = <<data[k]>>
    BY <2>2, OneToken
  <2>4. data[k] = text
    BY DEF QuotedAt, k
  <2>5. SubSeq(data, v + 1, v + 1) = <<text>>
    BY <2>3, <2>4 DEF k
  <2> QED BY <2>1, <2>5
<1>6. TextEnd(v) = v + 2
  BY <1>3 DEF TextEnd
<1>7. TextAt(v) = <<text>>
  BY <1>5, <1>6, Zenon DEF TextAt
<1>8. At(v, Q) /\ v + 1 < End /\ data[v + 1] = text
  BY <1>1 DEF At, QuotedAt, End
<1>9. AfterString(v + 1) = v + 3
  BY <1>3, <1>4 DEF AfterString
<1> QED BY <1>4, <1>6, <1>7, <1>8, <1>9, Zenon

\* The line l is in the data, after the first o tokens.
LineAt(o, l) ==
  /\ o \in Nat /\ l \in Line /\ Len(data) \in Nat /\ data \in Seq(Token \union {"nl"})
  /\ o + Width(l) + 1 <= Len(data) /\ data[o + Width(l) + 1] = "nl"
  /\ \A k \in 1 .. Width(l) : data[o + k] = Text(l)[k]

\* Where its fields are.
HdLaidOut(o, l) ==
  /\ NamedAt(o + 1, "hd") /\ data[o + 5] = "open"
  /\ NamedAt(o + 6, "instrument_id") /\ data[o + 10] = l.instrument_id /\ data[o + 11] = "comma"
  /\ NamedAt(o + 12, "ts_event") /\ QuotedAt(o + 16, l.ts_event) /\ data[o + 19] = "close"
RecvLaidOut(o, l) == NamedAt(o + 1, "ts_recv") /\ QuotedAt(o + 5, l.ts_recv)
RestLaidOut(o, l) ==
  /\ NamedAt(o + 1, "order_id") /\ QuotedAt(o + 5, l.order_id) /\ data[o + 8] = "comma"
  /\ NamedAt(o + 9, "size") /\ data[o + 13] = l.size /\ data[o + 14] = "comma"
  /\ NamedAt(o + 15, "symbol") /\ QuotedAt(o + 19, "symbolText") /\ data[o + 22] = "comma"
PriceLaidOut(o, l) ==
  /\ NamedAt(o + 1, "price")
  /\ IF l.price = "null" THEN data[o + 5] = "null" ELSE QuotedAt(o + 5, l.price)

\* The first m tokens of t are in the data, after the first o.
Lie(t, m, o) == o \in Nat /\ m \in Nat /\ o + m <= Len(data) /\ \A k \in 1 .. m : data[o + k] = t[k]
IsName(t, j, key) ==
  t[j] = Q /\ t[j + 1] = key /\ t[j + 2] = Q /\ t[j + 3] = "colon" /\ t[j + 4] # "colon" /\ key # Q
IsQuoted(t, j, text) == t[j] = Q /\ t[j + 1] = text /\ t[j + 2] = Q /\ text # Q

\* A token of t is in the data where it lies.
LEMMA TokenLies ==
  ASSUME NEW t, NEW m, NEW o, Lie(t, m, o), NEW j \in 1 .. m
  PROVE  data[o + j] = t[j]
BY DEF Lie

\* So is a name of t, as the parser expects one.
LEMMA NameLies ==
  ASSUME Len(data) \in Nat, NEW t, NEW m, NEW o, Lie(t, m, o), NEW key, NEW j \in 1 .. m,
         j + 4 <= m, IsName(t, j, key)
  PROVE  NamedAt(o + j, key)
<1>1. o \in Nat /\ m \in Nat /\ j \in Nat /\ o + m <= Len(data)
  BY DEF Lie
<1>2. \A k \in 1 .. m : data[o + k] = t[k]
  BY DEF Lie
<1>3. {j, j + 1, j + 2, j + 3, j + 4} \subseteq 1 .. m
  BY <1>1
<1>4. /\ data[o + j] = Q /\ data[o + (j + 1)] = key /\ data[o + (j + 2)] = Q
      /\ data[o + (j + 3)] = "colon" /\ data[o + (j + 4)] # "colon"
  BY <1>2, <1>3, Zenon DEF IsName
<1>5. /\ o + (j + 1) = (o + j) + 1 /\ o + (j + 2) = (o + j) + 2 /\ o + (j + 3) = (o + j) + 3
      /\ o + (j + 4) = (o + j) + 4 /\ o + j \in Nat \ {0} /\ (o + j) + 4 <= Len(data)
  BY <1>1
<1>6. key # Q
  BY DEF IsName
<1> QED BY <1>4, <1>5, <1>6, Zenon DEF NamedAt

\* And a text between quotes.
LEMMA QuotedLies ==
  ASSUME Len(data) \in Nat, NEW t, NEW m, NEW o, Lie(t, m, o), NEW text, NEW j \in 1 .. m,
         j + 2 <= m, IsQuoted(t, j, text)
  PROVE  QuotedAt(o + j, text)
<1>1. o \in Nat /\ m \in Nat /\ j \in Nat /\ o + m <= Len(data)
  BY DEF Lie
<1>2. \A k \in 1 .. m : data[o + k] = t[k]
  BY DEF Lie
<1>3. {j, j + 1, j + 2} \subseteq 1 .. m
  BY <1>1
<1>4. data[o + j] = Q /\ data[o + (j + 1)] = text /\ data[o + (j + 2)] = Q
  BY <1>2, <1>3, Zenon DEF IsQuoted
<1>5. /\ o + (j + 1) = (o + j) + 1 /\ o + (j + 2) = (o + j) + 2
      /\ o + j \in Nat \ {0} /\ (o + j) + 2 <= Len(data)
  BY <1>1
<1>6. text # Q
  BY DEF IsQuoted
<1> QED BY <1>4, <1>5, <1>6, Zenon DEF QuotedAt

\* The parts of a line, when their tokens lie in the data: hd,
LEMMA HdLies ==
  ASSUME Len(data) \in Nat, NEW l \in Line, NEW o, Lie(HdTokens(l), 19, o)
  PROVE  HdLaidOut(o, l)
<1> DEFINE t == HdTokens(l)
<1>1. /\ l.instrument_id \in DOMAIN Number /\ l.ts_event \in DOMAIN Stamp
      /\ DOMAIN Stamp = {"stamp1", "stamp2", "stamp3", "stamp4"}
      /\ DOMAIN Number = {"n1", "n2", "n3", "torn"} /\ Q = "quote"
  BY TextsDiffer, TablesAre
<1>2. /\ t[5] = "open" /\ t[10] = l.instrument_id /\ t[11] = "comma" /\ t[19] = "close"
      /\ IsName(t, 1, "hd") /\ IsName(t, 6, "instrument_id") /\ IsName(t, 12, "ts_event")
      /\ IsQuoted(t, 16, l.ts_event)
  BY <1>1 DEF HdTokens, IsName, IsQuoted
<1> HIDE DEF t
<1>3. NamedAt(o + 1, "hd")
  BY <1>2, NameLies DEF t
<1>4. NamedAt(o + 6, "instrument_id")
  BY <1>2, NameLies DEF t
<1>5. NamedAt(o + 12, "ts_event")
  BY <1>2, NameLies DEF t
<1>6. QuotedAt(o + 16, l.ts_event)
  BY <1>2, QuotedLies DEF t
<1>7. /\ data[o + 5] = "open" /\ data[o + 10] = l.instrument_id
      /\ data[o + 11] = "comma" /\ data[o + 19] = "close"
  <2>1. data[o + 5] = t[5]
    BY TokenLies DEF t
  <2>2. data[o + 10] = t[10]
    BY TokenLies DEF t
  <2>3. data[o + 11] = t[11]
    BY TokenLies DEF t
  <2>4. data[o + 19] = t[19]
    BY TokenLies DEF t
  <2> QED BY <1>2, <2>1, <2>2, <2>3, <2>4, Zenon
<1> QED BY <1>3, <1>4, <1>5, <1>6, <1>7 DEF HdLaidOut

\* ts_recv,
LEMMA RecvLies ==
  ASSUME Len(data) \in Nat, NEW l \in Line, NEW o, Lie(RecvTokens(l), 7, o)
  PROVE  RecvLaidOut(o, l)
<1> DEFINE t == RecvTokens(l)
<1>1. /\ l.ts_recv \in DOMAIN Stamp /\ DOMAIN Stamp = {"stamp1", "stamp2", "stamp3", "stamp4"}
      /\ Q = "quote"
  BY TextsDiffer, TablesAre
<1>2. IsName(t, 1, "ts_recv") /\ IsQuoted(t, 5, l.ts_recv)
  BY <1>1 DEF RecvTokens, IsName, IsQuoted
<1> HIDE DEF t
<1>3. NamedAt(o + 1, "ts_recv")
  BY <1>2, NameLies DEF t
<1>4. QuotedAt(o + 5, l.ts_recv)
  BY <1>2, QuotedLies DEF t
<1> QED BY <1>3, <1>4 DEF RecvLaidOut

\* order_id, size and symbol.
LEMMA RestLies ==
  ASSUME Len(data) \in Nat, NEW l \in Line, NEW o, Lie(RestTokens(l), 22, o)
  PROVE  RestLaidOut(o, l)
<1> DEFINE t == RestTokens(l)
<1>1. /\ l.order_id \in DOMAIN Number /\ l.size \in DOMAIN Number
      /\ DOMAIN Number = {"n1", "n2", "n3", "torn"} /\ Q = "quote"
  BY TextsDiffer, TablesAre
<1>2. /\ t[8] = "comma" /\ t[13] = l.size /\ t[14] = "comma" /\ t[22] = "comma"
      /\ IsName(t, 1, "order_id") /\ IsQuoted(t, 5, l.order_id)
      /\ IsName(t, 9, "size") /\ IsName(t, 15, "symbol") /\ IsQuoted(t, 19, "symbolText")
  BY <1>1, SMTT(20) DEF RestTokens, IsName, IsQuoted
<1> HIDE DEF t
<1>3. NamedAt(o + 1, "order_id")
  BY <1>2, NameLies DEF t
<1>4. NamedAt(o + 9, "size")
  BY <1>2, NameLies DEF t
<1>5. NamedAt(o + 15, "symbol")
  BY <1>2, NameLies DEF t
<1>6. QuotedAt(o + 5, l.order_id)
  BY <1>2, QuotedLies DEF t
<1>7. QuotedAt(o + 19, "symbolText")
  BY <1>2, QuotedLies DEF t
<1>8. data[o + 8] = "comma" /\ data[o + 13] = l.size /\ data[o + 14] = "comma" /\ data[o + 22] = "comma"
  <2>1. data[o + 8] = t[8]
    BY TokenLies DEF t
  <2>2. data[o + 13] = t[13]
    BY TokenLies DEF t
  <2>3. data[o + 14] = t[14]
    BY TokenLies DEF t
  <2>4. data[o + 22] = t[22]
    BY TokenLies DEF t
  <2> QED BY <1>2, <2>1, <2>2, <2>3, <2>4, Zenon
<1> QED BY <1>3, <1>4, <1>5, <1>6, <1>7, <1>8 DEF RestLaidOut

\* The price comes before the closing brace.
LEMMA PriceLies ==
  ASSUME Len(data) \in Nat, NEW l \in Line, NEW o, Lie(PriceTokens(l), Width(l) - 52, o)
  PROVE  PriceLaidOut(o, l)
<1> DEFINE t == PriceTokens(l)
           m == Width(l) - 52
<1>1. /\ l.price \in DOMAIN PriceText \union {"null"} /\ DOMAIN PriceText = {"price1", "price2", "torn"}
      /\ Q = "quote"
  BY TextsDiffer, TablesAre
<1>2. IsName(t, 1, "price") /\ (l.price = "null" => t[5] = "null") /\ m >= 5
      /\ (l.price # "null" => IsQuoted(t, 5, l.price) /\ m = 7)
  BY <1>1 DEF PriceTokens, IsName, IsQuoted, Width
<1>3. m \in Nat
  BY DEF Width
<1> HIDE DEF t, m
<1>4. NamedAt(o + 1, "price")
  BY <1>2, <1>3, NameLies DEF t, m
<1>5. l.price # "null" => QuotedAt(o + 5, l.price)
  BY <1>2, <1>3, QuotedLies DEF t, m
<1>6. l.price = "null" => data[o + 5] = "null"
  BY <1>2, <1>3 DEF Lie, t, m
<1> QED BY <1>4, <1>5, <1>6 DEF PriceLaidOut

\* A part of a text lies where the text has it.
LEMMA PartLies ==
  ASSUME Len(data) \in Nat, NEW t \in Seq(Token), NEW s \in Seq(Token), NEW p \in Nat, NEW o,
         Within(s, t, p), Lie(t, Len(t), o)
  PROVE  Lie(s, Len(s), o + p)
<1>1. o \in Nat /\ Len(t) \in Nat /\ Len(s) \in Nat /\ o + Len(t) <= Len(data) /\ p + Len(s) <= Len(t)
  BY DEF Lie, Within
<1>2. ASSUME NEW k \in 1 .. Len(s) PROVE data[(o + p) + k] = s[k]
  <2>1. p + k \in 1 .. Len(t)
    BY <1>1
  <2>2. data[o + (p + k)] = t[p + k]
    BY <2>1 DEF Lie
  <2>3. t[p + k] = s[k]
    BY DEF Within
  <2>4. o + (p + k) = (o + p) + k
    BY <1>1
  <2> QED BY <2>2, <2>3, <2>4, Zenon
<1>3. o + p \in Nat /\ (o + p) + Len(s) <= Len(data)
  BY <1>1
<1> QED BY <1>1, <1>2, <1>3 DEF Lie

\* Where the fields of a line are.
LEMMA LineLies ==
  ASSUME NEW o, NEW l, LineAt(o, l)
  PROVE  /\ HdLaidOut(o + HdAt(l), l) /\ RecvLaidOut(o + RecvAt(l), l)
         /\ RestLaidOut(o + 29, l) /\ PriceLaidOut(o + 51, l)
         /\ data[o + 1] = "open" /\ data[o + 29] = "comma" /\ data[o + Width(l)] = "close"
         /\ data[o + (IF l.hdFirst THEN 21 ELSE 9)] = "comma"
<1> DEFINE t == Text(l)
<1>1. l \in Line /\ o \in Nat /\ Len(data) \in Nat
  BY DEF LineAt
<1>2. IsText(t, l)
  BY <1>1, TextIs
<1>3. Len(t) = Width(l) /\ Width(l) \in {57, 59}
  BY <1>2 DEF IsText, Width
<1>4. Lie(t, Len(t), o)
  BY <1>1, <1>3 DEF LineAt, Lie
<1> HIDE DEF t
<1>5. /\ HdTokens(l) \in Seq(Token) /\ RecvTokens(l) \in Seq(Token) /\ RestTokens(l) \in Seq(Token)
      /\ PriceTokens(l) \in Seq(Token) /\ t \in Seq(Token)
  BY <1>1, <1>2, HdIs, RecvIs, RestIs, PriceIs DEF IsText
<1>6. /\ Len(HdTokens(l)) = 19 /\ Len(RecvTokens(l)) = 7 /\ Len(RestTokens(l)) = 22
      /\ Len(PriceTokens(l)) = Width(l) - 52
  BY DEF HdTokens, RecvTokens, RestTokens, PriceTokens, Width
<1>7. HdAt(l) \in Nat /\ RecvAt(l) \in Nat
  BY DEF HdAt, RecvAt
<1>8. HdLaidOut(o + HdAt(l), l)
  <2>1. Lie(HdTokens(l), Len(HdTokens(l)), o + HdAt(l))
    BY <1>1, <1>2, <1>4, <1>5, <1>7, PartLies DEF IsText
  <2>2. Lie(HdTokens(l), 19, o + HdAt(l))
    BY <1>6, <2>1
  <2> QED BY <1>1, <2>2, HdLies
<1>9. RecvLaidOut(o + RecvAt(l), l)
  <2>1. Lie(RecvTokens(l), Len(RecvTokens(l)), o + RecvAt(l))
    BY <1>1, <1>2, <1>4, <1>5, <1>7, PartLies DEF IsText
  <2>2. Lie(RecvTokens(l), 7, o + RecvAt(l))
    BY <1>6, <2>1
  <2> QED BY <1>1, <2>2, RecvLies
<1>10. RestLaidOut(o + 29, l)
  <2>1. Lie(RestTokens(l), Len(RestTokens(l)), o + 29)
    BY <1>1, <1>2, <1>4, <1>5, PartLies DEF IsText
  <2>2. Lie(RestTokens(l), 22, o + 29)
    BY <1>6, <2>1
  <2> QED BY <1>1, <2>2, RestLies
<1>11. PriceLaidOut(o + 51, l)
  <2>1. Lie(PriceTokens(l), Len(PriceTokens(l)), o + 51)
    BY <1>1, <1>2, <1>4, <1>5, PartLies DEF IsText
  <2>2. Lie(PriceTokens(l), Width(l) - 52, o + 51)
    BY <1>6, <2>1
  <2> QED BY <1>1, <2>2, PriceLies
<1>12. /\ t[1] = "open" /\ t[29] = "comma" /\ t[Width(l)] = "close"
       /\ t[IF l.hdFirst THEN 21 ELSE 9] = "comma"
  BY <1>2 DEF IsText
<1>13. /\ 1 \in 1 .. Len(t) /\ 29 \in 1 .. Len(t) /\ Width(l) \in 1 .. Len(t)
       /\ (IF l.hdFirst THEN 21 ELSE 9) \in 1 .. Len(t)
  BY <1>3
<1>14. data[o + 1] = t[1]
  BY <1>4, <1>13, TokenLies
<1>15. data[o + 29] = t[29]
  BY <1>4, <1>13, TokenLies
<1>16. data[o + Width(l)] = t[Width(l)]
  BY <1>4, <1>13, TokenLies
<1>17. data[o + (IF l.hdFirst THEN 21 ELSE 9)] = t[IF l.hdFirst THEN 21 ELSE 9]
  <2> DEFINE j == IF l.hdFirst THEN 21 ELSE 9
  <2>1. j \in 1 .. Len(t)
    BY <1>13
  <2> HIDE DEF j
  <2>2. data[o + j] = t[j]
    BY <1>4, <2>1, TokenLies
  <2> QED BY <2>2 DEF j
<1> QED BY <1>8, <1>9, <1>10, <1>11, <1>12, <1>14, <1>15, <1>16, <1>17, Zenon
-----------------------------------------------------------------------------
\* A timestamp by its parts.
StampOf(y, mo, dy, second, digits) ==
  [date |-> <<y, mo, dy>>, second |-> second, digits |-> digits]
TimeOf(days, second, nanos) == <<days, second, nanos>>
IsStamp(text, y, mo, dy, second, digits) ==
  /\ y \in 2024 .. 2100 /\ mo \in 1 .. 12 /\ dy \in 1 .. 31 /\ digits \in Seq(0 .. 9)
  /\ Stamp[text] = StampOf(y, mo, dy, second, digits) /\ DaysFromCivil(y, mo, dy) # 0

\* ndp_parseIso8601Nanos and the conversions of JsonSimpleDataParser read the same times from
\* a text, and not the time that stands for none.
LEMMA TimesAgree ==
  ASSUME NEW text, NEW y, NEW mo, NEW dy, NEW second, NEW digits, IsStamp(text, y, mo, dy, second, digits)
  PROVE  parseIso8601Nanos(text) = TimeCounted(text) /\ TimeCounted(text) # NoTime
<1> DEFINE s == Stamp[text]
<1>0. /\ y \in 2024 .. 2100 /\ mo \in 1 .. 12 /\ dy \in 1 .. 31 /\ digits \in Seq(0 .. 9)
      /\ s = StampOf(y, mo, dy, second, digits) /\ DaysFromCivil(y, mo, dy) # 0
  BY DEF IsStamp
<1>1. s.date[1] = y /\ s.date[2] = mo /\ s.date[3] = dy /\ s.digits = digits
  <2> HIDE DEF s
  <2> QED BY <1>0 DEF StampOf
<1>2. DaysFromCivil(y, mo, dy) = DaysCounted(y, mo, dy)
  <2>1. y \in Nat /\ y >= 1970 /\ dy \in Nat
    BY <1>0
  <2> QED BY <1>0, <2>1, DaysAreCounted
<1>3. (IF Len(digits) >= 9 THEN Fixed9(digits) ELSE Fraction(digits)) = Fraction(digits)
  BY <1>0, FractionsAgree
<1>4. parseIso8601Nanos(text) =
        TimeOf(DaysFromCivil(s.date[1], s.date[2], s.date[3]), s.second,
               IF Len(s.digits) >= 9 THEN Fixed9(s.digits) ELSE Fraction(s.digits))
  BY DEF parseIso8601Nanos, TimeOf
<1>5. TimeCounted(text) =
        TimeOf(DaysCounted(s.date[1], s.date[2], s.date[3]), s.second, Fraction(s.digits))
  BY DEF TimeCounted, TimeOf
<1> HIDE DEF s
<1>6. parseIso8601Nanos(text) = TimeOf(DaysCounted(y, mo, dy), s.second, Fraction(digits))
  BY <1>1, <1>2, <1>3, <1>4
<1>7. TimeCounted(text) = TimeOf(DaysCounted(y, mo, dy), s.second, Fraction(digits))
  BY <1>1, <1>5
<1>8. \A p, q, r : TimeOf(p, q, r) = NoTime => p = 0
  BY DEF TimeOf, NoTime
<1> QED BY <1>0, <1>2, <1>6, <1>7, <1>8

\* It is so for every text of a timestamp.
LEMMA StampsAre ==
  ASSUME NEW text \in DOMAIN Stamp
  PROVE  parseIso8601Nanos(text) = TimeCounted(text) /\ TimeCounted(text) # NoTime
<1> SUFFICES \E y, mo, dy, second, digits : IsStamp(text, y, mo, dy, second, digits)
  BY TimesAgree
<1>1. text \in {"stamp1", "stamp2", "stamp3", "stamp4"}
  BY TablesAre
<1>2. CASE text = "stamp1"
  <2> DEFINE d == <<4, 8>>
  <2>1. Stamp["stamp1"] = StampOf(2024, 2, 29, 86399, d)
    BY DEF Stamp, StampOf
  <2>2. d \in Seq(0 .. 9)
    OBVIOUS
  <2>3. DaysFromCivil(2024, 2, 29) # 0
    BY Z3 DEF DaysFromCivil, DayOfYear, DayOfEra, EraDays, EpochDay
  <2>4. 2024 \in 2024 .. 2100 /\ 2 \in 1 .. 12 /\ 29 \in 1 .. 31
    OBVIOUS
  <2> HIDE DEF d
  <2>5. IsStamp("stamp1", 2024, 2, 29, 86399, d)
    BY <2>1, <2>2, <2>3, <2>4 DEF IsStamp
  <2> QED BY <1>2, <2>5
<1>3. CASE text = "stamp2"
  <2> DEFINE d == <<>>
  <2>1. Stamp["stamp2"] = StampOf(2025, 3, 1, 0, d)
    BY DEF Stamp, StampOf
  <2>2. d \in Seq(0 .. 9)
    OBVIOUS
  <2>3. DaysFromCivil(2025, 3, 1) # 0
    BY Z3 DEF DaysFromCivil, DayOfYear, DayOfEra, EraDays, EpochDay
  <2>4. 2025 \in 2024 .. 2100 /\ 3 \in 1 .. 12 /\ 1 \in 1 .. 31
    OBVIOUS
  <2> HIDE DEF d
  <2>5. IsStamp("stamp2", 2025, 3, 1, 0, d)
    BY <2>1, <2>2, <2>3, <2>4 DEF IsStamp
  <2> QED BY <1>3, <2>5
<1>4. CASE text = "stamp3"
  <2> DEFINE d == <<4, 8, 0, 4, 7, 0, 5, 9, 8>>
  <2>1. Stamp["stamp3"] = StampOf(2026, 12, 31, 21, d)
    BY DEF Stamp, StampOf
  <2>2. d \in Seq(0 .. 9)
    OBVIOUS
  <2>3. DaysFromCivil(2026, 12, 31) # 0
    BY Z3 DEF DaysFromCivil, DayOfYear, DayOfEra, EraDays, EpochDay
  <2>4. 2026 \in 2024 .. 2100 /\ 12 \in 1 .. 12 /\ 31 \in 1 .. 31
    OBVIOUS
  <2> HIDE DEF d
  <2>5. IsStamp("stamp3", 2026, 12, 31, 21, d)
    BY <2>1, <2>2, <2>3, <2>4 DEF IsStamp
  <2> QED BY <1>4, <2>5
<1>5. CASE text = "stamp4"
  <2> DEFINE d == <<0, 0, 0, 0, 0, 0, 0, 0, 1>>
  <2>1. Stamp["stamp4"] = StampOf(2100, 3, 1, 1, d)
    BY DEF Stamp, StampOf
  <2>2. d \in Seq(0 .. 9)
    OBVIOUS
  <2>3. DaysFromCivil(2100, 3, 1) # 0
    BY Z3 DEF DaysFromCivil, DayOfYear, DayOfEra, EraDays, EpochDay
  <2>4. 2100 \in 2024 .. 2100 /\ 3 \in 1 .. 12 /\ 1 \in 1 .. 31
    OBVIOUS
  <2> HIDE DEF d
  <2>5. IsStamp("stamp4", 2100, 3, 1, 1, d)
    BY <2>1, <2>2, <2>3, <2>4 DEF IsStamp
  <2> QED BY <1>5, <2>5
<1> QED BY <1>1, <1>2, <1>3, <1>4, <1>5

\* An event by its fields, and the assignment to one of them.
EventOf(tsRecv, tsEvent, instrument, order, size, price) ==
  [ts_recv |-> tsRecv, ts_event |-> tsEvent, instrument_id |-> instrument,
   order_id |-> order, size |-> size, price |-> price]
Put(e, field, x) == [e EXCEPT ![field] = x]

\* Each assignment changes its own field alone.
LEMMA FieldSet ==
  ASSUME NEW a, NEW b, NEW c, NEW d, NEW e, NEW f, NEW x
  PROVE  /\ Put(EventOf(a, b, c, d, e, f), "ts_recv", x) = EventOf(x, b, c, d, e, f)
         /\ Put(EventOf(a, b, c, d, e, f), "ts_event", x) = EventOf(a, x, c, d, e, f)
         /\ Put(EventOf(a, b, c, d, e, f), "instrument_id", x) = EventOf(a, b, x, d, e, f)
         /\ Put(EventOf(a, b, c, d, e, f), "order_id", x) = EventOf(a, b, c, x, e, f)
         /\ Put(EventOf(a, b, c, d, e, f), "size", x) = EventOf(a, b, c, d, x, f)
         /\ Put(EventOf(a, b, c, d, e, f), "price", x) = EventOf(a, b, c, d, e, x)
<1>1. Put(EventOf(a, b, c, d, e, f), "ts_recv", x) = EventOf(x, b, c, d, e, f)
  BY DEF EventOf, Put
<1>2. Put(EventOf(a, b, c, d, e, f), "ts_event", x) = EventOf(a, x, c, d, e, f)
  BY DEF EventOf, Put
<1>3. Put(EventOf(a, b, c, d, e, f), "instrument_id", x) = EventOf(a, b, x, d, e, f)
  BY DEF EventOf, Put
<1>4. Put(EventOf(a, b, c, d, e, f), "order_id", x) = EventOf(a, b, c, x, e, f)
  BY DEF EventOf, Put
<1>5. Put(EventOf(a, b, c, d, e, f), "size", x) = EventOf(a, b, c, d, x, f)
  BY DEF EventOf, Put
<1>6. Put(EventOf(a, b, c, d, e, f), "price", x) = EventOf(a, b, c, d, e, x)
  BY DEF EventOf, Put
<1> QED BY <1>1, <1>2, <1>3, <1>4, <1>5, <1>6, Zenon

\* A field of the event, when those in S have been read; and the event.
Read(S, field, x, default) == IF field \in S THEN x ELSE default
PriceRead(l) == IF l.price = "null" THEN Undef ELSE PriceOf(l.price)
Got(l, S) ==
  EventOf(Read(S, "ts_recv", TimeCounted(l.ts_recv), NoTime),
          Read(S, "ts_event", TimeCounted(l.ts_event), NoTime),
          Read(S, "instrument_id", Number[l.instrument_id], 0),
          Read(S, "order_id", Number[l.order_id], 0),
          Read(S, "size", Number[l.size], 0),
          Read(S, "price", PriceRead(l), Undef))

\* One more field: the event of the fields S, when x is assigned to another, is the event with it.
Adds(l, S, field, x) == Put(Got(l, S), field, x) = Got(l, S \union {field})

\* Every field adds what the line has for it.
LEMMA GotMore ==
  ASSUME NEW l, NEW S
  PROVE  /\ Adds(l, S, "ts_recv", TimeCounted(l.ts_recv))
         /\ Adds(l, S, "ts_event", TimeCounted(l.ts_event))
         /\ Adds(l, S, "instrument_id", Number[l.instrument_id])
         /\ Adds(l, S, "order_id", Number[l.order_id])
         /\ Adds(l, S, "size", Number[l.size])
         /\ Adds(l, S, "price", PriceRead(l))
<1> DEFINE a == Read(S, "ts_recv", TimeCounted(l.ts_recv), NoTime)
           b == Read(S, "ts_event", TimeCounted(l.ts_event), NoTime)
           c == Read(S, "instrument_id", Number[l.instrument_id], 0)
           d == Read(S, "order_id", Number[l.order_id], 0)
           e == Read(S, "size", Number[l.size], 0)
           f == Read(S, "price", PriceRead(l), Undef)
<1>1. Got(l, S) = EventOf(a, b, c, d, e, f)
  BY Zenon DEF Got
<1>2. Put(Got(l, S), "ts_recv", TimeCounted(l.ts_recv)) = Got(l, S \union {"ts_recv"})
  <2> DEFINE T == S \union {"ts_recv"}
             x == TimeCounted(l.ts_recv)
             a2 == Read(T, "ts_recv", TimeCounted(l.ts_recv), NoTime)
             b2 == Read(T, "ts_event", TimeCounted(l.ts_event), NoTime)
             c2 == Read(T, "instrument_id", Number[l.instrument_id], 0)
             d2 == Read(T, "order_id", Number[l.order_id], 0)
             e2 == Read(T, "size", Number[l.size], 0)
             f2 == Read(T, "price", PriceRead(l), Undef)
  <2>1. Got(l, T) = EventOf(a2, b2, c2, d2, e2, f2)
    BY Zenon DEF Got
  <2>2. a2 = x /\ b2 = b /\ c2 = c /\ d2 = d /\ e2 = e /\ f2 = f
    BY DEF Read
  <2> HIDE DEF a, b, c, d, e, f, a2, b2, c2, d2, e2, f2, x, T
  <2>3. Put(EventOf(a, b, c, d, e, f), "ts_recv", x) = EventOf(x, b, c, d, e, f)
    BY FieldSet
  <2>4. Put(Got(l, S), "ts_recv", x) = Got(l, T)
    BY <1>1, <2>1, <2>2, <2>3
  <2> QED BY <2>4 DEF x, T
<1>3. Put(Got(l, S), "ts_event", TimeCounted(l.ts_event)) = Got(l, S \union {"ts_event"})
  <2> DEFINE T == S \union {"ts_event"}
             x == TimeCounted(l.ts_event)
             a2 == Read(T, "ts_recv", TimeCounted(l.ts_recv), NoTime)
             b2 == Read(T, "ts_event", TimeCounted(l.ts_event), NoTime)
             c2 == Read(T, "instrument_id", Number[l.instrument_id], 0)
             d2 == Read(T, "order_id", Number[l.order_id], 0)
             e2 == Read(T, "size", Number[l.size], 0)
             f2 == Read(T, "price", PriceRead(l), Undef)
  <2>1. Got(l, T) = EventOf(a2, b2, c2, d2, e2, f2)
    BY Zenon DEF Got
  <2>2. a2 = a /\ b2 = x /\ c2 = c /\ d2 = d /\ e2 = e /\ f2 = f
    BY DEF Read
  <2> HIDE DEF a, b, c, d, e, f, a2, b2, c2, d2, e2, f2, x, T
  <2>3. Put(EventOf(a, b, c, d, e, f), "ts_event", x) = EventOf(a, x, c, d, e, f)
    BY FieldSet
  <2>4. Put(Got(l, S), "ts_event", x) = Got(l, T)
    BY <1>1, <2>1, <2>2, <2>3
  <2> QED BY <2>4 DEF x, T
<1>4. Put(Got(l, S), "instrument_id", Number[l.instrument_id]) = Got(l, S \union {"instrument_id"})
  <2> DEFINE T == S \union {"instrument_id"}
             x == Number[l.instrument_id]
             a2 == Read(T, "ts_recv", TimeCounted(l.ts_recv), NoTime)
             b2 == Read(T, "ts_event", TimeCounted(l.ts_event), NoTime)
             c2 == Read(T, "instrument_id", Number[l.instrument_id], 0)
             d2 == Read(T, "order_id", Number[l.order_id], 0)
             e2 == Read(T, "size", Number[l.size], 0)
             f2 == Read(T, "price", PriceRead(l), Undef)
  <2>1. Got(l, T) = EventOf(a2, b2, c2, d2, e2, f2)
    BY Zenon DEF Got
  <2>2. a2 = a /\ b2 = b /\ c2 = x /\ d2 = d /\ e2 = e /\ f2 = f
    BY DEF Read
  <2> HIDE DEF a, b, c, d, e, f, a2, b2, c2, d2, e2, f2, x, T
  <2>3. Put(EventOf(a, b, c, d, e, f), "instrument_id", x) = EventOf(a, b, x, d, e, f)
    BY FieldSet
  <2>4. Put(Got(l, S), "instrument_id", x) = Got(l, T)
    BY <1>1, <2>1, <2>2, <2>3
  <2> QED BY <2>4 DEF x, T
<1>5. Put(Got(l, S), "order_id", Number[l.order_id]) = Got(l, S \union {"order_id"})
  <2> DEFINE T == S \union {"order_id"}
             x == Number[l.order_id]
             a2 == Read(T, "ts_recv", TimeCounted(l.ts_recv), NoTime)
             b2 == Read(T, "ts_event", TimeCounted(l.ts_event), NoTime)
             c2 == Read(T, "instrument_id", Number[l.instrument_id], 0)
             d2 == Read(T, "order_id", Number[l.order_id], 0)
             e2 == Read(T, "size", Number[l.size], 0)
             f2 == Read(T, "price", PriceRead(l), Undef)
  <2>1. Got(l, T) = EventOf(a2, b2, c2, d2, e2, f2)
    BY Zenon DEF Got
  <2>2. a2 = a /\ b2 = b /\ c2 = c /\ d2 = x /\ e2 = e /\ f2 = f
    BY DEF Read
  <2> HIDE DEF a, b, c, d, e, f, a2, b2, c2, d2, e2, f2, x, T
  <2>3. Put(EventOf(a, b, c, d, e, f), "order_id", x) = EventOf(a, b, c, x, e, f)
    BY FieldSet
  <2>4. Put(Got(l, S), "order_id", x) = Got(l, T)
    BY <1>1, <2>1, <2>2, <2>3
  <2> QED BY <2>4 DEF x, T
<1>6. Put(Got(l, S), "size", Number[l.size]) = Got(l, S \union {"size"})
  <2> DEFINE T == S \union {"size"}
             x == Number[l.size]
             a2 == Read(T, "ts_recv", TimeCounted(l.ts_recv), NoTime)
             b2 == Read(T, "ts_event", TimeCounted(l.ts_event), NoTime)
             c2 == Read(T, "instrument_id", Number[l.instrument_id], 0)
             d2 == Read(T, "order_id", Number[l.order_id], 0)
             e2 == Read(T, "size", Number[l.size], 0)
             f2 == Read(T, "price", PriceRead(l), Undef)
  <2>1. Got(l, T) = EventOf(a2, b2, c2, d2, e2, f2)
    BY Zenon DEF Got
  <2>2. a2 = a /\ b2 = b /\ c2 = c /\ d2 = d /\ e2 = x /\ f2 = f
    BY DEF Read
  <2> HIDE DEF a, b, c, d, e, f, a2, b2, c2, d2, e2, f2, x, T
  <2>3. Put(EventOf(a, b, c, d, e, f), "size", x) = EventOf(a, b, c, d, x, f)
    BY FieldSet
  <2>4. Put(Got(l, S), "size", x) = Got(l, T)
    BY <1>1, <2>1, <2>2, <2>3
  <2> QED BY <2>4 DEF x, T
<1>7. Put(Got(l, S), "price", PriceRead(l)) = Got(l, S \union {"price"})
  <2> DEFINE T == S \union {"price"}
             x == PriceRead(l)
             a2 == Read(T, "ts_recv", TimeCounted(l.ts_recv), NoTime)
             b2 == Read(T, "ts_event", TimeCounted(l.ts_event), NoTime)
             c2 == Read(T, "instrument_id", Number[l.instrument_id], 0)
             d2 == Read(T, "order_id", Number[l.order_id], 0)
             e2 == Read(T, "size", Number[l.size], 0)
             f2 == Read(T, "price", PriceRead(l), Undef)
  <2>1. Got(l, T) = EventOf(a2, b2, c2, d2, e2, f2)
    BY Zenon DEF Got
  <2>2. a2 = a /\ b2 = b /\ c2 = c /\ d2 = d /\ e2 = e /\ f2 = x
    BY DEF Read
  <2> HIDE DEF a, b, c, d, e, f, a2, b2, c2, d2, e2, f2, x, T
  <2>3. Put(EventOf(a, b, c, d, e, f), "price", x) = EventOf(a, b, c, d, e, x)
    BY FieldSet
  <2>4. Put(Got(l, S), "price", x) = Got(l, T)
    BY <1>1, <2>1, <2>2, <2>3
  <2> QED BY <2>4 DEF x, T
<1> QED BY <1>2, <1>3, <1>4, <1>5, <1>6, <1>7, Zenon DEF Adds

\* No field, and all of them.
LEMMA GotNoneAndAll ==
  ASSUME NEW l
  PROVE  /\ Got(l, {}) = Default
         /\ Got(l, {"ts_recv", "ts_event", "instrument_id", "order_id", "size", "price"}) = Meaning(l)
BY DEF Got, Read, PriceRead, Meaning, Default, EventOf
-----------------------------------------------------------------------------
\* The position is at the name p, or at a comma before it.
Reaches(p) ==
  /\ pos \in Nat /\ Len(data) \in Nat /\ data \in Seq(Token \union {"nl"})
  /\ p \in Nat /\ (pos = p \/ (pos = p - 1 /\ data[pos] = "comma"))

\* There the parser reads the name and finds where its value begins.
LEMMA ReachesName ==
  ASSUME NEW p, NEW key, Reaches(p), NamedAt(p, key)
  PROVE  /\ Skip(pos, {"comma"}) = p /\ p < End /\ ~At(p, "close") /\ data[p] = Q
         /\ Key(p) = key /\ ValueAt(p) = p + 4
<1>1. p \in Nat /\ p < End /\ data[p] = Q /\ Q = "quote"
  BY DEF Reaches, NamedAt, End, Q
<1>2. FirstWithout(pos, p, {"comma"})
  <2>1. CASE pos = p
    BY <1>1, <2>1 DEF FirstWithout, Reaches, End
  <2>2. CASE pos = p - 1 /\ data[pos] = "comma"
    <3>1. ASSUME NEW r \in pos .. p - 1 PROVE r = pos
      BY <1>1, <2>2 DEF Reaches
    <3> QED BY <1>1, <2>2, <3>1 DEF FirstWithout, Reaches, End
  <2> QED BY <2>1, <2>2 DEF Reaches
<1>3. Skip(pos, {"comma"}) = p
  BY <1>2, SkipIs DEF Reaches
<1>4. Key(p) = key /\ ValueAt(p) = p + 4
  BY ReadsName DEF Reaches
<1> QED BY <1>1, <1>3, <1>4 DEF At

\* One turn of the loop of ndp_parseLine, and of ndp_parseHd, at a name.
LEMMA FieldsTurn ==
  ASSUME NEW p, NEW key, Reaches(p), NamedAt(p, key), pc = "fields", JsonNext
  PROVE  OuterField(key, p + 4) /\ UNCHANGED <<textFile, data, calls>>
<1>1. /\ Skip(pos, {"comma"}) = p /\ p < End /\ ~At(p, "close") /\ data[p] = Q
      /\ Key(p) = key /\ ValueAt(p) = p + 4 /\ End \in Nat /\ p \in Nat
  BY ReachesName DEF Reaches, End
<1>2. Fields
  BY DEF JsonNext, Begin, Hd, Returned
<1>3. ~(p >= End)
  BY <1>1
<1> QED BY <1>1, <1>2, <1>3, Zenon DEF Fields

\* The same in ndp_parseHd.
LEMMA HdTurn ==
  ASSUME NEW p, NEW key, Reaches(p), NamedAt(p, key), pc = "hd", JsonNext
  PROVE  InnerField(key, p + 4) /\ UNCHANGED <<textFile, data, calls>>
<1>1. /\ Skip(pos, {"comma"}) = p /\ p < End /\ ~At(p, "close") /\ data[p] = Q
      /\ Key(p) = key /\ ValueAt(p) = p + 4 /\ End \in Nat /\ p \in Nat
  BY ReachesName DEF Reaches, End
<1>2. Hd
  BY DEF JsonNext, Begin, Fields, Returned
<1>3. ~(p >= End)
  BY <1>1
<1> QED BY <1>1, <1>2, <1>3, Zenon DEF Hd

\* What a step does to the position, the loop and the event.
Moves(p, loop, e) ==
  pos' = p /\ pc' = loop /\ event' = e /\ UNCHANGED <<textFile, data, calls>>

\* The fields of ndp_parseLine.
LEMMA EntersHd ==
  ASSUME NEW p, Reaches(p), NamedAt(p, "hd"), data[p + 4] = "open", pc = "fields", JsonNext
  PROVE  Moves(p + 5, "hd", event)
<1>1. OuterField("hd", p + 4) /\ UNCHANGED <<textFile, data, calls>>
  BY FieldsTurn
<1>2. At(p + 4, "open") /\ (p + 4) + 1 = p + 5
  BY DEF At, NamedAt, End
<1> QED BY <1>1, <1>2 DEF OuterField, Moves, Goto

\* ts_recv is converted and the loop goes on behind its end quote.
LEMMA ReadsRecv ==
  ASSUME NEW p, NEW text \in DOMAIN Stamp, Reaches(p), NamedAt(p, "ts_recv"), QuotedAt(p + 4, text),
         pc = "fields", JsonNext
  PROVE  Moves(p + 7, "fields", Put(event, "ts_recv", TimeCounted(text)))
<1> DEFINE v == p + 4
<1>1. OuterField("ts_recv", v) /\ UNCHANGED <<textFile, data, calls>>
  BY FieldsTurn
<1>2. Timestamp("ts_recv", v)
  BY <1>1, Zenon DEF OuterField
<1>3. QuotedAt(v, text) /\ v + 3 = p + 7
  BY DEF NamedAt
<1> HIDE DEF v
<1>4. At(v, Q) /\ Past(TextEnd(v)) = v + 3 /\ TextAt(v) = <<text>>
  BY <1>3, ReadsQuoted DEF Reaches
<1>5. <<text>> # <<>> /\ <<text>>[1] = text /\ text \notin DOMAIN Number
  BY TablesAre
<1>6. UNCHANGED pc /\ Set("ts_recv", parseIso8601Nanos(text), v + 3)
  BY <1>2, <1>4, <1>5 DEF Timestamp
<1>7. parseIso8601Nanos(text) = TimeCounted(text)
  BY StampsAre
<1> QED BY <1>1, <1>3, <1>6, <1>7 DEF Set, Put, Moves

\* order_id is a number between quotes.
LEMMA ReadsOrder ==
  ASSUME NEW p, NEW text \in DOMAIN Number, Reaches(p), NamedAt(p, "order_id"), QuotedAt(p + 4, text),
         pc = "fields", JsonNext
  PROVE  Moves(p + 7, "fields", Put(event, "order_id", Number[text]))
<1> DEFINE v == p + 4
<1>1. OuterField("order_id", v) /\ UNCHANGED <<textFile, data, calls>>
  BY FieldsTurn
<1>2. QuotedAt(v, text) /\ v + 3 = p + 7
  BY DEF NamedAt
<1> HIDE DEF v
<1>3. At(v, Q) /\ Past(TextEnd(v)) = v + 3 /\ v + 1 < End /\ data[v + 1] = text
  BY <1>2, ReadsQuoted DEF Reaches
<1>4. Digits(<<data[v + 1]>>) = Number[text]
  BY <1>3 DEF Digits
<1>5. UNCHANGED pc /\ Set("order_id", Number[text], v + 3)
  BY <1>1, <1>3, <1>4 DEF OuterField
<1> QED BY <1>1, <1>2, <1>5 DEF Set, Put, Moves

\* size is a number without quotes.
LEMMA ReadsSize ==
  ASSUME NEW p, Reaches(p), NamedAt(p, "size"), data[p + 4] \in DOMAIN Number, pc = "fields", JsonNext
  PROVE  Moves(p + 5, "fields", Put(event, "size", Number[data[p + 4]]))
<1> DEFINE v == p + 4
<1>1. OuterField("size", v) /\ UNCHANGED <<textFile, data, calls>>
  BY FieldsTurn
<1>2. v < End /\ v + 1 = p + 5
  BY DEF NamedAt, End, Reaches
<1>3. data[v] \in DOMAIN Number
  OBVIOUS
<1> HIDE DEF v
<1>4. UNCHANGED pc /\ Set("size", Number[data[v]], v + 1)
  BY <1>1, <1>2, <1>3 DEF OuterField, Numeric
<1> QED BY <1>1, <1>2, <1>4 DEF Set, Put, Moves, v

\* symbol is passed over by ndp_skipVal.
LEMMA SkipsSymbol ==
  ASSUME NEW p, NEW text, Reaches(p), NamedAt(p, "symbol"), QuotedAt(p + 4, text), pc = "fields", JsonNext
  PROVE  Moves(p + 7, "fields", event)
<1> DEFINE v == p + 4
<1>1. OuterField("symbol", v) /\ UNCHANGED <<textFile, data, calls>>
  BY FieldsTurn
<1>2. QuotedAt(v, text) /\ v + 3 = p + 7
  BY DEF NamedAt
<1> HIDE DEF v
<1>3. At(v, Q) /\ AfterString(v + 1) = v + 3
  BY <1>2, ReadsQuoted DEF Reaches
<1>4. ndp_skipVal(v) = v + 3
  BY <1>3, Zenon DEF ndp_skipVal
<1>5. Goto(v + 3) /\ UNCHANGED pc
  BY <1>1, <1>4 DEF OuterField
<1> QED BY <1>1, <1>2, <1>5 DEF Goto, Moves

\* price is a text between quotes,
LEMMA ReadsPrice ==
  ASSUME NEW p, NEW text \in DOMAIN PriceText, Reaches(p), NamedAt(p, "price"), QuotedAt(p + 4, text),
         pc = "fields", JsonNext
  PROVE  Moves(p + 7, "fields", Put(event, "price", PriceOf(text)))
<1> DEFINE v == p + 4
<1>1. OuterField("price", v) /\ UNCHANGED <<textFile, data, calls>>
  BY FieldsTurn
<1>2. QuotedAt(v, text) /\ v + 3 = p + 7
  BY DEF NamedAt
<1> HIDE DEF v
<1>3. At(v, Q) /\ Past(TextEnd(v)) = v + 3 /\ TextAt(v) = <<text>>
  BY <1>2, ReadsQuoted DEF Reaches
<1>4. ~At(v, "null") /\ ~At(v, TornNull)
  BY <1>3 DEF At, Q, TornNull
<1>5. <<text>> # <<>> /\ <<text>>[1] = text /\ Len(<<text>>) = 1
  OBVIOUS
<1>6. Price(<<text>>) = PriceOf(text)
  BY <1>5 DEF Price
<1>7. UNCHANGED pc /\ Set("price", PriceOf(text), v + 3)
  BY <1>1, <1>3, <1>4, <1>5, <1>6 DEF OuterField
<1> QED BY <1>1, <1>2, <1>7 DEF Set, Put, Moves

\* or null, which leaves the default.
LEMMA SkipsNull ==
  ASSUME NEW p, Reaches(p), NamedAt(p, "price"), data[p + 4] = "null", pc = "fields", JsonNext
  PROVE  Moves(p + 5, "fields", event)
<1> DEFINE v == p + 4
<1>1. OuterField("price", v) /\ UNCHANGED <<textFile, data, calls>>
  BY FieldsTurn
<1>2. At(v, "null") /\ v + 1 = p + 5
  BY DEF NamedAt, At, End, Reaches
<1> HIDE DEF v
<1>3. Goto(v + 1) /\ UNCHANGED pc
  BY <1>1, <1>2 DEF OuterField
<1> QED BY <1>1, <1>2, <1>3 DEF Goto, Moves

\* The fields of ndp_parseHd.
LEMMA ReadsInstrument ==
  ASSUME NEW p, Reaches(p), NamedAt(p, "instrument_id"), data[p + 4] \in DOMAIN Number, pc = "hd", JsonNext
  PROVE  Moves(p + 5, "hd", Put(event, "instrument_id", Number[data[p + 4]]))
<1> DEFINE v == p + 4
<1>1. InnerField("instrument_id", v) /\ UNCHANGED <<textFile, data, calls>>
  BY HdTurn
<1>2. v < End /\ v + 1 = p + 5
  BY DEF NamedAt, End, Reaches
<1>3. data[v] \in DOMAIN Number
  OBVIOUS
<1> HIDE DEF v
<1>4. UNCHANGED pc /\ Set("instrument_id", Number[data[v]], v + 1)
  BY <1>1, <1>2, <1>3 DEF InnerField, Numeric
<1> QED BY <1>1, <1>2, <1>4 DEF Set, Put, Moves, v

\* ts_event, at the end of hd.
LEMMA ReadsEvent ==
  ASSUME NEW p, NEW text \in DOMAIN Stamp, Reaches(p), NamedAt(p, "ts_event"), QuotedAt(p + 4, text),
         pc = "hd", JsonNext
  PROVE  Moves(p + 7, "hd", Put(event, "ts_event", TimeCounted(text)))
<1> DEFINE v == p + 4
<1>1. InnerField("ts_event", v) /\ UNCHANGED <<textFile, data, calls>>
  BY HdTurn
<1>2. Timestamp("ts_event", v)
  BY <1>1 DEF InnerField
<1>3. QuotedAt(v, text) /\ v + 3 = p + 7
  BY DEF NamedAt
<1> HIDE DEF v
<1>4. At(v, Q) /\ Past(TextEnd(v)) = v + 3 /\ TextAt(v) = <<text>>
  BY <1>3, ReadsQuoted DEF Reaches
<1>5. <<text>> # <<>> /\ <<text>>[1] = text /\ text \notin DOMAIN Number
  BY TablesAre
<1>6. UNCHANGED pc /\ Set("ts_event", parseIso8601Nanos(text), v + 3)
  BY <1>2, <1>4, <1>5 DEF Timestamp
<1>7. parseIso8601Nanos(text) = TimeCounted(text)
  BY StampsAre
<1> QED BY <1>1, <1>3, <1>6, <1>7 DEF Set, Put, Moves

\* The end of hd, of a line, and the beginning of the next.
LEMMA AtClose ==
  ASSUME pos \in Nat, Len(data) \in Nat, pos <= Len(data), data[pos] = "close"
  PROVE  Skip(pos, {"comma"}) = pos /\ At(pos, "close") /\ Past(pos) = pos + 1
<1>1. FirstWithout(pos, pos, {"comma"})
  BY DEF FirstWithout
<1> QED BY <1>1, SkipIs DEF At, Past, End

\* ndp_parseHd returns behind the brace.
LEMMA LeavesHd ==
  ASSUME pos \in Nat, Len(data) \in Nat, pos <= Len(data), data[pos] = "close", pc = "hd", JsonNext
  PROVE  Moves(pos + 1, "fields", event)
<1>1. Skip(pos, {"comma"}) = pos /\ At(pos, "close") /\ Past(pos) = pos + 1
  BY AtClose
<1>2. Hd
  BY DEF JsonNext, Begin, Fields, Returned
<1> QED BY <1>1, <1>2 DEF Hd, Goto, Moves

\* ndp_parseLine returns behind the brace, and f is called if ts_recv was read.
LEMMA CallsBack ==
  ASSUME pos \in Nat, Len(data) \in Nat, pos <= Len(data), data[pos] = "close", pc = "fields",
         event.ts_recv # NoTime, JsonNext
  PROVE  /\ calls' = Append(calls, event) /\ pc' = "lines" /\ pos' = pos + 1
         /\ UNCHANGED <<textFile, data>>
<1>1. Skip(pos, {"comma"}) = pos /\ At(pos, "close") /\ Past(pos) = pos + 1
  BY AtClose
<1>2. Fields
  BY DEF JsonNext, Begin, Hd, Returned
<1>3. Finish(pos) /\ UNCHANGED <<textFile, data>>
  BY <1>1, <1>2 DEF Fields
<1> QED BY <1>1, <1>3 DEF Finish, Goto

\* parse_inner finds the brace of a line, behind the newline of the one before.
LEMMA BeginsLine ==
  ASSUME NEW o \in Nat, Len(data) \in Nat, o + 1 <= Len(data), data[o + 1] = "open",
         pos = o + 1 \/ (pos = o /\ pos \in Nat \ {0} /\ data[o] = "nl"), pc = "lines", JsonNext
  PROVE  Moves(o + 2, "fields", Default)
<1> DEFINE p == o + 1
<1>1. FirstWithout(pos, p, {"nl"})
  <2>1. CASE pos = o + 1
    BY <2>1 DEF FirstWithout
  <2>2. CASE pos = o
    <3>1. ASSUME NEW r \in pos .. p - 1 PROVE r = o
      BY <2>2
    <3>2. data[p] # "nl" /\ data[o] = "nl" /\ p \in pos .. Len(data)
      BY <2>2
    <3> QED BY <2>2, <3>1, <3>2 DEF FirstWithout
  <2> QED BY <2>1, <2>2
<1>2. p < End /\ p \in Nat /\ data[p] = "open" /\ p + 1 = o + 2 /\ End \in Nat
  BY DEF End
<1> HIDE DEF p
<1>3. Skip(pos, {"nl"}) = p
  BY <1>1, SkipIs
<1>4. Begin
  BY DEF JsonNext, Hd, Fields, Returned
<1> QED BY <1>2, <1>3, <1>4 DEF Begin, Moves
-----------------------------------------------------------------------------
\* The loop is p tokens into the line l, and the event has its fields S; a step to there.
Place(o, l, p, loop, S) == pos = o + p /\ pc = loop /\ event = Got(l, S)
Goes(o, l, p, loop, S) ==
  pos' = o + p /\ pc' = loop /\ event' = Got(l, S) /\ UNCHANGED <<textFile, data, calls>>

\* The loop of ndp_parseLine comes to the name p tokens into the line.
Comes(o, l, p, S) ==
  /\ pos = o + p \/ (pos = o + (p - 1) /\ data[o + (p - 1)] = "comma")
  /\ pc = "fields" /\ event = Got(l, S)

\* Then it reaches that name.
LEMMA ComesIs ==
  ASSUME NEW o, NEW l, LineAt(o, l), NEW p \in 1 .. 60, NEW S, Comes(o, l, p, S)
  PROVE  Reaches(o + p) /\ o \in Nat
<1>1. o \in Nat /\ p \in Nat /\ p - 1 \in Nat /\ Len(data) \in Nat /\ data \in Seq(Token \union {"nl"})
  BY DEF LineAt
<1>2. o + p \in Nat /\ o + (p - 1) = (o + p) - 1 /\ o + (p - 1) \in Nat
  BY <1>1
<1>3. pos = o + p \/ (pos = (o + p) - 1 /\ data[pos] = "comma")
  BY <1>2, Zenon DEF Comes
<1>4. pos \in Nat
  BY <1>2, Zenon DEF Comes
<1> QED BY <1>1, <1>2, <1>3, <1>4, Zenon DEF Reaches

\* The fields of hd.
LEMMA HdBegins ==
  ASSUME NEW o, NEW l, LineAt(o, l), NEW S, Comes(o, l, HdAt(l) + 1, S), JsonNext
  PROVE  Goes(o, l, HdAt(l) + 6, "hd", S)
<1> DEFINE h == HdAt(l)
           p == o + (h + 1)
<1>1. h + 1 \in 1 .. 60 /\ h \in Nat
  BY DEF HdAt
<1>2. Reaches(p) /\ o \in Nat
  BY <1>1, ComesIs
<1>3. p = (o + h) + 1 /\ p + 4 = (o + h) + 5 /\ p + 5 = o + (h + 6)
  BY <1>1, <1>2
<1>4. NamedAt((o + h) + 1, "hd") /\ data[(o + h) + 5] = "open"
  BY LineLies DEF HdLaidOut
<1> HIDE DEF p
<1>5. NamedAt(p, "hd") /\ data[p + 4] = "open" /\ pc = "fields" /\ event = Got(l, S)
  BY <1>3, <1>4, Zenon DEF Comes
<1>6. Moves(p + 5, "hd", event)
  BY <1>2, <1>5, EntersHd
<1> QED BY <1>3, <1>5, <1>6, Zenon DEF Moves, Goes, h

\* The first of them.
LEMMA HdReads ==
  ASSUME NEW o, NEW l, LineAt(o, l), NEW S, Place(o, l, HdAt(l) + 6, "hd", S), JsonNext
  PROVE  Goes(o, l, HdAt(l) + 11, "hd", S \union {"instrument_id"})
<1> DEFINE h == HdAt(l)
           p == o + (h + 6)
<1>1. h \in Nat /\ o \in Nat /\ l \in Line /\ Len(data) \in Nat /\ data \in Seq(Token \union {"nl"})
  BY DEF HdAt, LineAt
<1>2. p = (o + h) + 6 /\ p + 4 = (o + h) + 10 /\ p + 5 = o + (h + 11) /\ p \in Nat
  BY <1>1
<1>3. NamedAt((o + h) + 6, "instrument_id") /\ data[(o + h) + 10] = l.instrument_id
  BY LineLies DEF HdLaidOut
<1>4. l.instrument_id \in DOMAIN Number
  BY <1>1, TextsDiffer
<1> HIDE DEF p
<1>5. Reaches(p) /\ pc = "hd" /\ event = Got(l, S)
  BY <1>1, <1>2 DEF Place, Reaches, p
<1>6. NamedAt(p, "instrument_id") /\ data[p + 4] = l.instrument_id /\ data[p + 4] \in DOMAIN Number
  BY <1>2, <1>3, <1>4, Zenon
<1>7. Moves(p + 5, "hd", Put(event, "instrument_id", Number[data[p + 4]]))
  BY <1>5, <1>6, ReadsInstrument
<1>8. Put(event, "instrument_id", Number[data[p + 4]]) = Got(l, S \union {"instrument_id"})
  <2>1. Adds(l, S, "instrument_id", Number[l.instrument_id])
    BY GotMore
  <2> QED BY <1>5, <1>6, <2>1, Zenon DEF Adds
<1> QED BY <1>2, <1>7, <1>8, Zenon DEF Moves, Goes, h

\* The second.
LEMMA HdReadsEvent ==
  ASSUME NEW o, NEW l, LineAt(o, l), NEW S, Place(o, l, HdAt(l) + 11, "hd", S), JsonNext
  PROVE  Goes(o, l, HdAt(l) + 19, "hd", S \union {"ts_event"})
<1> DEFINE h == HdAt(l)
           p == o + (h + 12)
<1>1. h \in Nat /\ o \in Nat /\ l \in Line /\ Len(data) \in Nat /\ data \in Seq(Token \union {"nl"})
  BY DEF HdAt, LineAt
<1>2. /\ p = (o + h) + 12 /\ p + 4 = (o + h) + 16 /\ p + 7 = o + (h + 19) /\ p \in Nat
      /\ o + (h + 11) = p - 1 /\ o + (h + 11) = (o + h) + 11 /\ o + (h + 11) \in Nat
  BY <1>1
<1>3. /\ NamedAt((o + h) + 12, "ts_event") /\ QuotedAt((o + h) + 16, l.ts_event)
      /\ data[(o + h) + 11] = "comma"
  BY LineLies DEF HdLaidOut
<1>4. l.ts_event \in DOMAIN Stamp
  BY <1>1, TextsDiffer
<1> HIDE DEF p
<1>5. Reaches(p) /\ pc = "hd" /\ event = Got(l, S)
  <2>1. pos = o + (h + 11) /\ pc = "hd" /\ event = Got(l, S)
    BY Zenon DEF Place
  <2>2. pos \in Nat /\ pos = p - 1 /\ data[pos] = "comma"
    BY <1>2, <1>3, <2>1, Zenon
  <2> QED BY <1>1, <1>2, <2>1, <2>2, Zenon DEF Reaches
<1>6. NamedAt(p, "ts_event") /\ QuotedAt(p + 4, l.ts_event)
  BY <1>2, <1>3, Zenon
<1>7. Moves(p + 7, "hd", Put(event, "ts_event", TimeCounted(l.ts_event)))
  BY <1>4, <1>5, <1>6, ReadsEvent
<1>8. Put(event, "ts_event", TimeCounted(l.ts_event)) = Got(l, S \union {"ts_event"})
  <2>1. Adds(l, S, "ts_event", TimeCounted(l.ts_event))
    BY GotMore
  <2> QED BY <1>5, <2>1, Zenon DEF Adds
<1> QED BY <1>2, <1>7, <1>8, Zenon DEF Moves, Goes, h

\* The end of hd.
LEMMA HdEnds ==
  ASSUME NEW o, NEW l, LineAt(o, l), NEW S, Place(o, l, HdAt(l) + 19, "hd", S), JsonNext
  PROVE  Goes(o, l, HdAt(l) + 20, "fields", S)
<1> DEFINE h == HdAt(l)
           p == o + (h + 19)
<1>1. h \in {1, 9} /\ o \in Nat /\ Len(data) \in Nat /\ o + Width(l) + 1 <= Len(data)
      /\ Width(l) \in {57, 59}
  BY DEF HdAt, LineAt, Width
<1>2. p = (o + h) + 19 /\ p + 1 = o + (h + 20) /\ p \in Nat /\ p <= Len(data)
  BY <1>1
<1>3. data[(o + h) + 19] = "close"
  BY LineLies DEF HdLaidOut
<1>4. pos = p /\ pc = "hd" /\ event = Got(l, S)
  BY Zenon DEF Place
<1> HIDE DEF p
<1>5. pos \in Nat /\ pos <= Len(data) /\ data[pos] = "close"
  BY <1>2, <1>3, <1>4, Zenon
<1>6. Moves(pos + 1, "fields", event)
  BY <1>1, <1>4, <1>5, LeavesHd
<1> QED BY <1>2, <1>4, <1>6, Zenon DEF Moves, Goes, h

\* The fields after it, and ts_recv.
LEMMA RecvReads ==
  ASSUME NEW o, NEW l, LineAt(o, l), NEW S, Comes(o, l, RecvAt(l) + 1, S), JsonNext
  PROVE  Goes(o, l, RecvAt(l) + 8, "fields", S \union {"ts_recv"})
<1> DEFINE r == RecvAt(l)
           p == o + (r + 1)
<1>1. r + 1 \in 1 .. 60 /\ r \in Nat /\ l \in Line
  BY DEF RecvAt, LineAt
<1>2. Reaches(p) /\ o \in Nat
  BY <1>1, ComesIs
<1>3. p = (o + r) + 1 /\ p + 4 = (o + r) + 5 /\ p + 7 = o + (r + 8)
  BY <1>1, <1>2
<1>4. NamedAt((o + r) + 1, "ts_recv") /\ QuotedAt((o + r) + 5, l.ts_recv)
  BY LineLies DEF RecvLaidOut
<1>5. l.ts_recv \in DOMAIN Stamp
  BY <1>1, TextsDiffer
<1> HIDE DEF p
<1>6. NamedAt(p, "ts_recv") /\ QuotedAt(p + 4, l.ts_recv)
  BY <1>3, <1>4, Zenon
<1>7. pc = "fields" /\ event = Got(l, S)
  BY Zenon DEF Comes
<1>8. Moves(p + 7, "fields", Put(event, "ts_recv", TimeCounted(l.ts_recv)))
  BY <1>2, <1>5, <1>6, <1>7, ReadsRecv
<1>9. Put(event, "ts_recv", TimeCounted(l.ts_recv)) = Got(l, S \union {"ts_recv"})
  <2>1. Adds(l, S, "ts_recv", TimeCounted(l.ts_recv))
    BY GotMore
  <2> QED BY <1>7, <2>1, Zenon DEF Adds
<1> QED BY <1>3, <1>8, <1>9, Zenon DEF Moves, Goes, r

\* order_id.
LEMMA OrderReads ==
  ASSUME NEW o, NEW l, LineAt(o, l), NEW S, Comes(o, l, 30, S), JsonNext
  PROVE  Goes(o, l, 37, "fields", S \union {"order_id"})
<1> DEFINE p == o + 30
<1>1. Reaches(p) /\ o \in Nat /\ l \in Line
  <2>1. 30 \in 1 .. 60
    OBVIOUS
  <2> QED BY <2>1, ComesIs DEF LineAt
<1>2. p = (o + 29) + 1 /\ p + 4 = (o + 29) + 5 /\ p + 7 = o + 37
  BY <1>1
<1>3. NamedAt((o + 29) + 1, "order_id") /\ QuotedAt((o + 29) + 5, l.order_id)
  BY LineLies DEF RestLaidOut
<1>4. l.order_id \in DOMAIN Number
  BY <1>1, TextsDiffer
<1> HIDE DEF p
<1>5. NamedAt(p, "order_id") /\ QuotedAt(p + 4, l.order_id)
  BY <1>2, <1>3, Zenon
<1>6. pc = "fields" /\ event = Got(l, S)
  BY Zenon DEF Comes
<1>7. Moves(p + 7, "fields", Put(event, "order_id", Number[l.order_id]))
  BY <1>1, <1>4, <1>5, <1>6, ReadsOrder
<1>8. Adds(l, S, "order_id", Number[l.order_id])
  BY GotMore
<1> QED BY <1>2, <1>6, <1>7, <1>8, Zenon DEF Moves, Goes, Adds

\* size.
LEMMA SizeReads ==
  ASSUME NEW o, NEW l, LineAt(o, l), NEW S, Comes(o, l, 38, S), JsonNext
  PROVE  Goes(o, l, 43, "fields", S \union {"size"})
<1> DEFINE p == o + 38
<1>1. Reaches(p) /\ o \in Nat /\ l \in Line
  <2>1. 38 \in 1 .. 60
    OBVIOUS
  <2> QED BY <2>1, ComesIs DEF LineAt
<1>2. p = (o + 29) + 9 /\ p + 4 = (o + 29) + 13 /\ p + 5 = o + 43
  BY <1>1
<1>3. NamedAt((o + 29) + 9, "size") /\ data[(o + 29) + 13] = l.size
  BY LineLies DEF RestLaidOut
<1>4. l.size \in DOMAIN Number
  BY <1>1, TextsDiffer
<1> HIDE DEF p
<1>5. NamedAt(p, "size") /\ data[p + 4] = l.size
  BY <1>2, <1>3, Zenon
<1>6. pc = "fields" /\ event = Got(l, S)
  BY Zenon DEF Comes
<1>7. Moves(p + 5, "fields", Put(event, "size", Number[l.size]))
  <2>1. data[p + 4] \in DOMAIN Number
    BY <1>4, <1>5, Zenon
  <2>2. Moves(p + 5, "fields", Put(event, "size", Number[data[p + 4]]))
    BY <1>1, <1>5, <1>6, <2>1, ReadsSize
  <2> QED BY <1>5, <2>2, Zenon
<1>8. Adds(l, S, "size", Number[l.size])
  BY GotMore
<1> QED BY <1>2, <1>6, <1>7, <1>8, Zenon DEF Moves, Goes, Adds

\* symbol, which the event does not keep.
LEMMA SymbolSkips ==
  ASSUME NEW o, NEW l, LineAt(o, l), NEW S, Comes(o, l, 44, S), JsonNext
  PROVE  Goes(o, l, 51, "fields", S)
<1> DEFINE p == o + 44
<1>1. Reaches(p) /\ o \in Nat /\ l \in Line
  <2>1. 44 \in 1 .. 60
    OBVIOUS
  <2> QED BY <2>1, ComesIs DEF LineAt
<1>2. p = (o + 29) + 15 /\ p + 4 = (o + 29) + 19 /\ p + 7 = o + 51
  BY <1>1
<1>3. NamedAt((o + 29) + 15, "symbol") /\ QuotedAt((o + 29) + 19, "symbolText")
  BY LineLies DEF RestLaidOut
<1> HIDE DEF p
<1>4. NamedAt(p, "symbol") /\ QuotedAt(p + 4, "symbolText")
  BY <1>2, <1>3, Zenon
<1>5. pc = "fields" /\ event = Got(l, S)
  BY Zenon DEF Comes
<1>6. Moves(p + 7, "fields", event)
  BY <1>1, <1>4, <1>5, SkipsSymbol
<1> QED BY <1>2, <1>5, <1>6, Zenon DEF Moves, Goes

\* price.
LEMMA PriceReads ==
  ASSUME NEW o, NEW l, LineAt(o, l), NEW S, Comes(o, l, 52, S), JsonNext
  PROVE  Goes(o, l, Width(l), "fields", S \union {"price"})
<1> DEFINE p == o + 52
<1>1. Reaches(p) /\ o \in Nat /\ l \in Line
  <2>1. 52 \in 1 .. 60
    OBVIOUS
  <2> QED BY <2>1, ComesIs DEF LineAt
<1>2. p = (o + 51) + 1 /\ p + 4 = (o + 51) + 5 /\ p + 5 = o + 57 /\ p + 7 = o + 59
  BY <1>1
<1>3. /\ NamedAt((o + 51) + 1, "price")
      /\ IF l.price = "null" THEN data[(o + 51) + 5] = "null" ELSE QuotedAt((o + 51) + 5, l.price)
  BY LineLies DEF PriceLaidOut
<1>4. l.price \in DOMAIN PriceText \union {"null"}
  BY <1>1, TextsDiffer
<1> HIDE DEF p
<1>5. NamedAt(p, "price") /\ IF l.price = "null" THEN data[p + 4] = "null" ELSE QuotedAt(p + 4, l.price)
  BY <1>2, <1>3, Zenon
<1>6. pc = "fields" /\ event = Got(l, S)
  BY Zenon DEF Comes
<1>7. Adds(l, S, "price", PriceRead(l))
  BY GotMore
<1>8. CASE l.price = "null"
  <2>1. Moves(p + 5, "fields", event)
    BY <1>1, <1>5, <1>6, <1>8, SkipsNull
  <2>2. Width(l) = 57
    BY <1>8 DEF Width
  <2>3. Got(l, S) = Got(l, S \union {"price"})
    <3> DEFINE T == S \union {"price"}
    <3>1. /\ Read(T, "ts_recv", TimeCounted(l.ts_recv), NoTime) = Read(S, "ts_recv", TimeCounted(l.ts_recv), NoTime)
          /\ Read(T, "ts_event", TimeCounted(l.ts_event), NoTime) = Read(S, "ts_event", TimeCounted(l.ts_event), NoTime)
          /\ Read(T, "instrument_id", Number[l.instrument_id], 0) = Read(S, "instrument_id", Number[l.instrument_id], 0)
          /\ Read(T, "order_id", Number[l.order_id], 0) = Read(S, "order_id", Number[l.order_id], 0)
          /\ Read(T, "size", Number[l.size], 0) = Read(S, "size", Number[l.size], 0)
          /\ Read(T, "price", PriceRead(l), Undef) = Read(S, "price", PriceRead(l), Undef)
      BY <1>8 DEF Read, PriceRead
    <3> HIDE DEF T
    <3>2. Got(l, S) = Got(l, T)
      BY <3>1, Zenon DEF Got
    <3> QED BY <3>2 DEF T
  <2> QED BY <1>2, <1>6, <2>1, <2>2, <2>3, Zenon DEF Moves, Goes
<1>9. CASE l.price # "null"
  <2>1. l.price \in DOMAIN PriceText /\ PriceRead(l) = PriceOf(l.price) /\ Width(l) = 59
    BY <1>4, <1>9 DEF PriceRead, Width
  <2>2. QuotedAt(p + 4, l.price)
    BY <1>5, <1>9
  <2>3. Moves(p + 7, "fields", Put(event, "price", PriceOf(l.price)))
    BY <1>1, <1>5, <1>6, <2>1, <2>2, ReadsPrice
  <2> QED BY <1>2, <1>6, <1>7, <2>1, <2>3, Zenon DEF Moves, Goes, Adds
<1> QED BY <1>8, <1>9

\* The fields of a line; and its end, with the call.
AllFields == {"ts_recv", "ts_event", "instrument_id", "order_id", "size", "price"}
Calls(o, l) ==
  /\ calls' = Append(calls, Meaning(l)) /\ pc' = "lines" /\ pos' = o + (Width(l) + 1)
  /\ UNCHANGED <<textFile, data>>

\* At the closing brace all fields are read.
LEMMA LineEnds ==
  ASSUME NEW o, NEW l, LineAt(o, l), Place(o, l, Width(l), "fields", AllFields), JsonNext
  PROVE  Calls(o, l)
<1> DEFINE p == o + Width(l)
<1>1. /\ p \in Nat /\ p + 1 = o + (Width(l) + 1) /\ p <= Len(data) /\ Len(data) \in Nat /\ l \in Line
  BY DEF LineAt, Width
<1>2. data[p] = "close"
  BY LineLies
<1> HIDE DEF p
<1>3. pos = p /\ pc = "fields" /\ event = Got(l, AllFields)
  BY Zenon DEF Place, p
<1>4. Got(l, AllFields) = Meaning(l)
  BY GotNoneAndAll, Zenon DEF AllFields
<1>5. event.ts_recv # NoTime
  <2>1. Meaning(l).ts_recv = TimeCounted(l.ts_recv)
    BY DEF Meaning
  <2>2. l.ts_recv \in DOMAIN Stamp
    BY <1>1, TextsDiffer
  <2>3. TimeCounted(l.ts_recv) # NoTime
    BY <2>2, StampsAre
  <2> QED BY <1>3, <1>4, <2>1, <2>3, Zenon
<1>6. pos \in Nat /\ pos <= Len(data) /\ data[pos] = "close"
  BY <1>1, <1>2, <1>3, Zenon
<1>7. calls' = Append(calls, event) /\ pc' = "lines" /\ pos' = pos + 1 /\ UNCHANGED <<textFile, data>>
  BY <1>1, <1>3, <1>5, <1>6, CallsBack
<1> QED BY <1>1, <1>3, <1>4, <1>7, Zenon DEF Calls
-----------------------------------------------------------------------------
\* The loops are within the line l, which begins after the first o tokens.
BeforeHd(l) == IF l.hdFirst THEN {} ELSE {"ts_recv"}
FieldsOfHd == {"ts_event", "instrument_id"}
Upto29 == FieldsOfHd \union {"ts_recv"}
Upto37 == FieldsOfHd \union {"ts_recv", "order_id"}
Upto51 == FieldsOfHd \union {"ts_recv", "order_id", "size"}
InLine(o, l) ==
  \/ Place(o, l, 2, "fields", {})
  \/ ~l.hdFirst /\ Place(o, l, 9, "fields", {"ts_recv"})
  \/ Place(o, l, HdAt(l) + 6, "hd", BeforeHd(l))
  \/ Place(o, l, HdAt(l) + 11, "hd", BeforeHd(l) \union {"instrument_id"})
  \/ Place(o, l, HdAt(l) + 19, "hd", BeforeHd(l) \union FieldsOfHd)
  \/ l.hdFirst /\ Place(o, l, 21, "fields", FieldsOfHd)
  \/ Place(o, l, 29, "fields", Upto29)
  \/ Place(o, l, 37, "fields", Upto37)
  \/ Place(o, l, 43, "fields", Upto51)
  \/ Place(o, l, 51, "fields", Upto51)
  \/ Place(o, l, Width(l), "fields", AllFields)

\* From a place the loop comes to the name there, or after the comma there.
LEMMA PlaceComes ==
  ASSUME NEW o, NEW l, NEW p \in Nat, NEW S, Place(o, l, p, "fields", S)
  PROVE  Comes(o, l, p, S) /\ (data[o + p] = "comma" => Comes(o, l, p + 1, S))
<1>1. (p + 1) - 1 = p
  OBVIOUS
<1> QED BY <1>1, Zenon DEF Place, Comes

\* A step to a place leaves the loop there.
LEMMA GoesThere ==
  ASSUME NEW o, NEW l, NEW p, NEW loop, NEW S, Goes(o, l, p, loop, S)
  PROVE  Place(o, l, p, loop, S)' /\ UNCHANGED <<textFile, data, calls>>
BY DEF Goes, Place

\* A step within a line stays in it, or calls f with what the line says.
LEMMA StepInLine ==
  ASSUME NEW o, NEW l, LineAt(o, l), InLine(o, l), JsonNext
  PROVE  (InLine(o, l)' /\ UNCHANGED <<textFile, data, calls>>) \/ Calls(o, l)
<1> DEFINE Stays == InLine(o, l)' /\ UNCHANGED <<textFile, data, calls>>
<1>1. /\ l \in Line /\ l.hdFirst \in BOOLEAN /\ 29 \in Nat /\ 37 \in Nat /\ 43 \in Nat /\ 51 \in Nat
      /\ 2 \in Nat /\ 9 \in Nat /\ 21 \in Nat
  <2>1. l \in Line
    BY DEF LineAt
  <2> QED BY <2>1, TextsDiffer
<1>2. /\ data[o + 29] = "comma" /\ data[o + 37] = "comma" /\ data[o + 43] = "comma" /\ data[o + 51] = "comma"
      /\ (l.hdFirst => data[o + 21] = "comma") /\ (~l.hdFirst => data[o + 9] = "comma")
  <2>1. o \in Nat
    BY DEF LineAt
  <2>2. data[(o + 29) + 8] = "comma" /\ data[(o + 29) + 14] = "comma" /\ data[(o + 29) + 22] = "comma"
    BY LineLies DEF RestLaidOut
  <2>3. (o + 29) + 8 = o + 37 /\ (o + 29) + 14 = o + 43 /\ (o + 29) + 22 = o + 51
    BY <2>1
  <2>4. data[o + 29] = "comma" /\ data[o + (IF l.hdFirst THEN 21 ELSE 9)] = "comma"
    BY LineLies
  <2>5. (l.hdFirst => data[o + 21] = "comma") /\ (~l.hdFirst => data[o + 9] = "comma")
    BY <2>4
  <2> QED BY <2>2, <2>3, <2>4, <2>5, Zenon
<1>3. /\ l.hdFirst => HdAt(l) = 1 /\ RecvAt(l) = 21 /\ BeforeHd(l) = {}
      /\ ~l.hdFirst => HdAt(l) = 9 /\ RecvAt(l) = 1 /\ BeforeHd(l) = {"ts_recv"}
  BY DEF HdAt, RecvAt, BeforeHd
<1>4. CASE Place(o, l, 2, "fields", {})
  <2>1. Comes(o, l, 2, {})
    BY <1>1, <1>4, PlaceComes
  <2>2. CASE l.hdFirst
    <3>1. HdAt(l) + 1 = 2 /\ BeforeHd(l) = {}
      BY <1>3, <2>2
    <3>2. Comes(o, l, HdAt(l) + 1, BeforeHd(l))
      BY <2>1, <3>1, Zenon
    <3>3. Goes(o, l, HdAt(l) + 6, "hd", BeforeHd(l))
      BY <3>2, HdBegins
    <3> QED BY <3>3, GoesThere, Zenon DEF InLine
  <2>3. CASE ~l.hdFirst
    <3>1. RecvAt(l) + 1 = 2 /\ RecvAt(l) + 8 = 9
      BY <1>3, <2>3
    <3>2. Comes(o, l, RecvAt(l) + 1, {})
      BY <2>1, <3>1, Zenon
    <3>3. Goes(o, l, RecvAt(l) + 8, "fields", {} \union {"ts_recv"})
      BY <3>2, RecvReads
    <3>4. Goes(o, l, 9, "fields", {"ts_recv"})
      <4>1. {} \union {"ts_recv"} = {"ts_recv"}
        OBVIOUS
      <4> QED BY <3>1, <3>3, <4>1, Zenon
    <3> QED BY <2>3, <3>4, GoesThere, Zenon DEF InLine
  <2> QED BY <2>2, <2>3
<1>5. CASE ~l.hdFirst /\ Place(o, l, 9, "fields", {"ts_recv"})
  <2>1. 9 + 1 = HdAt(l) + 1 /\ BeforeHd(l) = {"ts_recv"}
    BY <1>3, <1>5
  <2>2. Comes(o, l, 9 + 1, {"ts_recv"})
    BY <1>1, <1>2, <1>5, PlaceComes
  <2>3. Comes(o, l, HdAt(l) + 1, BeforeHd(l))
    BY <2>1, <2>2, Zenon
  <2>4. Goes(o, l, HdAt(l) + 6, "hd", BeforeHd(l))
    BY <2>3, HdBegins
  <2> QED BY <2>4, GoesThere, Zenon DEF InLine
<1>6. CASE Place(o, l, HdAt(l) + 6, "hd", BeforeHd(l))
  <2>1. Goes(o, l, HdAt(l) + 11, "hd", BeforeHd(l) \union {"instrument_id"})
    BY <1>6, HdReads
  <2> QED BY <2>1, GoesThere, Zenon DEF InLine
<1>7. CASE Place(o, l, HdAt(l) + 11, "hd", BeforeHd(l) \union {"instrument_id"})
  <2> DEFINE S == BeforeHd(l) \union {"instrument_id"}
  <2>1. S \union {"ts_event"} = BeforeHd(l) \union FieldsOfHd
    BY DEF FieldsOfHd
  <2> HIDE DEF S
  <2>2. Goes(o, l, HdAt(l) + 19, "hd", S \union {"ts_event"})
    BY <1>7, HdReadsEvent DEF S
  <2>3. Goes(o, l, HdAt(l) + 19, "hd", BeforeHd(l) \union FieldsOfHd)
    BY <2>1, <2>2, Zenon
  <2> QED BY <2>3, GoesThere, Zenon DEF InLine
<1>8. CASE Place(o, l, HdAt(l) + 19, "hd", BeforeHd(l) \union FieldsOfHd)
  <2>1. Goes(o, l, HdAt(l) + 20, "fields", BeforeHd(l) \union FieldsOfHd)
    BY <1>8, HdEnds
  <2>2. CASE l.hdFirst
    <3>1. HdAt(l) + 20 = 21 /\ BeforeHd(l) \union FieldsOfHd = FieldsOfHd
      BY <1>3, <2>2
    <3>2. Goes(o, l, 21, "fields", FieldsOfHd)
      BY <2>1, <3>1, Zenon
    <3> QED BY <2>2, <3>2, GoesThere, Zenon DEF InLine
  <2>3. CASE ~l.hdFirst
    <3>1. HdAt(l) + 20 = 29 /\ BeforeHd(l) \union FieldsOfHd = Upto29
      BY <1>3, <2>3 DEF Upto29
    <3>2. Goes(o, l, 29, "fields", Upto29)
      BY <2>1, <3>1, Zenon
    <3> QED BY <3>2, GoesThere, Zenon DEF InLine
  <2> QED BY <2>2, <2>3
<1>9. CASE l.hdFirst /\ Place(o, l, 21, "fields", FieldsOfHd)
  <2>1. 21 + 1 = RecvAt(l) + 1 /\ RecvAt(l) + 8 = 29 /\ FieldsOfHd \union {"ts_recv"} = Upto29
    BY <1>3, <1>9 DEF Upto29
  <2>2. Comes(o, l, 21 + 1, FieldsOfHd)
    BY <1>1, <1>2, <1>9, PlaceComes
  <2>3. Comes(o, l, RecvAt(l) + 1, FieldsOfHd)
    BY <2>1, <2>2, Zenon
  <2>4. Goes(o, l, RecvAt(l) + 8, "fields", FieldsOfHd \union {"ts_recv"})
    BY <2>3, RecvReads
  <2>5. Goes(o, l, 29, "fields", Upto29)
    BY <2>1, <2>4, Zenon
  <2> QED BY <2>5, GoesThere, Zenon DEF InLine
<1>10. CASE Place(o, l, 29, "fields", Upto29)
  <2>1. 29 + 1 = 30 /\ Upto29 \union {"order_id"} = Upto37
    BY DEF Upto29, Upto37
  <2>2. Comes(o, l, 29 + 1, Upto29)
    BY <1>1, <1>2, <1>10, PlaceComes
  <2>3. Comes(o, l, 30, Upto29)
    BY <2>1, <2>2, Zenon
  <2>4. Goes(o, l, 37, "fields", Upto29 \union {"order_id"})
    BY <2>3, OrderReads
  <2>5. Goes(o, l, 37, "fields", Upto37)
    BY <2>1, <2>4, Zenon
  <2> QED BY <2>5, GoesThere, Zenon DEF InLine
<1>11. CASE Place(o, l, 37, "fields", Upto37)
  <2>1. 37 + 1 = 38 /\ Upto37 \union {"size"} = Upto51
    BY DEF Upto37, Upto51
  <2>2. Comes(o, l, 37 + 1, Upto37)
    BY <1>1, <1>2, <1>11, PlaceComes
  <2>3. Comes(o, l, 38, Upto37)
    BY <2>1, <2>2, Zenon
  <2>4. Goes(o, l, 43, "fields", Upto37 \union {"size"})
    BY <2>3, SizeReads
  <2>5. Goes(o, l, 43, "fields", Upto51)
    BY <2>1, <2>4, Zenon
  <2> QED BY <2>5, GoesThere, Zenon DEF InLine
<1>12. CASE Place(o, l, 43, "fields", Upto51)
  <2>1. 43 + 1 = 44
    OBVIOUS
  <2>2. Comes(o, l, 43 + 1, Upto51)
    BY <1>1, <1>2, <1>12, PlaceComes
  <2>3. Comes(o, l, 44, Upto51)
    BY <2>1, <2>2, Zenon
  <2>4. Goes(o, l, 51, "fields", Upto51)
    BY <2>3, SymbolSkips
  <2> QED BY <2>4, GoesThere, Zenon DEF InLine
<1>13. CASE Place(o, l, 51, "fields", Upto51)
  <2>1. 51 + 1 = 52 /\ Upto51 \union {"price"} = AllFields
    BY DEF Upto51, FieldsOfHd, AllFields
  <2>2. Comes(o, l, 51 + 1, Upto51)
    BY <1>1, <1>2, <1>13, PlaceComes
  <2>3. Comes(o, l, 52, Upto51)
    BY <2>1, <2>2, Zenon
  <2>4. Goes(o, l, Width(l), "fields", Upto51 \union {"price"})
    BY <2>3, PriceReads
  <2>5. Goes(o, l, Width(l), "fields", AllFields)
    BY <2>1, <2>4, Zenon
  <2> QED BY <2>5, GoesThere, Zenon DEF InLine
<1>14. CASE Place(o, l, Width(l), "fields", AllFields)
  BY <1>14, LineEnds
<1> HIDE DEF Stays
<1> QED BY <1>4, <1>5, <1>6, <1>7, <1>8, <1>9, <1>10, <1>11, <1>12, <1>13, <1>14, Zenon DEF InLine, Stays
-----------------------------------------------------------------------------
\* A sequence, and another after it.
IsSeq(s) == s \in Seq({s[i] : i \in DOMAIN s})
IsLonger(t, s, e) ==
  /\ IsSeq(t) /\ Len(t) = Len(s) + 1 /\ t[Len(s) + 1] = e /\ DOMAIN t = 1 .. Len(s) + 1
  /\ \A i \in 1 .. Len(s) : t[i] = s[i]

\* Append makes such a sequence.
LEMMA AppendIs ==
  ASSUME NEW s, IsSeq(s), NEW e
  PROVE  IsLonger(Append(s, e), s, e)
<1> DEFINE S == {s[i] : i \in DOMAIN s} \union {e}
           t == Append(s, e)
<1>1. s \in Seq(S) /\ e \in S
  <2>1. Seq({s[i] : i \in DOMAIN s}) \subseteq Seq(S)
    OBVIOUS
  <2> QED BY <2>1 DEF IsSeq
<1> HIDE DEF S
<1>2. /\ t \in Seq(S) /\ Len(t) = Len(s) + 1 /\ t[Len(s) + 1] = e /\ DOMAIN t = 1 .. Len(s) + 1
      /\ \A i \in 1 .. Len(s) : t[i] = s[i]
  BY <1>1
<1> HIDE DEF t
<1>3. IsSeq(t)
  <2>1. Len(t) \in Nat /\ t \in [1 .. Len(t) -> {t[i] : i \in DOMAIN t}]
    BY <1>2
  <2> QED BY <2>1 DEF IsSeq
<1> QED BY <1>2, <1>3, Zenon DEF IsLonger, t

\* f is called for one event at a time.
LEMMA CallsGrow ==
  ASSUME JsonNext
  PROVE  UNCHANGED calls \/ \E e : calls' = Append(calls, e)
<1>1. CASE Begin
  BY <1>1 DEF Begin
<1>2. CASE Fields
  BY <1>2 DEF Fields, Finish
<1>3. CASE Hd
  BY <1>3 DEF Hd
<1>4. CASE Returned
  BY <1>4 DEF Returned, jsonVars
<1> QED BY <1>1, <1>2, <1>3, <1>4 DEF JsonNext

\* The newline at the end of the file.
LEMMA SkipsLast ==
  ASSUME Len(data) \in Nat, NEW p \in Nat, p = Len(data), data[p] = "nl"
  PROVE  Skip(p, {"nl"}) = End
<1> DEFINE Good(x) == /\ x = End \/ data[x] \notin {"nl"}
                      /\ \A r \in p .. x - 1 : data[r] \in {"nl"}
           c == CHOOSE x \in p .. End : Good(x)
<1>1. End = p + 1 /\ End \in p .. End /\ p .. End = {p, End} /\ p .. End - 1 = {p} /\ ~(p >= End)
  BY DEF End
<1>2. Good(End) /\ ~Good(p)
  BY <1>1
<1>3. Skip(p, {"nl"}) = c
  BY <1>1 DEF Skip
<1> HIDE DEF Good
<1>4. c \in p .. End /\ Good(c)
  BY <1>1, <1>2
<1> QED BY <1>1, <1>2, <1>3, <1>4

\* A whole line is in the data as it was written.
LEMMA WholeLineAt ==
  ASSUME textFile \in Seq(LinesLeft), NEW off, LaidOut(off), NEW i \in 1 .. Len(textFile),
         Intact(textFile[i]), NEW l, l = textFile[i].line
  PROVE  LineAt(off[i - 1], l) /\ off[i] = off[i - 1] + (Width(l) + 1)
<1> DEFINE w == textFile[i]
           s == Left(w)
           t == Text(l)
           o == off[i - 1]
<1>1. w \in LinesLeft /\ l \in Line
  BY DEF LinesLeft
<1> HIDE DEF w
<1>2. IsText(t, l) /\ IsLeft(s, t) /\ Len(s) = w.kept /\ (~w.torn => \A k \in 1 .. Len(s) : s[k] = t[k])
  <2>1. w.line = l
    BY DEF w
  <2>2. /\ IsLeft(Left(w), Text(w.line)) /\ Len(Left(w)) = w.kept
        /\ ~w.torn => \A k \in 1 .. w.kept : Left(w)[k] = Text(w.line)[k]
    BY <1>1, LeftIs
  <2>3. IsText(t, l)
    BY <1>1, TextIs
  <2> QED BY <2>1, <2>2, <2>3, Zenon
<1>3. Len(s) = Width(l) /\ ~w.torn /\ w.kept = Len(t) /\ Width(l) \in Nat
  BY <1>2 DEF Intact, IsText, Width, w
<1>4. /\ off[i] = o + Len(s) + 1 /\ off[i] <= Len(data) /\ data[off[i]] = "nl"
      /\ \A k \in 1 .. Len(s) : data[o + k] = s[k]
      /\ data \in Seq(Token \union {"nl"})
  BY DEF LaidOut, w
<1>5. o \in Nat
  <2>1. i - 1 \in 0 .. Len(textFile)
    OBVIOUS
  <2>2. off \in [0 .. Len(textFile) -> Nat]
    BY DEF LaidOut
  <2> QED BY <2>1, <2>2
<1> HIDE DEF s, t, o
<1>6. off[i] = o + (Width(l) + 1) /\ o + (Width(l) + 1) = o + Width(l) + 1 /\ Len(data) \in Nat
  BY <1>3, <1>4, <1>5
<1>7. ASSUME NEW k \in 1 .. Width(l) PROVE data[o + k] = t[k]
  <2>1. k \in 1 .. Len(s)
    BY <1>3
  <2> QED BY <1>2, <1>3, <1>4, <2>1, Zenon
<1>8. o + Width(l) + 1 <= Len(data) /\ data[o + Width(l) + 1] = "nl"
  BY <1>4, <1>6
<1>9. LineAt(o, l)
  BY <1>1, <1>4, <1>5, <1>6, <1>7, <1>8 DEF LineAt, t
<1> QED BY <1>6, <1>9, Zenon DEF o

\* The first n lines are whole.
WholeUpTo(n) == n \in 0 .. Len(textFile) /\ \A i \in 1 .. n : Intact(textFile[i])

\* The parser before a line, and behind the last one.
AtLine(o, l) ==
  InLine(o, l) \/ (pc = "lines" /\ (pos = o + 1 \/ (pos = o /\ o > 0 /\ data[o] = "nl")))
AtEnd ==
  pc = "done" \/ (pc = "lines" /\ (pos = End \/ (pos = Len(data) /\ pos \in Nat /\ data[pos] = "nl")))

\* The calls up to now are those for the first n lines, and the parser is at the first
\* line of them that has no call.
Progress(off, n) ==
  /\ \A i \in 1 .. n : i \in DOMAIN calls => calls[i] = Meaning(textFile[i].line)
  /\ Len(calls) < n => AtLine(off[Len(calls)], textFile[Len(calls) + 1].line)
  /\ n = Len(textFile) /\ Len(calls) >= n => Len(calls) = n /\ AtEnd

\* A step at a line.
LEMMA StepAtLine ==
  ASSUME NEW o, NEW l, LineAt(o, l), AtLine(o, l), JsonNext
  PROVE  (AtLine(o, l)' /\ UNCHANGED <<textFile, data, calls>>) \/ Calls(o, l)
<1>1. CASE InLine(o, l)
  BY <1>1, StepInLine DEF AtLine
<1>2. CASE pc = "lines" /\ (pos = o + 1 \/ (pos = o /\ o > 0 /\ data[o] = "nl"))
  <2>1. o \in Nat /\ Len(data) \in Nat /\ o + 1 <= Len(data) /\ data[o + 1] = "open"
    <3>1. Width(l) \in {57, 59}
      BY DEF Width
    <3> QED BY <3>1, LineLies DEF LineAt
  <2>2. pos = o + 1 \/ (pos = o /\ pos \in Nat \ {0} /\ data[o] = "nl")
    BY <1>2, <2>1
  <2>3. Moves(o + 2, "fields", Default)
    BY <1>2, <2>1, <2>2, BeginsLine
  <2>4. Got(l, {}) = Default
    BY GotNoneAndAll
  <2>5. Goes(o, l, 2, "fields", {})
    BY <2>3, <2>4, Zenon DEF Moves, Goes
  <2> QED BY <2>5, GoesThere, Zenon DEF InLine, AtLine
<1> QED BY <1>1, <1>2 DEF AtLine

\* A step at the end.
LEMMA StepAtEnd ==
  ASSUME AtEnd, Len(data) \in Nat, JsonNext
  PROVE  AtEnd' /\ UNCHANGED calls
<1>1. CASE pc = "done"
  <2>1. Returned
    BY <1>1 DEF JsonNext, Begin, Fields, Hd
  <2> QED BY <1>1, <2>1 DEF Returned, jsonVars, AtEnd
<1>2. CASE pc = "lines" /\ (pos = End \/ (pos = Len(data) /\ pos \in Nat /\ data[pos] = "nl"))
  <2>1. Begin
    BY <1>2 DEF JsonNext, Fields, Hd, Returned
  <2>2. Skip(pos, {"nl"}) = End
    <3>1. CASE pos = End
      BY <3>1 DEF Skip, End
    <3>2. CASE pos = Len(data) /\ pos \in Nat /\ data[pos] = "nl"
      BY <3>2, SkipsLast
    <3> QED BY <1>2, <3>1, <3>2
  <2>3. End >= End
    BY DEF End
  <2> QED BY <2>1, <2>2, <2>3 DEF Begin, AtEnd
<1> QED BY <1>1, <1>2 DEF AtEnd

\* The file is not written.
LEMMA FileStays ==
  ASSUME JsonNext PROVE UNCHANGED <<textFile, data>>
BY DEF JsonNext, Begin, Fields, Hd, Returned, jsonVars

\* Every step keeps to it.
LEMMA StepProgress ==
  ASSUME textFile \in Seq(LinesLeft), IsSeq(calls), NEW off, LaidOut(off), NEW n, WholeUpTo(n),
         Progress(off, n), JsonNext
  PROVE  Progress(off, n)'
<1>1. textFile' = textFile /\ data' = data
  BY FileStays
<1>2. Len(calls) \in Nat /\ DOMAIN calls = 1 .. Len(calls) /\ n \in Nat /\ Len(textFile) \in Nat
      /\ n <= Len(textFile)
  BY DEF IsSeq, WholeUpTo
<1>3. ASSUME NEW i \in 1 .. n, i \in DOMAIN calls PROVE calls[i] = Meaning(textFile[i].line)
  BY <1>3 DEF Progress
<1>4. CASE Len(calls) < n
  <2>1. PICK c, o, l : c \in Nat /\ c = Len(calls) /\ o = off[c] /\ l = textFile[c + 1].line
    BY <1>2
  <2>2. AtLine(o, l)
    BY <1>4, <2>1 DEF Progress
  <2>3. c + 1 \in 1 .. n /\ c + 1 \in 1 .. Len(textFile) /\ (c + 1) - 1 = c /\ c < n
    BY <1>2, <1>4, <2>1
  <2>4. LineAt(o, l) /\ off[c + 1] = o + (Width(l) + 1)
    <3>1. Intact(textFile[c + 1])
      BY <2>3 DEF WholeUpTo
    <3>2. LineAt(off[(c + 1) - 1], l) /\ off[c + 1] = off[(c + 1) - 1] + (Width(l) + 1)
      BY <2>1, <2>3, <3>1, WholeLineAt
    <3> QED BY <2>1, <2>3, <3>2, Zenon
  <2>5. CASE AtLine(o, l)' /\ UNCHANGED <<textFile, data, calls>>
    <3>1. Len(calls') = c /\ calls' = calls /\ ~(c >= n)
      <4>1. calls' = calls
        BY <2>5
      <4>2. ~(c >= n)
        BY <1>2, <2>3
      <4> QED BY <2>1, <4>1, <4>2, Zenon
    <3>2. AtLine(o, l)'
      BY <2>5
    <3>3. (Len(calls) < n => AtLine(off[Len(calls)], textFile[Len(calls) + 1].line))'
      BY <1>1, <2>1, <3>1, <3>2, Zenon
    <3> QED BY <1>1, <1>3, <3>1, <3>3, Zenon DEF Progress
  <2>6. CASE Calls(o, l)
    <3>1. IsLonger(calls', calls, Meaning(l)) /\ pc' = "lines" /\ pos' = off[c + 1]
      BY <2>4, <2>6, AppendIs, Zenon DEF Calls
    <3>2. /\ Len(calls') = c + 1 /\ calls'[c + 1] = Meaning(l) /\ DOMAIN calls' = 1 .. c + 1
          /\ \A i \in 1 .. c : calls'[i] = calls[i]
      BY <2>1, <3>1, Zenon DEF IsLonger
    <3>3. ASSUME NEW i \in 1 .. n, i \in DOMAIN calls' PROVE calls'[i] = Meaning(textFile'[i].line)
      <4>1. CASE i = c + 1
        BY <1>1, <2>1, <3>2, <4>1, Zenon
      <4>2. CASE i # c + 1
        <5>1. i \in 1 .. c /\ i \in DOMAIN calls
          BY <1>2, <2>1, <3>2, <3>3, <4>2
        <5> QED BY <1>1, <1>3, <3>2, <5>1, Zenon
      <4> QED BY <4>1, <4>2
    <3>4. data[off[c + 1]] = "nl" /\ off[c + 1] \in Nat /\ off[c + 1] > 0
      <4>1. o \in Nat /\ Width(l) \in Nat
        BY <2>4 DEF LineAt, Width
      <4>2. data[off[c + 1]] = "nl"
        BY <2>3 DEF LaidOut
      <4> QED BY <2>4, <4>1, <4>2
    <3>5. (Len(calls) < n => AtLine(off[Len(calls)], textFile[Len(calls) + 1].line))'
      <4>1. \A m : AtLine(off[c + 1], m)'
        BY <1>1, <3>1, <3>4, Zenon DEF AtLine
      <4> QED BY <3>2, <4>1, Zenon
    <3>6. (n = Len(textFile) /\ Len(calls) >= n => Len(calls) = n /\ AtEnd)'
      <4> SUFFICES ASSUME n = Len(textFile), c + 1 >= n PROVE c + 1 = n /\ AtEnd'
        BY <1>1, <3>2
      <4>1. c + 1 = n
        BY <1>2, <2>3
      <4>2. off[n] = Len(data)
        BY DEF LaidOut
      <4>3. pos' = Len(data') /\ pos' \in Nat /\ data'[pos'] = "nl" /\ pc' = "lines"
        BY <1>1, <3>1, <3>4, <4>1, <4>2, Zenon
      <4> QED BY <4>1, <4>3, Zenon DEF AtEnd
    <3> QED BY <3>3, <3>5, <3>6, Zenon DEF Progress
  <2>7. (AtLine(o, l)' /\ UNCHANGED <<textFile, data, calls>>) \/ Calls(o, l)
    BY <2>2, <2>4, StepAtLine
  <2> QED BY <2>5, <2>6, <2>7, Zenon
<1>5. CASE Len(calls) >= n
  <2>1. Len(calls) <= Len(calls') /\ Len(calls') \in Nat /\ \A i \in 1 .. n : calls'[i] = calls[i]
    <3>1. CASE calls' = calls
      BY <1>2, <3>1
    <3>2. CASE \E e : calls' = Append(calls, e)
      <4>1. PICK e : IsLonger(calls', calls, e)
        BY <3>2, AppendIs, Zenon
      <4> QED BY <1>2, <1>5, <4>1 DEF IsLonger
    <3> QED BY <3>1, <3>2, CallsGrow
  <2>2. ASSUME NEW i \in 1 .. n PROVE calls'[i] = Meaning(textFile'[i].line)
    <3>1. i \in DOMAIN calls
      BY <1>2, <1>5
    <3> QED BY <1>1, <1>3, <2>1, <3>1, Zenon
  <2>3. ~(Len(calls') < n)
    BY <1>2, <1>5, <2>1
  <2>4. (n = Len(textFile) /\ Len(calls) >= n => Len(calls) = n /\ AtEnd)'
    <3> SUFFICES ASSUME n = Len(textFile) PROVE Len(calls') = n /\ AtEnd'
      BY <1>1
    <3>1. Len(calls) = n /\ AtEnd
      BY <1>5 DEF Progress
    <3>2. Len(data) \in Nat
      BY DEF LaidOut
    <3>3. AtEnd' /\ calls' = calls
      BY <3>1, <3>2, StepAtEnd
    <3> QED BY <3>1, <3>3, Zenon
  <2> QED BY <2>2, <2>3, <2>4, Zenon DEF Progress
<1> QED BY <1>2, <1>4, <1>5

\* The inductive invariant: the lines are where off says, and the calls up to now and the
\* place of the parser are right for all the lines before a damaged one.
ReadingInv ==
  /\ textFile \in Seq(LinesLeft) /\ IsSeq(calls)
  /\ \E off : LaidOut(off) /\ \A n : WholeUpTo(n) => Progress(off, n)

\* It holds at first.
LEMMA InitReading == JsonInit => ReadingInv
<1> SUFFICES ASSUME JsonInit PROVE ReadingInv
  OBVIOUS
<1>1. textFile \in Seq(LinesLeft)
  BY TextFilesAssumption DEF JsonInit
<1>2. calls = <<>> /\ pos = 1 /\ pc = "lines"
  BY DEF JsonInit
<1>3. IsSeq(calls) /\ Len(calls) = 0 /\ DOMAIN calls = {}
  BY <1>2 DEF IsSeq
<1>4. data = FlattenSeq([i \in DOMAIN textFile |-> Append(Left(textFile[i]), "nl")])
  BY DEF JsonInit
<1>5. PICK off : LaidOut(off)
  BY <1>1, <1>4, DataIs
<1>6. ASSUME NEW n, WholeUpTo(n) PROVE Progress(off, n)
  <2>1. n \in Nat /\ off[0] = 0 /\ off[Len(textFile)] = Len(data) /\ Len(textFile) \in Nat
    <3>1. Len(textFile) \in Nat /\ n \in Nat
      BY <1>1, <1>6 DEF WholeUpTo
    <3> QED BY <1>5, <3>1 DEF LaidOut
  <2>2. \A l : AtLine(0, l)
    BY <1>2 DEF AtLine
  <2>3. Len(calls) < n => AtLine(off[Len(calls)], textFile[Len(calls) + 1].line)
    BY <1>3, <2>1, <2>2, Zenon
  <2>4. n = Len(textFile) /\ Len(calls) >= n => Len(calls) = n /\ AtEnd
    <3> SUFFICES ASSUME n = Len(textFile), 0 >= n PROVE n = 0 /\ AtEnd
      BY <1>3
    <3>1. n = 0 /\ Len(data) = 0
      BY <2>1
    <3>2. pos = End
      BY <1>2, <3>1 DEF End
    <3> QED BY <1>2, <3>1, <3>2 DEF AtEnd
  <2> QED BY <1>3, <2>3, <2>4 DEF Progress
<1> QED BY <1>1, <1>3, <1>5, <1>6 DEF ReadingInv

\* And every step preserves it.
LEMMA StepReading == ReadingInv /\ [JsonNext]_jsonVars => ReadingInv'
<1> SUFFICES ASSUME ReadingInv, [JsonNext]_jsonVars PROVE ReadingInv'
  OBVIOUS
<1>1. CASE JsonNext
  <2>1. textFile' = textFile /\ data' = data
    BY <1>1, FileStays
  <2>2. textFile \in Seq(LinesLeft) /\ IsSeq(calls)
    BY DEF ReadingInv
  <2>3. IsSeq(calls)'
    <3>1. CASE calls' = calls
      BY <2>2, <3>1 DEF IsSeq
    <3>2. CASE \E e : calls' = Append(calls, e)
      <4>1. PICK e : IsLonger(calls', calls, e)
        BY <2>2, <3>2, AppendIs, Zenon
      <4> QED BY <4>1 DEF IsLonger, IsSeq
    <3> QED BY <1>1, <3>1, <3>2, CallsGrow
  <2>4. PICK off : LaidOut(off) /\ \A n : WholeUpTo(n) => Progress(off, n)
    BY DEF ReadingInv
  <2>5. LaidOut(off)'
    BY <2>1, <2>4, Zenon DEF LaidOut
  <2>6. ASSUME NEW n, WholeUpTo(n)' PROVE Progress(off, n)'
    <3>1. WholeUpTo(n)
      BY <2>1, <2>6, Zenon DEF WholeUpTo
    <3>2. Progress(off, n)
      BY <2>4, <3>1
    <3> QED BY <1>1, <2>2, <2>4, <3>1, <3>2, StepProgress
  <2> QED BY <2>1, <2>2, <2>3, <2>5, <2>6 DEF ReadingInv
<1>2. CASE UNCHANGED jsonVars
  <2>1. /\ textFile' = textFile /\ data' = data /\ pos' = pos /\ pc' = pc /\ event' = event
        /\ calls' = calls
    BY <1>2 DEF jsonVars
  <2>2. (\A off : LaidOut(off)' <=> LaidOut(off)) /\ IsSeq(calls)' /\ textFile' \in Seq(LinesLeft)
    BY <2>1, Zenon DEF LaidOut, IsSeq, ReadingInv
  <2>3. \A n : WholeUpTo(n)' <=> WholeUpTo(n)
    BY <2>1, Zenon DEF WholeUpTo
  <2>4. ASSUME NEW o, NEW l PROVE AtLine(o, l)' <=> AtLine(o, l)
    <3>1. \A p, loop, S : Place(o, l, p, loop, S)' <=> Place(o, l, p, loop, S)
      BY <2>1, Zenon DEF Place
    <3>2. InLine(o, l)' <=> InLine(o, l)
      BY <3>1 DEF InLine
    <3> QED BY <2>1, <3>2, Zenon DEF AtLine
  <2>5. AtEnd' <=> AtEnd
    BY <2>1, Zenon DEF AtEnd, End
  <2>6. PICK off : LaidOut(off) /\ \A n : WholeUpTo(n) => Progress(off, n)
    BY DEF ReadingInv
  <2>7. ASSUME NEW n, WholeUpTo(n)' PROVE Progress(off, n)'
    <3>1. Progress(off, n)
      BY <2>3, <2>6, <2>7
    <3> QED BY <2>1, <2>4, <2>5, <3>1, Zenon DEF Progress
  <2> QED BY <2>2, <2>6, <2>7 DEF ReadingInv
<1> QED BY <1>1, <1>2

\* It says what the calls are.
LEMMA ReadingImplies == ReadingInv => ReadsUpToDamage
<1> SUFFICES ASSUME ReadingInv, NEW n \in 0 .. Len(textFile), \A i \in 1 .. n : Intact(textFile[i])
             PROVE  /\ \A i \in 1 .. n : i \in DOMAIN calls => calls[i] = Meaning(textFile[i].line)
                    /\ pc = "done" => n <= Len(calls)
                    /\ n = Len(textFile) => Len(calls) <= n
  BY DEF ReadsUpToDamage
<1>1. PICK off : LaidOut(off) /\ \A m : WholeUpTo(m) => Progress(off, m)
  BY DEF ReadingInv
<1>2. Progress(off, n)
  BY <1>1 DEF WholeUpTo
<1>3. n \in Nat /\ Len(calls) \in Nat
  BY DEF ReadingInv, IsSeq
<1>4. \A o, l : AtLine(o, l) => pc # "done"
  BY DEF AtLine, InLine, Place
<1> QED BY <1>2, <1>3, <1>4 DEF Progress

\* JsonNativeDataParser.cpp, parse_inner, ndp_parseLine and ndp_parseHd: for all files, the
\* lines before the first damaged one are read for what they say, one event each and in
\* their order, and a file without a damaged line has no other events.
THEOREM ReadsWholeLines == JsonSpec => []ReadsUpToDamage
BY InitReading, StepReading, ReadingImplies, PTL DEF JsonSpec

\* The events of the one parser are those of the other, up to the first damaged line.
SameEvents ==
  pc = "done" =>
    \A n \in 0 .. Len(textFile) :
      (\A i \in 1 .. n : Intact(textFile[i])) =>
        \A i \in 1 .. n : i \in DOMAIN calls /\ parseLine(Left(textFile[i])) = <<calls[i]>>

\* JsonSimpleDataParser.cpp and JsonNativeDataParser.cpp, of which DataParser makes one the
\* stand-in of the other: for all files, both read the same events from the lines before the
\* first damaged one, though the one takes a line at a time and looks its fields up by
\* name and the other runs through the file and counts the days by another formula.
THEOREM ParsersAgree == JsonSpec => []SameEvents
<1>1. ReadingInv /\ SimpleKeepsLinesApart => SameEvents
  <2> SUFFICES ASSUME ReadingInv, SimpleKeepsLinesApart, pc = "done", NEW n \in 0 .. Len(textFile),
                      \A i \in 1 .. n : Intact(textFile[i]), NEW i \in 1 .. n
               PROVE  i \in DOMAIN calls /\ parseLine(Left(textFile[i])) = <<calls[i]>>
    BY DEF SameEvents
  <2>1. ReadsUpToDamage
    BY ReadingImplies
  <2>2. n <= Len(calls) /\ (i \in DOMAIN calls => calls[i] = Meaning(textFile[i].line))
    BY <2>1 DEF ReadsUpToDamage
  <2>3. DOMAIN calls = 1 .. Len(calls) /\ Len(calls) \in Nat /\ DOMAIN textFile = 1 .. Len(textFile)
        /\ Len(textFile) \in Nat
    BY DEF ReadingInv, IsSeq
  <2>4. i \in DOMAIN calls /\ i \in DOMAIN textFile
    BY <2>2, <2>3
  <2>5. parseLine(Left(textFile[i])) = <<Meaning(textFile[i].line)>>
    BY <2>4, Zenon DEF SimpleKeepsLinesApart
  <2>6. calls[i] = Meaning(textFile[i].line)
    BY <2>2, <2>4
  <2> QED BY <2>4, <2>5, <2>6, Zenon
<1> QED BY <1>1, InitReading, StepReading, LinesAreKeptApart, PTL DEF JsonSpec
=============================================================================
