----------------------------- MODULE FlatMerger -----------------------------
(***************************************************************************)
(* The k-way merge of src/ingestion/FlatMerger.hpp: a heap with the next   *)
(* event of every input queue, which the merger fills by a blocking pop.   *)
(* A queue is a channel (Channel, implemented by BlockingQueue and         *)
(* LockFreeQueue).  What passes through it is kept as a history and two    *)
(* positions, so its content is the events popped + 1 .. fed of the file.  *)
(***************************************************************************)
EXTENDS Naturals, Sequences, FiniteSets

CONSTANTS N,       \* file_queues_.size()
          Streams  \* the sequences of receive times a file may hold

ASSUME FileAssumption == N \in Nat /\ Streams \subseteq Seq(Nat)

VARIABLES
  file,       \* ts_recv of the events of each file
  fed,        \* events pushed to each file queue so far
  fedClosed,  \* the file queue is closed
  popped,     \* events the merger has popped from each file queue
  heap,       \* heap: <<i, k>> is {ts_recv, file_idx} of buf[i], its k-th event
  mpc,        \* "prime", "merge", "refill", "done"
  cursor,     \* prime: loop index i; refill: top.file_idx
  out,        \* auxiliary: everything pushed to output_, in order
  outClosed   \* output_ is closed

inVars  == <<fed, fedClosed>>
mergeVars == <<popped, heap, mpc, cursor, out, outClosed>>
vars == <<file, inVars, mergeVars>>

Files == 1 .. N
Ts(e) == file[e[1]][e[2]]

\* mpc after the prime loop's index has moved to i.
PrimeAt(i) == IF i > N THEN "merge" ELSE "prime"

Init ==
  /\ file \in [Files -> Streams]
  /\ fed = [i \in Files |-> 0] /\ fedClosed = [i \in Files |-> FALSE]
  /\ popped = [i \in Files |-> 0] /\ heap = {}
  /\ mpc = PrimeAt(1) /\ cursor = 1
  /\ out = <<>> /\ outClosed = FALSE
-----------------------------------------------------------------------------
(* The merger: run_impl, merge_impl *)

\* Faulty variants: an empty queue counts as ended; the end of a queue is not
\* noticed.
PopInto_nonBlocking(i) ==
  \/ /\ popped[i] < fed[i]
     /\ popped' = [popped EXCEPT ![i] = @ + 1]
     /\ heap' = heap \union {<<i, popped[i] + 1>>}
  \/ /\ popped[i] = fed[i]
     /\ UNCHANGED <<popped, heap>>
PopInto_noEnd(i) ==
  /\ popped[i] < fed[i]
  /\ popped' = [popped EXCEPT ![i] = @ + 1]
  /\ heap' = heap \union {<<i, popped[i] + 1>>}

\* file_queues_[i].pop: blocks until there is an event, which goes to buf[i]
\* and the heap, or the end of the queue, which is ignored.
PopInto(i) ==
  \/ /\ popped[i] < fed[i]
     /\ popped' = [popped EXCEPT ![i] = @ + 1]
     /\ heap' = heap \union {<<i, popped[i] + 1>>}
  \/ /\ popped[i] = fed[i] /\ fedClosed[i]
     /\ UNCHANGED <<popped, heap>>

\* The first loop takes the first event of every file, in order.
Prime ==
  /\ mpc = "prime"
  /\ PopInto(cursor)
  /\ mpc' = PrimeAt(cursor + 1) /\ cursor' = cursor + 1
  /\ UNCHANGED <<file, inVars, out, outClosed>>

\* heap.top(): an entry with the least ts_recv.  Which of several equal ones
\* comes out is left to the heap's layout.
Least(h) == {e \in h : \A f \in h : Ts(e) <= Ts(f)}

\* heap.pop(); emit(buf[top.file_idx])
Emit ==
  /\ mpc = "merge"
  /\ \E top \in Least(heap) :
       /\ heap' = heap \ {top}
       /\ out' = Append(out, top)
       /\ cursor' = top[1]
  /\ mpc' = "refill"
  /\ UNCHANGED <<file, inVars, popped, outClosed>>

\* Faulty variant: the event popped does not enter the heap.
Refill_drops ==
  /\ mpc = "refill"
  /\ \/ popped[cursor] < fed[cursor] /\ popped' = [popped EXCEPT ![cursor] = @ + 1]
     \/ popped[cursor] = fed[cursor] /\ fedClosed[cursor] /\ UNCHANGED popped
  /\ mpc' = "merge"
  /\ UNCHANGED <<file, inVars, heap, cursor, out, outClosed>>

\* The next event of the file just emitted.
Refill ==
  /\ mpc = "refill"
  /\ PopInto(cursor)
  /\ mpc' = "merge"
  /\ UNCHANGED <<file, inVars, cursor, out, outClosed>>

\* output_.close()
CloseOutput ==
  /\ mpc = "merge" /\ heap = {}
  /\ outClosed' = TRUE /\ mpc' = "done"
  /\ UNCHANGED <<file, inVars, popped, heap, cursor, out>>

Merger == Prime \/ Emit \/ Refill \/ CloseOutput
-----------------------------------------------------------------------------
(* The threads that feed the file queues: each pushes the events of its    *)
(* file, singly or in batches, then closes the queue.                      *)

Feed(i) ==
  /\ ~fedClosed[i]
  /\ \E k \in fed[i] + 1 .. Len(file[i]) : fed' = [fed EXCEPT ![i] = k]
  /\ UNCHANGED <<file, fedClosed, mergeVars>>

CloseFile(i) ==
  /\ ~fedClosed[i] /\ fed[i] = Len(file[i])
  /\ fedClosed' = [fedClosed EXCEPT ![i] = TRUE]
  /\ UNCHANGED <<file, fed, mergeVars>>

Terminated == outClosed /\ UNCHANGED vars

Next == Merger \/ (\E i \in Files : Feed(i) \/ CloseFile(i)) \/ Terminated

Spec == Init /\ [][Next]_vars

\* The merger thread runs whenever it can; every feeder reaches the end of its
\* file.
FairSpec == /\ Spec /\ WF_vars(Merger)
            /\ \A i \in Files : WF_vars(Feed(i) \/ CloseFile(i))
-----------------------------------------------------------------------------
(* Properties *)

\* Every variable keeps its type, and the positions in a file their order: the
\* merger never has an event that was not pushed.
TypeOK ==
  /\ file \in [Files -> Streams]
  /\ fed \in [Files -> Nat] /\ fedClosed \in [Files -> BOOLEAN]
  /\ popped \in [Files -> Nat]
  /\ \A i \in Files : popped[i] <= fed[i] /\ fed[i] <= Len(file[i])
  /\ heap \subseteq Files \X Nat
  /\ mpc \in {"prime", "merge", "refill", "done"}
  /\ cursor \in 1 .. N + 1
  /\ out \in Seq(Files \X Nat) /\ outClosed \in BOOLEAN

\* Whenever an event may be emitted, the heap holds the next event of every
\* file that is not exhausted, and no file has two entries: the blocking pops
\* of both loops are what the order of the output rests on.
HeapHasEveryFile ==
  mpc = "merge" =>
    \A i \in Files :
      LET mine == {e \in heap : e[1] = i}
      IN  \/ mine = {<<i, popped[i]>>}
          \/ mine = {} /\ fedClosed[i] /\ popped[i] = fed[i]

\* The merger implements KWayMerge, whatever the files hold, sorted or not:
\* nothing is lost, repeated or emitted before an earlier event that is still
\* to come.
Emitted(i) == popped[i] - Cardinality({e \in heap : e[1] = i})
Abstract == INSTANCE KWayMerge WITH
              streams <- file,
              emitted <- [i \in Files |-> Emitted(i)],
              ended <- outClosed
ImplementsKWayMerge == Abstract!Spec

\* From sorted files comes a sorted output.
SortedOutput == Abstract!SortedOutput

\* The merge ends, after every file's last event, however slowly and in
\* whatever order the files are fed.
MergeEnds == <>outClosed
=============================================================================
