-------------------------- MODULE HierarchyMerger --------------------------
(***************************************************************************)
(* The merge of src/ingestion/HierarchyMerger.hpp: a binary tree of        *)
(* threads, each merging two queues into one (merge_two).  The queues of   *)
(* stage 0 are the files'; stage s + 1 has one queue for every two of      *)
(* stage s, an odd one at the end is carried over; the only queue of the   *)
(* last stage is output_.  A queue is a channel (Channel): what passes     *)
(* through it is kept as a history and the position of its reader.         *)
(***************************************************************************)
EXTENDS Naturals, FiniteSets, SequencesExt

CONSTANTS N,       \* file_queues_.size()
          Streams  \* the sequences of receive times a file may hold

ASSUME FileAssumption == N \in Nat \ {0} /\ Streams \subseteq Seq(Nat)

\* cur.size() at each stage; N stages are more than enough.
Width[s \in 0 .. N] == IF s = 0 THEN N ELSE (Width[s - 1] + 1) \div 2

\* The stage of output_.  A single file has a stage of its own, with drain in
\* the place of merge_two.
Top == IF N = 1 THEN 1 ELSE CHOOSE s \in 1 .. N : Width[s] = 1 /\ Width[s - 1] > 1

\* The i-th queue of stage s; one carried over keeps its name.
QueueAt[s \in 0 .. N] ==
  [i \in 1 .. Width[s] |->
     IF s > 0 /\ 2 * i - 1 = Width[s - 1] /\ N > 1
     THEN QueueAt[s - 1][2 * i - 1] ELSE <<s, i>>]

Queues  == UNION {Range(QueueAt[s]) : s \in 0 .. Top}
Files   == 1 .. N
InputOf(i) == <<0, i>>
Output  == <<Top, 1>>
Workers == {q \in Queues : q[1] > 0}  \* a worker is named after its out_q
Left(w)  == QueueAt[w[1] - 1][2 * w[2] - 1]
HasRight(w) == 2 * w[2] <= Width[w[1] - 1]
Right(w) == QueueAt[w[1] - 1][2 * w[2]]

VARIABLES
  file,      \* ts_recv of the events of each file
  pushed,    \* auxiliary: everything pushed to each queue, in order
  popped,    \* events popped from each queue by its worker; none from output_
  closed,    \* which queues are closed
  wpc,       \* each worker: "first", "second", "merge", "left", "right", "done"
  ea, eb,    \* each worker's locals: a sequence of one event, or of none
  returned   \* run() has returned

vars == <<file, pushed, popped, closed, wpc, ea, eb, returned>>

out == pushed[Output]
Ts(e) == file[e[1]][e[2]]

Init ==
  /\ file \in [Files -> Streams]
  /\ pushed = [q \in Queues |-> <<>>] /\ popped = [q \in Queues |-> 0]
  /\ closed = [q \in Queues |-> FALSE]
  /\ wpc = [w \in Workers |-> "first"]
  /\ ea = [w \in Workers |-> <<>>] /\ eb = [w \in Workers |-> <<>>]
  /\ returned = FALSE
-----------------------------------------------------------------------------
(* The workers: merge_two and the lambdas of run_impl *)

\* Faulty variant: pop does not notice the end.
PopOne_noEnd(q) ==
  /\ popped[q] < Len(pushed[q])
  /\ popped' = [popped EXCEPT ![q] = @ + 1]

\* pop_one blocks for an event, or for the end of the queue; Popped is what it
\* leaves in the local: the event or nothing.
Popped(q) ==
  IF popped[q] < Len(pushed[q]) THEN <<pushed[q][popped[q] + 1]>> ELSE <<>>
PopOne(q) ==
  \/ popped[q] < Len(pushed[q]) /\ popped' = [popped EXCEPT ![q] = @ + 1]
  \/ popped[q] = Len(pushed[q]) /\ closed[q] /\ UNCHANGED popped

\* The first pop of a, or the one after an event of a was pushed.
PopLeft(w) ==
  /\ wpc[w] \in {"first", "left"}
  /\ PopOne(Left(w)) /\ ea' = [ea EXCEPT ![w] = Popped(Left(w))]
  /\ wpc' = [wpc EXCEPT ![w] =
               IF @ = "first" /\ HasRight(w) THEN "second" ELSE "merge"]
  /\ UNCHANGED <<file, pushed, closed, eb, returned>>

\* The first pop of b, or the one after an event of b was pushed.
PopRight(w) ==
  /\ wpc[w] \in {"second", "right"}
  /\ PopOne(Right(w)) /\ eb' = [eb EXCEPT ![w] = Popped(Right(w))]
  /\ wpc' = [wpc EXCEPT ![w] = "merge"]
  /\ UNCHANGED <<file, pushed, closed, ea, returned>>

\* Faulty variant: the right queue goes first when the times are equal.
LeftFirst_strict(w) == /\ ea[w] # <<>>
                       /\ eb[w] # <<>> => Ts(ea[w][1]) < Ts(eb[w][1])

\* Is the event of a the one to push?  It is when the times are equal.
LeftFirst(w) == /\ ea[w] # <<>>
                /\ eb[w] # <<>> => Ts(ea[w][1]) <= Ts(eb[w][1])

\* out.push(*ea); ea.reset()
PushLeft(w) ==
  /\ wpc[w] = "merge" /\ LeftFirst(w)
  /\ pushed' = [pushed EXCEPT ![w] = @ \o ea[w]]
  /\ ea' = [ea EXCEPT ![w] = <<>>]
  /\ wpc' = [wpc EXCEPT ![w] = "left"]
  /\ UNCHANGED <<file, popped, closed, eb, returned>>

\* out.push(*eb); eb.reset()
PushRight(w) ==
  /\ wpc[w] = "merge" /\ ~LeftFirst(w) /\ eb[w] # <<>>
  /\ pushed' = [pushed EXCEPT ![w] = @ \o eb[w]]
  /\ eb' = [eb EXCEPT ![w] = <<>>]
  /\ wpc' = [wpc EXCEPT ![w] = "right"]
  /\ UNCHANGED <<file, popped, closed, ea, returned>>

\* Faulty variant: one of the queues has ended.
CloseOut_early(w) ==
  /\ wpc[w] = "merge" /\ ea[w] = <<>>
  /\ closed' = [closed EXCEPT ![w] = TRUE]
  /\ wpc' = [wpc EXCEPT ![w] = "done"]
  /\ UNCHANGED <<file, pushed, popped, ea, eb, returned>>

\* Both queues have ended: out_q->close().
CloseOut(w) ==
  /\ wpc[w] = "merge" /\ ea[w] = <<>> /\ eb[w] = <<>>
  /\ closed' = [closed EXCEPT ![w] = TRUE]
  /\ wpc' = [wpc EXCEPT ![w] = "done"]
  /\ UNCHANGED <<file, pushed, popped, ea, eb, returned>>

Worker(w) == PopLeft(w) \/ PopRight(w) \/ PushLeft(w) \/ PushRight(w) \/ CloseOut(w)

\* run_impl joins the workers.
Join == /\ ~returned /\ \A w \in Workers : wpc[w] = "done"
        /\ returned' = TRUE
        /\ UNCHANGED <<file, pushed, popped, closed, wpc, ea, eb>>
-----------------------------------------------------------------------------
(* The threads that feed the file queues, and close them at the end *)

Feed(i) ==
  LET q == InputOf(i)
  IN  /\ Len(pushed[q]) < Len(file[i])
      /\ pushed' = [pushed EXCEPT ![q] = Append(@, <<i, Len(@) + 1>>)]
      /\ UNCHANGED <<file, popped, closed, wpc, ea, eb, returned>>

CloseFile(i) ==
  LET q == InputOf(i)
  IN  /\ Len(pushed[q]) = Len(file[i]) /\ ~closed[q]
      /\ closed' = [closed EXCEPT ![q] = TRUE]
      /\ UNCHANGED <<file, pushed, popped, wpc, ea, eb, returned>>

Terminated == returned /\ UNCHANGED vars

Next == \/ \E w \in Workers : Worker(w)
        \/ Join
        \/ \E i \in Files : Feed(i) \/ CloseFile(i)
        \/ Terminated

Spec == Init /\ [][Next]_vars

\* Every thread runs whenever it can; every feeder reaches the end of its file.
FairSpec == /\ Spec /\ WF_vars(Join)
            /\ \A w \in Workers : WF_vars(Worker(w))
            /\ \A i \in Files : WF_vars(Feed(i) \/ CloseFile(i))
-----------------------------------------------------------------------------
(* Properties *)

\* The tree implements KWayMerge, whatever the files hold, sorted or not, and
\* however the threads of the tree interleave: nothing is lost on its way
\* through the stages, repeated, or emitted before an earlier event that is
\* still to come, and output_ closes after the last event.
Abstract == INSTANCE KWayMerge WITH
              streams <- file,
              emitted <- [i \in Files |->
                            Cardinality({k \in DOMAIN out : out[k][1] = i})],
              ended <- closed[Output]
ImplementsKWayMerge == Abstract!Spec

\* Sorted files have exactly one possible output, whatever the timing: events
\* of the same time come out file by file ("ea->ts_recv > eb->ts_recv" keeps
\* the left one first at every stage), and in file order within a file.
Before(d, e) == \/ Ts(d) < Ts(e)
                \/ Ts(d) = Ts(e) /\ d[1] < e[1]
                \/ Ts(d) = Ts(e) /\ d[1] = e[1] /\ d[2] < e[2]
StableOutput ==
  (\A i \in Files : Abstract!Ascending(file[i])) =>
    \A j, k \in DOMAIN out : j < k => Before(out[j], out[k])

\* run() returns, after every file's last event, however slowly and in
\* whatever order the files are fed.
MergeEnds == <>returned
=============================================================================
