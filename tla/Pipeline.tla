------------------------------ MODULE Pipeline ------------------------------
(***************************************************************************)
(* The back-tester's threads, as main.cpp wires them: a parser per file    *)
(* with its BatchPusher, the FlatMerger, the dispatcher that applies the   *)
(* merged events to the order books, the thread that prints snapshots, and *)
(* main, which joins them all.  The queues between them are channels, kept *)
(* as a history and positions, as in FlatMerger.                           *)
(***************************************************************************)
EXTENDS FlatMerger

CONSTANTS BatchSize,   \* BatchPusher's BatchSize, 256 in main
          ReportEvery  \* REPORT_AFTER_EACH_N_EVENTS

ASSUME PipelineAssumption == /\ BatchSize \in Nat \ {0}
                             /\ ReportEvery \in Nat \ {0}

VARIABLES
  ppc,         \* parser thread: "parse", "closed", "done"
  parsed,      \* events its parser has handed to push_fn
  count,       \* BatchPusher::count, the events batched and not pushed
  dpc,         \* dispatcher: "run", "done"
  dispatched,  \* events popped from merged_queue and applied
  counter,     \* counter_
  snapshots,   \* messages pushed to print_queue
  printClosed, \* print_queue is closed
  printed,     \* messages popped by the io thread
  iopc,        \* io thread: "run", "done"
  mainpc       \* "join", "exit", or "terminated": an exception left a thread

sinkVars == <<dpc, dispatched, counter, snapshots, printClosed>>
ioVars   == <<printed, iopc>>
parserVars == <<ppc, parsed, count>>
allVars == <<vars, parserVars, sinkVars, ioVars, mainpc>>

PipelineInit ==
  /\ Init
  /\ ppc = [i \in Files |-> "parse"]
  /\ parsed = [i \in Files |-> 0] /\ count = [i \in Files |-> 0]
  /\ dpc = "run" /\ dispatched = 0 /\ counter = 0
  /\ snapshots = 0 /\ printClosed = FALSE
  /\ printed = 0 /\ iopc = "run" /\ mainpc = "join"
-----------------------------------------------------------------------------
(* A parser thread *)

\* Faulty variant: the batch is pushed and kept.
Flush_keeps(i, n) ==
  IF n > 0 /\ ~fedClosed[i]
  THEN fed' = [fed EXCEPT ![i] = @ + n] /\ count' = [count EXCEPT ![i] = n]
  ELSE UNCHANGED fed /\ count' = [count EXCEPT ![i] = n]

\* BatchPusher::flush with n events batched: nothing when there is none or
\* when the queue is closed.
Flush(i, n) ==
  IF n > 0 /\ ~fedClosed[i]
  THEN fed' = [fed EXCEPT ![i] = @ + n] /\ count' = [count EXCEPT ![i] = 0]
  ELSE UNCHANGED fed /\ count' = [count EXCEPT ![i] = n]

\* The parser calls push_fn with the next event; a full batch is flushed.
Parse(i) ==
  /\ ppc[i] = "parse" /\ parsed[i] < Len(file[i])
  /\ parsed' = [parsed EXCEPT ![i] = @ + 1]
  /\ IF count[i] + 1 >= BatchSize
     THEN Flush(i, count[i] + 1)
     ELSE count' = [count EXCEPT ![i] = @ + 1] /\ UNCHANGED fed
  /\ UNCHANGED <<file, fedClosed, mergeVars, ppc, sinkVars, ioVars, mainpc>>

\* Faulty variant: the queue is closed before the parser has finished.
CloseFileQueue_early(i) ==
  /\ ppc[i] = "parse"
  /\ fedClosed' = [fedClosed EXCEPT ![i] = TRUE]
  /\ ppc' = [ppc EXCEPT ![i] = "closed"]
  /\ UNCHANGED <<file, fed, mergeVars, parsed, count, sinkVars, ioVars, mainpc>>

\* pipeline.ingest() has returned: file_queues[i].close().
CloseFileQueue(i) ==
  /\ ppc[i] = "parse" /\ parsed[i] = Len(file[i])
  /\ fedClosed' = [fedClosed EXCEPT ![i] = TRUE]
  /\ ppc' = [ppc EXCEPT ![i] = "closed"]
  /\ UNCHANGED <<file, fed, mergeVars, parsed, count, sinkVars, ioVars, mainpc>>

\* The lambda ends: ~BatchPusher() flushes.
DestroyBatcher(i) ==
  /\ ppc[i] = "closed"
  /\ Flush(i, count[i])
  /\ ppc' = [ppc EXCEPT ![i] = "done"]
  /\ UNCHANGED <<file, fedClosed, mergeVars, parsed, sinkVars, ioVars, mainpc>>

\* The file cannot be opened or read: the parser throws before its first
\* event.  Nothing catches it in the thread, so std::terminate is called.
ParserThrows(i) ==
  /\ ppc[i] = "parse" /\ parsed[i] = 0
  /\ mainpc' = "terminated"
  /\ UNCHANGED <<vars, parserVars, sinkVars, ioVars>>
-----------------------------------------------------------------------------
(* The other threads *)

Merge == Merger /\ UNCHANGED <<parserVars, sinkVars, ioVars, mainpc>>

\* ProcessMarketDataEvent: apply the event, count it if it has a receive
\* time, and report every ReportEvery of those counted.
Dispatch ==
  /\ dpc = "run" /\ dispatched < Len(out)
  /\ dispatched' = dispatched + 1
  /\ LET counts == Ts(out[dispatched + 1]) > 0
     IN  /\ counter' = IF counts THEN counter + 1 ELSE counter
         /\ snapshots' = IF counts /\ counter' % ReportEvery = 0
                         THEN snapshots + 1 ELSE snapshots
  /\ UNCHANGED <<vars, parserVars, dpc, printClosed, ioVars, mainpc>>

\* Faulty variants: the dispatcher stops when merged_queue is closed, drained
\* or not; it does not close print_queue.
DispatchEnd_early ==
  /\ dpc = "run" /\ outClosed
  /\ dpc' = "done" /\ printClosed' = TRUE
  /\ UNCHANGED <<vars, parserVars, dispatched, counter, snapshots, ioVars, mainpc>>
DispatchEnd_silent ==
  /\ dpc = "run" /\ outClosed /\ dispatched = Len(out)
  /\ dpc' = "done"
  /\ UNCHANGED <<vars, parserVars, dispatched, counter, snapshots, printClosed,
                 ioVars, mainpc>>

\* merged_queue has ended: summary, books and anomalies; print_queue.close().
DispatchEnd ==
  /\ dpc = "run" /\ outClosed /\ dispatched = Len(out)
  /\ dpc' = "done" /\ printClosed' = TRUE
  /\ UNCHANGED <<vars, parserVars, dispatched, counter, snapshots, ioVars, mainpc>>

PrintMessage ==
  /\ iopc = "run" /\ printed < snapshots
  /\ printed' = printed + 1
  /\ UNCHANGED <<vars, parserVars, sinkVars, iopc, mainpc>>

PrintEnd ==
  /\ iopc = "run" /\ printClosed /\ printed = snapshots
  /\ iopc' = "done"
  /\ UNCHANGED <<vars, parserVars, sinkVars, printed, mainpc>>

\* main joins the parsers, the merger, the dispatcher and the io thread, in
\* this order; only the last join to return matters.
JoinAll ==
  /\ mainpc = "join"
  /\ \A i \in Files : ppc[i] = "done"
  /\ mpc = "done" /\ dpc = "done" /\ iopc = "done"
  /\ mainpc' = "exit"
  /\ UNCHANGED <<vars, parserVars, sinkVars, ioVars>>

ParserThread(i) == Parse(i) \/ CloseFileQueue(i) \/ DestroyBatcher(i)
Dispatcher == Dispatch \/ DispatchEnd
Io == PrintMessage \/ PrintEnd

PipelineNext ==
  \/ /\ mainpc = "join"  \* the process is alive
     /\ \/ \E i \in Files : ParserThread(i) \/ ParserThrows(i)
        \/ Merge \/ Dispatcher \/ Io \/ JoinAll
  \/ mainpc # "join" /\ UNCHANGED allVars

PipelineSpec == PipelineInit /\ [][PipelineNext]_allVars

\* Every thread runs whenever it can, as long as the process is alive.
Running(A) == mainpc = "join" /\ A
PipelineFairSpec ==
  /\ PipelineSpec
  /\ \A i \in Files : WF_allVars(Running(ParserThread(i)))
  /\ WF_allVars(Running(Merge)) /\ WF_allVars(Running(Dispatcher))
  /\ WF_allVars(Running(Io)) /\ WF_allVars(Running(JoinAll))
-----------------------------------------------------------------------------
(* Properties *)

\* Every variable keeps its type; BatchPusher::count stays below BatchSize, the
\* size of its array, and no reader of a queue is ahead of its writer.
PipelineTypeOK ==
  /\ TypeOK
  /\ ppc \in [Files -> {"parse", "closed", "done"}]
  /\ parsed \in [Files -> Nat] /\ count \in [Files -> 0 .. BatchSize - 1]
  /\ dpc \in {"run", "done"} /\ iopc \in {"run", "done"}
  /\ dispatched \in 0 .. Len(out) /\ counter \in 0 .. dispatched
  /\ snapshots \in Nat /\ printed \in 0 .. snapshots
  /\ printClosed \in BOOLEAN
  /\ mainpc \in {"join", "exit", "terminated"}

\* What reaches the order books is a merge of the whole batches of each file,
\* in the order KWayMerge promises: the interplay of batches, queues and
\* merger neither loses, repeats nor reorders an event of a full batch.
WholeBatches(i) == (Len(file[i]) \div BatchSize) * BatchSize
Batched == INSTANCE KWayMerge WITH
             Streams <- Seq(Nat),
             streams <- [i \in Files |-> SubSeq(file[i], 1, WholeBatches(i))],
             emitted <- [i \in Files |-> Emitted(i)],
             ended <- outClosed
MergesWholeBatches == Batched!Spec

\* When main returns, everything merged was applied to the books, the count
\* printed is the number of events with a receive time, and every snapshot
\* the dispatcher produced was printed: the queues are closed in the order
\* that lets the threads after them drain.
ExitMeansDrained ==
  mainpc = "exit" =>
    /\ dispatched = Len(out)
    /\ \A i \in Files : WholeBatches(i) = Cardinality({k \in DOMAIN out : out[k][1] = i})
    /\ counter = Cardinality({k \in DOMAIN out : Ts(out[k]) > 0})
    /\ printed = counter \div ReportEvery

\* main returns, unless a parser's exception ends the process.
MainReturns == <>(mainpc # "join")

\* What ~BatchPusher() { flush(); } is there for: when main returns, every
\* event a parser produced has been applied, the last partial batch included.
NothingLeftInBatch ==
  mainpc = "exit" =>
    \A i \in Files : parsed[i] = Cardinality({k \in 1 .. dispatched : out[k][1] = i})
=============================================================================
