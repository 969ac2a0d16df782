------------------------------ MODULE Channel ------------------------------
(***************************************************************************)
(* What every queue of src/common promises its callers: a FIFO channel     *)
(* with one end-of-stream.  push and push_batch append, pop takes from the *)
(* front, close stops further pushes, and pop reports the end (returns     *)
(* false) only when the channel is closed and empty.  BlockingQueue and    *)
(* LockFreeQueue are shown to implement it, under a refinement mapping     *)
(* given in each of them.                                                  *)
(***************************************************************************)
EXTENDS Sequences, Naturals

VARIABLES queue,   \* the items pushed and not yet taken, oldest first
          closed,  \* close() has been called
          ended    \* some pop has returned false

vars == <<queue, closed, ended>>

Init == queue = <<>> /\ closed = FALSE /\ ended = FALSE

\* push(value), or push_batch(items, count) with count > 0: the whole batch
\* becomes available in one step.
Send == /\ ~closed
        /\ Len(queue') > Len(queue)
        /\ SubSeq(queue', 1, Len(queue)) = queue
        /\ UNCHANGED <<closed, ended>>

\* pop that returns true.
Take == /\ queue # <<>>
        /\ queue' = Tail(queue)
        /\ UNCHANGED <<closed, ended>>

\* close(); a second call changes nothing.
Close == closed' = TRUE /\ UNCHANGED <<queue, ended>>

\* pop that returns false.
End == closed /\ queue = <<>> /\ ended' = TRUE /\ UNCHANGED <<queue, closed>>

Next == Send \/ Take \/ Close \/ End

Spec == Init /\ [][Next]_vars
=============================================================================
