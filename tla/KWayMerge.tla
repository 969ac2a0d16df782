----------------------------- MODULE KWayMerge -----------------------------
(***************************************************************************)
(* What the mergers of src/ingestion promise: they interleave N streams of *)
(* events, keeping the order of each, and always emit an event that is     *)
(* least, by its receive time, among the next events of all the streams.   *)
(* The k-th event of stream i is the pair <<i, k>>; streams[i][k] is its   *)
(* ts_recv.                                                                *)
(***************************************************************************)
EXTENDS Naturals, Sequences

CONSTANTS N,       \* number of streams
          Streams  \* the streams there may be: sequences of receive times

VARIABLES streams,  \* the streams, fixed
          emitted,  \* how many events of each stream are in out
          out,      \* the events emitted, in order
          ended     \* the output is closed

vars == <<streams, emitted, out, ended>>

Init == /\ streams \in [1 .. N -> Streams]
        /\ emitted = [i \in 1 .. N |-> 0]
        /\ out = <<>> /\ ended = FALSE

HasNext(i) == emitted[i] < Len(streams[i])
Next_ts(i) == streams[i][emitted[i] + 1]

\* One of the least next events is emitted.
Emit(i) ==
  /\ HasNext(i)
  /\ \A j \in 1 .. N : HasNext(j) => Next_ts(i) <= Next_ts(j)
  /\ out' = Append(out, <<i, emitted[i] + 1>>)
  /\ emitted' = [emitted EXCEPT ![i] = @ + 1]
  /\ UNCHANGED <<streams, ended>>

End == /\ \A i \in 1 .. N : ~HasNext(i)
       /\ ended' = TRUE
       /\ UNCHANGED <<streams, emitted, out>>

Next == (\E i \in 1 .. N : Emit(i)) \/ End

Spec == Init /\ [][Next]_vars
-----------------------------------------------------------------------------
(* Consequences *)

Ts(e) == streams[e[1]][e[2]]
Ascending(s) == \A j, k \in DOMAIN s : j < k => s[j] <= s[k]

\* Merging sorted streams gives a sorted output (the tests of MergerTest.cpp
\* expect it of both mergers).
SortedOutput ==
  (\A i \in 1 .. N : Ascending(streams[i])) =>
    \A j, k \in DOMAIN out : j < k => Ts(out[j]) <= Ts(out[k])
=============================================================================
