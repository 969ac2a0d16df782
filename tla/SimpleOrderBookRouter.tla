----------------------- MODULE SimpleOrderBookRouter -----------------------
(***************************************************************************)
(* SimpleOrderBookRouter.hpp: one book per instrument, and the instrument  *)
(* each order was last seen with.  A router is a record                    *)
(*    instrumentOf  order id -> instrument, 0 if none (order_to_instrument_)*)
(*    books         instrument -> the events applied to its book           *)
(* A book's state is a function of the events applied to it, so the        *)
(* history stands for the book.                                            *)
(***************************************************************************)
EXTENDS Naturals, Sequences

CONSTANTS OrderIds,     \* order_id of the events; 0 stands for none
          Instruments   \* instrument_id of the events; 0 stands for none

ASSUME IdAssumption == /\ OrderIds \subseteq Nat /\ 0 \in OrderIds
                       /\ Instruments \subseteq Nat /\ 0 \in Instruments

NewRouter == [instrumentOf |-> [o \in OrderIds |-> 0],
              books |-> [i \in Instruments |-> <<>>]]

\* The instrument of the event's order is remembered.
Learn(m, e) ==
  IF e.instr # 0 /\ e.order # 0 THEN [m EXCEPT ![e.order] = e.instr] ELSE m

\* The event goes to the book of its order's instrument.  An order of which no
\* instrument is known is dropped; an event without an order goes to book 0,
\* whatever instrument it names.
ApplyTo(r, e) ==
  LET m == Learn(r.instrumentOf, e)
      i == m[e.order]
  IN  [instrumentOf |-> m,
       books |-> IF i = 0 /\ e.order # 0 THEN r.books
                 ELSE [r.books EXCEPT ![i] = Append(@, e)]]
=============================================================================
