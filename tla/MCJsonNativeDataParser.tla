----------------------- MODULE MCJsonNativeDataParser -----------------------
(***************************************************************************)
(* JsonNativeDataParser on files of four lines, one of which may be cut    *)
(* off after any token, or in the middle of it.                            *)
(***************************************************************************)
EXTENDS JsonNativeDataParser

ALine(recv, order, price, hdFirst) ==
  [ts_recv |-> recv, ts_event |-> "stamp1", instrument_id |-> "n3",
   order_id |-> order, size |-> "n2", price |-> price, hdFirst |-> hdFirst]

LineOf(i, hdFirst) ==
  CASE i = 1 -> ALine("stamp2", "n1", "price1", hdFirst)
    [] i = 2 -> ALine("stamp3", "n2", "null", hdFirst)
    [] i = 3 -> ALine("stamp4", "n3", "price2", hdFirst)
    [] i = 4 -> ALine("stamp2", "n2", "price1", hdFirst)

CutFiles ==
  UNION {
    LET whole == [i \in 1 .. 4 |-> Written(LineOf(i, hdFirst))]
    IN  UNION {{[whole EXCEPT ![c] = [@ EXCEPT !.kept = n, !.torn = t]] :
                  n \in 0 .. whole[c].kept, t \in BOOLEAN} : c \in 1 .. 4}
    : hdFirst \in BOOLEAN}
=============================================================================
