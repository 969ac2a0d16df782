------------------------ MODULE JsonSimpleDataParser ------------------------
(***************************************************************************)
(* JsonSimpleDataParser.cpp: every line by itself, each field looked up by *)
(* its name.  strptime, timegm, stod and stoul are taken for exact; that   *)
(* stod(price) * 1e9 may be one unit short is not modelled.                *)
(***************************************************************************)
EXTENDS MarketDataText

\* std::optional, std::string_view: the value or nothing.
Nothing == <<>>

\* findValue: what follows the first "key": of the line.
findValue(line, key) ==
  LET at == {i \in 1 .. Len(line) - 3 : SubSeq(line, i, i + 3) = Named(key, <<>>)}
  IN  IF at = {} THEN Nothing
      ELSE LET i == CHOOSE i \in at : \A j \in at : i <= j
           IN  SubSeq(line, i + 4, Len(line))

\* Faulty variant: the end quote may be missing.
getString_unclosed(line, key) ==
  LET rest == findValue(line, key)
  IN  IF Len(rest) >= 2 /\ rest[1] = Q THEN <<rest[2]>> ELSE Nothing

\* getString: between two quotes; a missing end quote is a missing value.
getString(line, key) ==
  LET rest == findValue(line, key)
  IN  IF Len(rest) >= 3 /\ rest[1] = Q /\ rest[3] = Q THEN <<rest[2]>> ELSE Nothing

getNumericRaw(line, key) ==
  LET rest == findValue(line, key)
  IN  IF rest # Nothing /\ rest[1] \in DOMAIN Number THEN <<rest[1]>> ELSE Nothing

\* getObject: up to the brace that matches, or nothing when there is none.
getObject(line, key) ==
  LET rest == findValue(line, key)
      depth(i) == Cardinality({j \in 1 .. i : rest[j] = "open"})
                  - Cardinality({j \in 1 .. i : rest[j] = "close"})
      ends == {i \in 1 .. Len(rest) : depth(i) = 0}
  IN  IF rest = Nothing \/ rest[1] # "open" \/ ends = {} THEN Nothing
      ELSE SubSeq(rest, 1, CHOOSE i \in ends : \A j \in ends : i <= j)

\* The value of a field, or its default when the line does not have the field.
Field(optional, value, default) == IF optional = Nothing THEN default ELSE value

\* A conversion of the line throws.
Throws(line) ==
  LET recv  == getString(line, "ts_recv")
      event == getString(getObject(line, "hd"), "ts_event")
  IN  \/ recv = Nothing \/ recv[1] \notin DOMAIN Stamp
      \/ event # Nothing /\ event[1] \notin DOMAIN Stamp

\* parseLine and its catch: the event of a line, as a sequence of one, or none.
parseLine(line) ==
  LET hd      == getObject(line, "hd")
      tsRecv  == getString(line, "ts_recv")
      tsEvent == getString(hd, "ts_event")
      instId  == getNumericRaw(hd, "instrument_id")
      orderId == getString(line, "order_id")
      size    == getNumericRaw(line, "size")
      rest    == findValue(line, "price")
      isNull  == rest # Nothing /\ rest[1] = "null"
      price   == IF isNull THEN Nothing ELSE getString(line, "price")
  IN  IF Throws(line) THEN <<>>
      ELSE <<[ts_recv  |-> TimeCounted(tsRecv[1]),
              ts_event |-> Field(tsEvent, TimeCounted(tsEvent[1]), NoTime),
              instrument_id |-> Field(instId, Number[instId[1]], 0),
              order_id |-> Field(orderId, Number[orderId[1]], 0),
              size     |-> Field(size, Number[size[1]], 0),
              price    |-> Field(price, PriceOf(price[1]), Undef)]>>
=============================================================================
