--------------------------- MODULE MarketDataText ---------------------------
(***************************************************************************)
(* The .mbo.json files that the JSON parsers read: a line per event, an    *)
(* object with a nested object "hd", its fields in any order.  A file is a *)
(* sequence of tokens, each of them a string: a quote, a brace ("open" and *)
(* "close"), a comma or a colon, "nl" for the newline, a name, or a text   *)
(* whose value a table below gives.  A line may have been cut off, as by a *)
(* writer that died or a download that broke.                              *)
(***************************************************************************)
EXTENDS CivilTime, SequencesExt

Q == "quote"

\* The texts of timestamps, of numbers and of prices.
Stamp ==
  [stamp1 |-> [date |-> <<2024, 2, 29>>, second |-> 86399, digits |-> <<4, 8>>],
   stamp2 |-> [date |-> <<2025, 3, 1>>, second |-> 0, digits |-> <<>>],
   stamp3 |-> [date |-> <<2026, 12, 31>>, second |-> 21,
               digits |-> <<4, 8, 0, 4, 7, 0, 5, 9, 8>>],
   stamp4 |-> [date |-> <<2100, 3, 1>>, second |-> 1,
               digits |-> <<0, 0, 0, 0, 0, 0, 0, 0, 1>>]]
Number == [n1 |-> 1, n2 |-> 2, n3 |-> 3, torn |-> 9]
PriceText == [price1 |-> [neg |-> TRUE, int |-> <<0>>, frac |-> <<2, 5>>],
              price2 |-> [neg |-> FALSE, int |-> <<1>>, frac |-> <<1, 6, 1, 1>>],
              torn   |-> [neg |-> FALSE, int |-> <<1>>, frac |-> <<1>>]]

\* What a text that is cut in the middle leaves: the beginning of a number or
\* of a price is one too, that of a timestamp or of a name is not.
Torn == "torn"
TornNull == "nul"  \* four characters are skipped for an n

PriceOf(text) ==
  LET p == PriceText[text]
      raw == Spelt(p.int, Len(p.int)) * Pow10(9) + Fraction(p.frac)
  IN  IF p.neg THEN -raw ELSE raw
-----------------------------------------------------------------------------
(* MarketDataEvent, the fields that stand for all; UNDEF_PRICE is Undef,   *)
(* and NanoTime is kept as <<days, second of the day, nanosecond>>.        *)

NoTime == <<0, 0, 0>>
Undef == 0

Default == [ts_recv |-> NoTime, ts_event |-> NoTime, instrument_id |-> 0,
            order_id |-> 0, size |-> 0, price |-> Undef]

\* A line: the texts of its fields, and where hd comes.
Line == [ts_recv : DOMAIN Stamp, ts_event : DOMAIN Stamp,
         instrument_id : DOMAIN Number, order_id : DOMAIN Number,
         size : DOMAIN Number, price : DOMAIN PriceText \union {"null"},
         hdFirst : BOOLEAN]

TimeCounted(text) ==
  LET s == Stamp[text]
  IN  <<DaysCounted(s.date[1], s.date[2], s.date[3]), s.second, Fraction(s.digits)>>

\* The event a line is written for.
Meaning(l) ==
  [ts_recv |-> TimeCounted(l.ts_recv), ts_event |-> TimeCounted(l.ts_event),
   instrument_id |-> Number[l.instrument_id], order_id |-> Number[l.order_id],
   size |-> Number[l.size],
   price |-> IF l.price = "null" THEN Undef ELSE PriceOf(l.price)]

Named(name, value) == <<Q, name, Q, "colon">> \o value
Quoted(text) == <<Q, text, Q>>

\* The tokens of a line, without its newline.
Text(l) ==
  LET hd == Named("hd", <<"open">> \o Named("instrument_id", <<l.instrument_id>>)
              \o <<"comma">> \o Named("ts_event", Quoted(l.ts_event)) \o <<"close">>)
      recv == Named("ts_recv", Quoted(l.ts_recv))
      rest == Named("order_id", Quoted(l.order_id)) \o <<"comma">>
              \o Named("size", <<l.size>>) \o <<"comma">>
              \o Named("symbol", Quoted("symbolText")) \o <<"comma">>
              \o Named("price", IF l.price = "null" THEN <<"null">>
                                ELSE Quoted(l.price))
  IN  <<"open">> \o (IF l.hdFirst THEN hd \o <<"comma">> \o recv ELSE recv \o <<"comma">> \o hd)
      \o <<"comma">> \o rest \o <<"close">>

\* A line in a file: kept of its tokens are there, the last of them torn or not.
Punctuation == {Q, "open", "close", "comma", "colon"}
Intact(w) == w.kept = Len(Text(w.line)) /\ ~w.torn
Left(w) ==
  LET t == SubSeq(Text(w.line), 1, w.kept)
  IN  IF w.torn /\ w.kept > 0 /\ t[w.kept] \notin Punctuation
      THEN [t EXCEPT ![w.kept] = IF @ = "null" THEN TornNull ELSE Torn] ELSE t
Written(l) == [line |-> l, kept |-> Len(Text(l)), torn |-> FALSE]
=============================================================================
