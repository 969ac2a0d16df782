------------------------ MODULE JsonNativeDataParser ------------------------
(***************************************************************************)
(* JsonNativeDataParser.cpp: one pass over the mapped file with a single   *)
(* position, which every loop moves on.  It does not look at newlines      *)
(* within an object.  One step is one turn of a loop: of parse_inner, of   *)
(* ndp_parseLine or of ndp_parseHd.                                        *)
(***************************************************************************)
EXTENDS JsonSimpleDataParser

CONSTANT TextFiles  \* the files: each is the sequence of its lines, as they were left

LinesLeft == {w \in [line : Line, kept : Nat, torn : BOOLEAN] : w.kept <= Len(Text(w.line))}
ASSUME TextFilesAssumption == \A f \in TextFiles : f \in Seq(LinesLeft)

VARIABLES
  textFile,  \* the file
  data,      \* its tokens
  pos,       \* pos, and p of the functions called
  pc,        \* the loop: "lines", "fields", "hd", or "done"
  event,     \* e of ndp_parseLine
  calls      \* the calls of f

jsonVars == <<textFile, data, pos, pc, event, calls>>

JsonInit ==
  /\ textFile \in TextFiles
  /\ data = FlattenSeq([i \in DOMAIN textFile |-> Append(Left(textFile[i]), "nl")])
  /\ pos = 1 /\ pc = "lines"
  /\ event = Default /\ calls = <<>>

End == Len(data) + 1
At(p, token) == p < End /\ data[p] = token
-----------------------------------------------------------------------------
(* Scanning *)

\* The first position from p on with one of the tokens, or the end.
Find(p, tokens) ==
  IF p >= End THEN p
  ELSE CHOOSE q \in p .. End :
         /\ q = End \/ data[q] \in tokens
         /\ \A r \in p .. q - 1 : data[r] \notin tokens

\* The first position from p on without any of them, or the end.
Skip(p, tokens) ==
  IF p >= End THEN p
  ELSE CHOOSE q \in p .. End :
         /\ q = End \/ data[q] \notin tokens
         /\ \A r \in p .. q - 1 : data[r] \in tokens

\* if (p < end) ++p;
Past(p) == IF p < End THEN p + 1 ELSE p

\* Strings are passed over as a whole, objects by their depth.
AfterString(p) == Past(Find(p, {Q}))
AfterObject(p) ==
  LET after[q \in p .. End, d \in Nat] ==
        IF q >= End THEN q
        ELSE IF data[q] = "open" THEN after[q + 1, d + 1]
        ELSE IF data[q] = "close" THEN IF d = 1 THEN q + 1 ELSE after[q + 1, d - 1]
        ELSE IF data[q] = Q THEN after[AfterString(q + 1), d]
        ELSE after[q + 1, d]
  IN  after[p, 0]

\* Faulty variant: a quoted value is left at its end quote.
ndp_skipVal_inString(p) ==
  IF At(p, Q) THEN Find(p + 1, {Q})
  ELSE IF At(p, "open") THEN AfterObject(p)
  ELSE Find(p, {"comma", "close"})

\* ndp_skipVal
ndp_skipVal(p) ==
  IF At(p, Q) THEN AfterString(p + 1)
  ELSE IF At(p, "open") THEN AfterObject(p)
  ELSE Find(p, {"comma", "close"})

\* The field that begins at the quote p: its name (no known one when the text
\* is not a name), and where its value begins.
KeyEnd(p) == Find(p + 1, {Q})
Key(p) == IF KeyEnd(p) = p + 2 THEN data[p + 1] ELSE "unknown"
ValueAt(p) == Skip(Past(KeyEnd(p)), {"colon"})

\* The text of the string at the quote v, and the position of its end quote.
TextEnd(v) == Find(v + 1, {Q})
TextAt(v) == SubSeq(data, v + 1, TextEnd(v) - 1)
-----------------------------------------------------------------------------
(* Values *)

\* ndp_parseIso8601Nanos
parseIso8601Nanos(text) ==
  LET s == Stamp[text]
  IN  <<DaysFromCivil(s.date[1], s.date[2], s.date[3]), s.second,
        IF Len(s.digits) >= 9 THEN Fixed9(s.digits) ELSE Fraction(s.digits)>>

\* A price and a time read from a text that runs on beyond its line.
Garbled == 1
GarbledTime == <<0, 0, 1>>
Price(text) ==
  IF Len(text) = 1 /\ text[1] \in DOMAIN PriceText THEN PriceOf(text[1]) ELSE Garbled

Digits(text) == IF text[1] \in DOMAIN Number THEN Number[text[1]] ELSE 0

Goto(p) == pos' = p /\ UNCHANGED event
Set(field, value, p) == event' = [event EXCEPT ![field] = value] /\ pos' = p

\* Faulty variant: it goes on where it is.
Throw_inPlace(p) == pc' = "lines" /\ pos' = p /\ UNCHANGED event

\* An exception with the position at p: parse_inner goes on after the next
\* newline.
Throw(p) ==
  /\ pc' = "lines"
  /\ pos' = Past(Find(p, {"nl"}))
  /\ UNCHANGED event

\* A timestamp at v, or a value of another type.  A text of fewer than 19
\* characters throws.  An order id may have as many, and what follows a torn
\* text may bring it there.
Timestamp(field, v) ==
  LET text == TextAt(v)
      After == Past(TextEnd(v))
  IN  IF ~At(v, Q) THEN Goto(ndp_skipVal(v)) /\ UNCHANGED pc
      ELSE IF text = <<>> THEN Goto(After) /\ UNCHANGED pc
      ELSE \/ text[1] \in DOMAIN Stamp /\ UNCHANGED pc
              /\ Set(field, parseIso8601Nanos(text[1]), After)
           \/ text[1] \notin DOMAIN Stamp /\ Throw(TextEnd(v))
           \/ text[1] \in DOMAIN Number /\ UNCHANGED pc /\ Set(field, GarbledTime, After)

\* A number at v, or a value of another type.
Numeric(field, v) ==
  IF v < End /\ data[v] \in DOMAIN Number
  THEN Set(field, Number[data[v]], v + 1) ELSE Goto(ndp_skipVal(v))
-----------------------------------------------------------------------------
(* parse_inner *)

Begin ==
  /\ pc = "lines"
  /\ LET p == Skip(pos, {"nl"})
     IN  IF p >= End THEN pc' = "done" /\ Goto(p)
         ELSE IF data[p] # "open" THEN Throw(p)
         ELSE pc' = "fields" /\ pos' = p + 1 /\ event' = Default
  /\ UNCHANGED <<textFile, data, calls>>

\* The end of ndp_parseLine, at p, and the call of f.
Finish(p) ==
  IF event.ts_recv = NoTime THEN Throw(Past(p)) /\ UNCHANGED calls
  ELSE /\ calls' = Append(calls, event)
       /\ pc' = "lines" /\ Goto(Past(p))

\* ndp_parseLine, the loop's body: the field whose value is at v.
OuterField(key, v) ==
  CASE key = "hd" /\ At(v, "open") -> Goto(v + 1) /\ pc' = "hd"
    [] key = "hd" /\ ~At(v, "open") -> Goto(v) /\ UNCHANGED pc
    [] key = "ts_recv" -> Timestamp("ts_recv", v)
    [] key = "order_id" ->
         /\ IF ~At(v, Q) THEN Goto(ndp_skipVal(v))
            ELSE Set("order_id", IF v + 1 < End THEN Digits(<<data[v + 1]>>) ELSE 0,
                     Past(TextEnd(v)))
         /\ UNCHANGED pc
    [] key = "size" -> Numeric("size", v) /\ UNCHANGED pc
    [] key = "price" ->
         /\ IF At(v, "null") THEN Goto(v + 1)
            ELSE IF At(v, TornNull) THEN \E n \in 2 .. 4 : Goto(v + n)
            ELSE IF ~At(v, Q) THEN Goto(ndp_skipVal(v))
            ELSE IF TextAt(v) = <<>> THEN Goto(Past(TextEnd(v)))
            ELSE Set("price", Price(TextAt(v)), Past(TextEnd(v)))
         /\ UNCHANGED pc
    [] OTHER -> Goto(ndp_skipVal(v)) /\ UNCHANGED pc

Fields ==
  /\ pc = "fields"
  /\ LET p == Skip(pos, {"comma"})
     IN  IF p >= End \/ At(p, "close") THEN Finish(p)
         ELSE /\ IF data[p] # Q THEN Goto(p + 1) /\ UNCHANGED pc
                 ELSE OuterField(Key(p), ValueAt(p))
              /\ UNCHANGED calls
  /\ UNCHANGED <<textFile, data>>

\* ndp_parseHd: a field is known by the length of its name alone.
InnerField(key, v) ==
  CASE key \in {"ts_event", "order_id"} -> Timestamp("ts_event", v)
    [] key = "instrument_id" -> Numeric("instrument_id", v) /\ UNCHANGED pc
    [] OTHER -> Goto(ndp_skipVal(v)) /\ UNCHANGED pc

Hd ==
  /\ pc = "hd"
  /\ LET p == Skip(pos, {"comma"})
     IN  IF p >= End \/ At(p, "close") THEN Goto(Past(p)) /\ pc' = "fields"
         ELSE IF data[p] # Q THEN Goto(p + 1) /\ UNCHANGED pc
         ELSE InnerField(Key(p), ValueAt(p))
  /\ UNCHANGED <<textFile, data, calls>>

Returned == pc = "done" /\ UNCHANGED jsonVars

JsonNext == Begin \/ Fields \/ Hd \/ Returned

JsonSpec == JsonInit /\ [][JsonNext]_jsonVars
FairJson == JsonSpec /\ WF_jsonVars(JsonNext)
-----------------------------------------------------------------------------
(* Properties *)

\* The lines that are whole and do not come after a damaged one.
Safe == {i \in DOMAIN textFile : Intact(textFile[i]) /\ (i = 1 \/ Intact(textFile[i - 1]))}
CallsFor(i) == {k \in DOMAIN calls : calls[k] = Meaning(textFile[i].line)}

\* The lines before the first damaged one are read for what they say, one event
\* each, and when no line is damaged there are no other events.
ReadsUpToDamage ==
  \A n \in 0 .. Len(textFile) :
    (\A i \in 1 .. n : Intact(textFile[i])) =>
      /\ \A i \in 1 .. n : i \in DOMAIN calls => calls[i] = Meaning(textFile[i].line)
      /\ pc = "done" => n <= Len(calls)
      /\ n = Len(textFile) => Len(calls) <= n

\* A line that was cut off can spoil the next one and no more, though the
\* parser runs over newlines, may take the end of the next object for the end
\* of "hd" and put the event together from the line after that: every other
\* whole line is read for what it says, once, in the order of the file, wherever
\* in a string, a name or an object the cut is and in whatever phase the quotes
\* are after it.
DamageIsBounded ==
  /\ Len(calls) <= Len(textFile) /\ ReadsUpToDamage
  /\ pc = "done" =>
       /\ \A i \in Safe : Cardinality(CallsFor(i)) = 1
       /\ \A i, j \in Safe : i < j =>
            \A k \in CallsFor(i), l \in CallsFor(j) : k < l

\* The other parser reads every whole line for what it says, and of a damaged
\* one takes a field of this line, as far as it goes, or none.
SimpleKeepsLinesApart ==
  pc = "done" =>
    \A i \in DOMAIN textFile :
      LET m == Meaning(textFile[i].line)
          events == parseLine(Left(textFile[i]))
      IN  /\ Intact(textFile[i]) => events = <<m>>
          /\ \A k \in DOMAIN events : \A f \in DOMAIN m :
               \/ events[k][f] \in {m[f], Default[f]}
               \/ textFile[i].torn /\ f = "size" /\ events[k][f] = Number[Torn]

\* The parser returns: no text, however cut, keeps one of its loops in place.
ParserReturns == <>(pc = "done")
=============================================================================
