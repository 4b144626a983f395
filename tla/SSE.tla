-------------------------------- MODULE SSE --------------------------------
(***************************************************************************)
(* The wire format of server-sent events: what the decoder makes of a      *)
(* provider's stream, and what is written to the client for each event.    *)
(* A stream is a sequence of characters; the name of a field is one.       *)
(***************************************************************************)
EXTENDS Naturals, Sequences, SequencesExt

CONSTANT MaxLine    \* the longest line the decoder takes, its end included

ASSUME SSEAssumption == MaxLine \in Nat

Empty == [data |-> <<>>, type |-> <<>>, sawData |-> FALSE, dirty |-> FALSE]

\* The decoder: the event being built, the events returned, and the sticky error.
NewDecoder == [ev |-> Empty, events |-> <<>>, err |-> "none"]

trimEOL(line) ==
  LET l == IF line # <<>> /\ Last(line) = "\n" THEN Front(line) ELSE line
  IN  IF l # <<>> /\ Last(l) = "\r" THEN Front(l) ELSE l

\* The characters before the first colon, and those after it less a leading space.
parseField(line) ==
  LET colons == {i \in DOMAIN line : line[i] = ":"}
      i      == CHOOSE c \in colons : \A d \in colons : c <= d
      value  == SubSeq(line, i + 1, Len(line))
  IN  IF colons = {} THEN [field |-> line, value |-> <<>>]
      ELSE [field |-> SubSeq(line, 1, i - 1),
            value |-> IF value # <<>> /\ value[1] = " " THEN Tail(value) ELSE value]

Field(ev, f) ==
  CASE f.field = <<"data">> ->
         [ev EXCEPT !.dirty = TRUE, !.sawData = TRUE, !.data = @ \o (IF ev.sawData THEN <<"\n">> ELSE <<>>) \o f.value]
    [] f.field = <<"event">> -> [ev EXCEPT !.dirty = TRUE, !.type = f.value]
    [] OTHER -> [ev EXCEPT !.dirty = TRUE]

\* One line of the loop in Next, from readLine to the switch on the field.
NextLine(d, line) ==
  LET l == trimEOL(line)
  IN  CASE d.err # "none" -> d
        [] d.err = "none" /\ Len(line) > MaxLine -> [d EXCEPT !.err = "toolong"]
        [] d.err = "none" /\ Len(line) <= MaxLine /\ Last(line) # "\n" -> [d EXCEPT !.err = "unexpected"]
        [] d.err = "none" /\ Len(line) <= MaxLine /\ Last(line) = "\n" ->
             IF l = <<>>
             THEN [d EXCEPT !.ev = Empty,
                            !.events = IF d.ev.sawData THEN Append(@, [type |-> d.ev.type, data |-> d.ev.data]) ELSE @]
             ELSE IF l[1] = ":" THEN d
             ELSE [d EXCEPT !.ev = Field(@, parseField(l))]

\* The lines of a stream, each with its end; the last may have none.
Lines(stream) ==
  FoldLeft(LAMBDA ls, c : IF ls = <<>> \/ Last(Last(ls)) = "\n" THEN Append(ls, <<c>>)
                          ELSE Append(Front(ls), Append(Last(ls), c)), <<>>, stream)

\* Mutation: the end of the stream is always a clean one.
EndClean(d) == [d EXCEPT !.err = IF @ = "none" THEN "EOF" ELSE @]

\* The end of the stream: a clean one only between events.
End(d) == [d EXCEPT !.err = IF @ # "none" THEN @ ELSE IF d.ev.dirty THEN "unexpected" ELSE "EOF"]

Decode(stream) == End(FoldLeft(NextLine, NewDecoder, Lines(stream)))

LineEnds == {"\r", "\n"}

\* One data field for each line of the data; an event whose type has a line end is refused.
WriteEvent(ev) ==
  LET segs == FoldLeft(LAMBDA ss, c : IF c = "\n" THEN Append(ss, <<>>) ELSE Append(Front(ss), Append(Last(ss), c)),
                       << <<>> >>, ev.data)
      line(field, value) == <<field, ":", " ">> \o value \o <<"\n">>
  IN  IF ToSet(ev.type) \cap LineEnds # {} THEN {}
      ELSE {(IF ev.type = <<>> THEN <<>> ELSE line("event", ev.type))
              \o FlattenSeq([i \in DOMAIN segs |-> line("data", segs[i])]) \o <<"\n">>}
=============================================================================
