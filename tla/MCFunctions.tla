---------------------------- MODULE MCFunctions ----------------------------
(***************************************************************************)
(* The parts of the gateway that keep no state, over all inputs of small   *)
(* sets, and with them the event format, whose definitions are recursive.  *)
(***************************************************************************)
EXTENDS Stateless, SSE

CONSTANTS
  Dates,       \* civil dates, as numbers yyyymmdd
  Seconds,     \* seconds of a day
  Counts,      \* token counts a provider reports
  MaxLines     \* bound: lines of an event stream

(***************************************************************************)
(* Inputs.                                                                 *)
(***************************************************************************)

\* Two instants, and quotas as an administrator sends them: one of every kind, or
\* any one or two.
Instants == {[year |-> d \div 10000, month |-> (d \div 100) % 100, day |-> d % 100, sec |-> s, nano |-> n] :
               d \in Dates, s \in Seconds, n \in {0, 1999}}
LeapDay == W!Date(2024, 2, 29)
At(day, sec, nano) == [day |-> day, sec |-> sec, nano |-> nano]
Period == <<At(LeapDay, 60, 999), At(LeapDay + 1, 59, 1999)>>
Quota(kind, period) == [kind |-> kind, period |-> period, maxCost |-> 0, onExceed |-> ""]
EveryKind == [i \in 1..5 |-> Quota(W!WindowKinds[i], IF i = 5 THEN Period ELSE <<>>)]
ShortPeriods == {<<At(LeapDay, 60, 999), At(LeapDay, 60, n)>> : n \in {998, 999, 1000, 1999}} \cup {<<At(LeapDay, 60, 1000), At(LeapDay, 60, 1999)>>}
Quotas == {Quota(kind, p) : kind \in {"minute", "month", "period", "week"}, p \in {<<>>, Period, SubSeq(Period, 1, 1)} \cup ShortPeriods}
          \cup {[Quota("minute", <<>>) EXCEPT !.maxCost = -1]}
MCWindowInputs == [a : Instants, b : Instants, set : {EveryKind}]
                  \cup [a : {CHOOSE c \in Instants : TRUE}, b : {CHOOSE c \in Instants : TRUE},
                        set : {<<q>> : q \in Quotas} \cup {<<q, r>> : q, r \in Quotas}]

\* Two targets, and tables of up to two blocks listed in either order.
RateConfig(free, i, o, c) == [free |-> free, input |-> i, output |-> o, cacheRead |-> c, cacheWrite |-> 0]
Dear == RateConfig(FALSE, 7000006, 5000012, 3333335)
RateConfigs == {RateConfig(TRUE, 0, 0, 0), Dear, RateConfig(FALSE, 7000006, 9000004, 0), RateConfig(FALSE, 0, 9000004, 3333335),
                RateConfig(FALSE, 3333335, 4, 3333335), RateConfig(FALSE, 3333335, 4, 7000006)}
Block(from, rates) == [from |-> from, rates |-> rates]
Old == Block(1, [a |-> Dear, b |-> Dear])
News == {Block(3, [a |-> x, b |-> y]) : x, y \in RateConfigs} \cup {Block(3, [a |-> x]) : x \in RateConfigs}
Tables == {<<>>} \cup {<<b>> : b \in News} \cup {<<Old, b>> : b \in News} \cup {<<b, Old>> : b \in News}
MCPriceInputs ==
  [table : {t \in Tables : P!validatePricing(t, {"a", "b"})}, known : {{"a", "b"}}, compare : {{"a"}}, at : {2, 3}, targets : {<<"a">>, <<"b", "a">>},
   prompt : {[textBytes |-> 5, messages |-> 1, mediaParts |-> 0]}, maxOutput : {0, 2, 8}, choices : {0, 2}, defaultMaxOutput : {1},
   reported : [prompt : Counts, cached : Counts, completion : Counts]]

Line(field, value, end) == <<field, ":">> \o value \o end
StreamLines == {Line("data", <<" ", "x">>, <<"\n">>), Line("data", <<"y">>, <<"\r", "\n">>), <<"data", "\n">>,
                Line("data", <<" ", " ">>, <<"\n">>), Line("event", <<" ", "x">>, <<"\n">>), Line("event", <<"x">>, <<"\r", "\r", "\n">>),
                Line("id", <<"x">>, <<"\n">>), <<":", "x", "\n">>, <<"\n">>, <<"\r", "\n">>,
                Line("data", <<" ", "x", "x", "x", "x">>, <<"\n">>)}
StreamInputs == UNION {[1..n -> StreamLines] : n \in 0..MaxLines}

MCInit == Init \/ (out = {} /\ fn = "stream" /\ in \in StreamInputs)

DecodeStream == fn = "stream" /\ out = {} /\ out' = {Decode(FlattenSeq(in))} /\ UNCHANGED <<fn, in>>

MCNext == Next \/ DecodeStream

MCSpec == MCInit /\ [][MCNext]_vars

\* A stream cut anywhere gives a beginning of its events, and ends cleanly only where
\* the rest is a stream of its own; what is written to the client decodes to the same
\* events, unless a line of data itself ends in a carriage return.
StreamFaithful ==
  fn = "stream" => \A d \in out :
    LET s == FlattenSeq(in)
        written == [i \in DOMAIN d.events |-> WriteEvent(d.events[i])]
        plain(ev) == \A i \in DOMAIN ev.data : ev.data[i] = "\r" => i < Len(ev.data) /\ ev.data[i + 1] # "\n"
    IN  /\ \A n \in 0..Len(s) :
             LET p == Decode(SubSeq(s, 1, n))
             IN  /\ IsPrefix(p.events, d.events)
                 /\ p.err = "EOF" => d.events = p.events \o Decode(SubSeq(s, n + 1, Len(s))).events
        /\ (\A i \in DOMAIN written : written[i] # {} /\ plain(d.events[i])) =>
             \A t \in {FlattenSeq([i \in DOMAIN written |-> CHOOSE w \in written[i] : TRUE])} :
               (\A i \in DOMAIN Lines(t) : Len(Lines(t)[i]) <= MaxLine) =>
                 Decode(t).events = d.events /\ Decode(t).err = "EOF"
=============================================================================
