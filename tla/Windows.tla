------------------------------ MODULE Windows ------------------------------
(***************************************************************************)
(* The windows of a tenant's quotas: calendar windows cut in UTC, and      *)
(* billing periods with dates of their own.  QuotaEnforcer counts spend by *)
(* window; this module says which windows there are at an instant.         *)
(*                                                                         *)
(* An instant is a day, a second of it and the nanoseconds past that.      *)
(***************************************************************************)
EXTENDS Naturals, Sequences

Instant(day, sec) == [day |-> day, sec |-> sec, nano |-> 0]

Before(a, b) ==
  \/ a.day < b.day
  \/ a.day = b.day /\ a.sec < b.sec
  \/ a.day = b.day /\ a.sec = b.sec /\ a.nano < b.nano

Add(a, secs) == Instant(a.day + (a.sec + secs) \div 86400, (a.sec + secs) % 86400)

\* time.Date: days since 1 March of year 0, and days or months past their end run
\* over into the next month or year.
Date(year, month, d) ==
  LET y   == year + (month - 1) \div 12
      m   == ((month - 1) % 12) + 1
      yy  == IF m <= 2 THEN y - 1 ELSE y
      era == yy \div 400
      yoe == yy % 400
  IN  era * 146097 + yoe * 365 + yoe \div 4 - yoe \div 100 + (153 * ((m + 9) % 12) + 2) \div 5 + d - 1

\* at: a civil date, a second of the day and nanoseconds.
InstantOf(at) == [day |-> Date(at.year, at.month, at.day), sec |-> at.sec, nano |-> at.nano]

WindowKinds == <<"minute", "hour", "day", "month", "period">>

Valid(kind) == kind \in {WindowKinds[i] : i \in DOMAIN WindowKinds}

Window(kind, start, end) == [kind |-> kind, start |-> start, end |-> end]

Truncate(a, secs) == Instant(a.day, a.sec - (a.sec % secs))

\* Mutation: every month has thirty days.
EndOfMonthThirty(at) == Instant(Date(at.year, at.month, 1) + 30, 0)

\* start.AddDate(0, 1, 0)
EndOfMonth(at) == Instant(Date(at.year, at.month + 1, 1), 0)

ClockWindow(kind, at) ==
  LET a == InstantOf(at)
  IN  CASE kind = "minute" -> Window(kind, Truncate(a, 60), Add(Truncate(a, 60), 60))
        [] kind = "hour"   -> Window(kind, Truncate(a, 3600), Add(Truncate(a, 3600), 3600))
        [] kind = "day"    -> Window(kind, Instant(Date(at.year, at.month, at.day), 0), Instant(Date(at.year, at.month, at.day + 1), 0))
        [] kind = "month"  -> Window(kind, Instant(Date(at.year, at.month, 1), 0), EndOfMonth(at))

(***************************************************************************)
(* A quota: period holds its two dates where it has them.                  *)
(***************************************************************************)

Validate(q) ==
  /\ Valid(q.kind)
  /\ IF q.kind = "period" THEN Len(q.period) = 2 /\ Before(q.period[1], q.period[2]) ELSE q.period = <<>>
  /\ q.maxCost >= 0
  /\ q.onExceed \in {"block", "allow"}

validQuota(q) == [q EXCEPT !.onExceed = IF @ = "" THEN "block" ELSE @]

\* The set as it is written, or none when it is refused.
validQuotaSet(set) ==
  LET qs == {validQuota(set[i]) : i \in DOMAIN set}
  IN  IF (\A q \in qs : Validate(q)) /\ (\A i, j \in DOMAIN set : set[i].kind = set[j].kind => i = j)
      THEN {qs} ELSE {}

(***************************************************************************)
(* The quotas table.                                                       *)
(***************************************************************************)

\* timestamptz: the driver cuts what a time has beyond its microseconds.
Micros(t) == [t EXCEPT !.nano = @ - (@ % 1000)]

\* The row of a quota.
Stored(q) == [q EXCEPT !.period = [i \in DOMAIN @ |-> Micros(@[i])]]

\* The constraints on a row: quotas_period_bounds, quotas_period_order and
\* quotas_cost_non_negative.
QuotasTableCheck(row) ==
  /\ row.kind = "period" <=> Len(row.period) = 2
  /\ Len(row.period) = 2 => Before(row.period[1], row.period[2])
  /\ row.maxCost >= 0

\* One transaction upserts every quota of the set: the rows, or none when the set or
\* one of its rows is refused.
ReplaceQuotas(set) ==
  {rows \in {{Stored(q) : q \in qs} : qs \in validQuotaSet(set)} : \A row \in rows : QuotasTableCheck(row)}

WindowAt(q, at) ==
  IF q.kind # "period" THEN {ClockWindow(q.kind, at)}
  ELSE LET a == InstantOf(at)
       IN  IF Before(a, q.period[1]) \/ ~Before(a, q.period[2]) THEN {}
           ELSE {Window("period", q.period[1], q.period[2])}

Blocks(q) == q.onExceed # "allow"

ApplicableLimits(quotas, at) ==
  UNION {{[window |-> w, maxCost |-> q.maxCost, block |-> Blocks(q)] : w \in WindowAt(q, at)} : q \in quotas}
=============================================================================
