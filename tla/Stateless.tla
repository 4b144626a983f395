----------------------------- MODULE Stateless -----------------------------
(***************************************************************************)
(* The parts of the gateway that keep no state: the admin API's way from a *)
(* request to a status, the windows of quotas, and prices.  A state is an  *)
(* input and, after one step, what the code makes of it.                   *)
(***************************************************************************)
EXTENDS AdminAPI, Integers, FiniteSets

CONSTANTS
  WindowInputs,   \* two instants, and quotas as an administrator sends them
  PriceInputs,    \* a price table and a request
  Half            \* half the values of an integer: 2^63

W == INSTANCE Windows
P == INSTANCE Pricing

Leap(year) == year % 4 = 0 /\ (year % 100 # 0 \/ year % 400 = 0)

DaysIn(year, month) ==
  IF month = 2 THEN (IF Leap(year) THEN 29 ELSE 28) ELSE IF month \in {4, 6, 9, 11} THEN 30 ELSE 31

\* A date of the calendar, a second of its day and nanoseconds.
Civil(c) ==
  /\ c.year \in Nat \ {0} /\ c.month \in 1..12 /\ c.day \in 1..DaysIn(c.year, c.month)
  /\ c.sec \in Nat /\ c.sec < 86400 /\ c.nano \in Nat /\ c.nano < 1000000000

IsSeq(s) == s \in Seq({s[n] : n \in DOMAIN s})

\* A quota as the request's body gives it.
QuotaInput(q) ==
  /\ DOMAIN q = {"kind", "period", "maxCost", "onExceed"}
  /\ IsSeq(q.period) /\ q.maxCost \in Int
  /\ \A n \in DOMAIN q.period : q.period[n] \in [day : Int, sec : Nat, nano : Nat]

\* A price table as the configuration lists it, checked when it was loaded.
PriceTable(table, targets) ==
  /\ IsSeq(table)
  /\ \A n \in DOMAIN table :
       /\ table[n].from \in Int
       /\ \A t \in DOMAIN table[n].rates :
            table[n].rates[t] \in [free : BOOLEAN, input : Int, output : Int, cacheRead : Int, cacheWrite : Int]
  /\ P!validatePricing(table, targets)

ASSUME StatelessAssumption ==
  /\ Half \in Nat \ {0}
  /\ \A i \in WindowInputs :
       /\ Civil(i.a) /\ Civil(i.b) /\ IsSeq(i.set)
       /\ \A n \in DOMAIN i.set : QuotaInput(i.set[n])
  /\ \A i \in PriceInputs :
       /\ PriceTable(i.table, i.known)
       /\ IsSeq(i.targets)
       /\ i.prompt \in [textBytes : Nat, messages : Nat, mediaParts : Nat]
       /\ i.maxOutput \in Int /\ i.choices \in Int /\ i.defaultMaxOutput \in Int
       /\ i.reported \in [prompt : Nat, cached : Nat, completion : Nat]

VARIABLES
  fn,     \* the function under test
  in,     \* its input
  out     \* its results, none yet or one

vars == <<fn, in, out>>

Init ==
  /\ out = {}
  /\ \/ fn = "admin" /\ in \in AdminRequests
     \/ fn = "window" /\ in \in WindowInputs
     \/ fn = "price" /\ in \in PriceInputs

ServeAdmin == fn = "admin" /\ out = {} /\ out' = {Serve(in)} /\ UNCHANGED <<fn, in>>

\* The set of quotas as it is accepted, its rows, and the limits they set at either
\* instant.
Resolved(i) ==
  [set |-> W!validQuotaSet(i.set), rows |-> W!ReplaceQuotas(i.set),
   a |-> UNION {W!ApplicableLimits(rows, i.a) : rows \in W!ReplaceQuotas(i.set)},
   b |-> UNION {W!ApplicableLimits(rows, i.b) : rows \in W!ReplaceQuotas(i.set)}]

ResolveWindows == fn = "window" /\ out = {} /\ out' = {Resolved(in)} /\ UNCHANGED <<fn, in>>

\* The estimate and the reservation of a request and, once t served it, what its tenant
\* is charged and what the ledger records.
Charged(i, t) ==
  LET estimate == P!EstimateTokens(i.prompt, i.maxOutput, i.choices, i.defaultMaxOutput)
      used     == P!usage(i.reported)
      reserved == P!priceEstimate(i.table, i.targets, i.at, estimate)
  IN  [estimate |-> estimate, reserved |-> reserved, chosen |-> t,
       charged |-> {P!actualUsage(i.table, i.at, t, used, r) : r \in reserved},
       record |-> P!Price(i.table, i.at, i.targets, i.compare, t, used)]

Charge == fn = "price" /\ out = {} /\ out' = {Charged(in, in.targets[n]) : n \in DOMAIN in.targets} /\ UNCHANGED <<fn, in>>

Next == ServeAdmin \/ ResolveWindows \/ Charge

Spec == Init /\ [][Next]_vars

(***************************************************************************)
(* Properties.                                                             *)
(***************************************************************************)

\* Whatever a request is, its answer is one the operation's contract declares, with
\* one exception: a GET that carries a body Body cannot take is answered 413 or 400,
\* though a GET declares no 413 and Whoami no 400.  Who is not known is told so and
\* nothing else, a reader is told what it may not do before anything is read of its
\* request, and no mutation runs for a reader.
ContractKept ==
  fn = "admin" => \A o \in out :
    LET authenticated == in.token.kind # "none" /\ in.token.good
    IN  /\ \/ o.status \in HandlerWithOptions[in.op].responses
           \/ /\ HandlerWithOptions[in.op].method = "GET" /\ ~o.ran
              /\ \/ in.body = "toolarge" /\ o.status = 413
                 \/ in.body \in {"unreadable", "notjson"} /\ o.status = 400
        /\ (in.op \notin openPaths /\ ~authenticated) => o.status = 401
        /\ (in.op \in Mutations /\ authenticated /\ in.token.role = "readonly") => o.status = 403
        /\ (o.ran /\ in.op \in Mutations) => authenticated /\ in.token.role = "admin"

\* The windows of a kind tile time: each instant is in the window it is counted in,
\* and two instants share a window exactly when either is in the other's.  A set of
\* quotas that Validate accepts is one the table takes, but for a period that begins
\* and ends in one microsecond, which Validate tells apart and a timestamptz does not;
\* what is stored has a quota for each that was sent, and counts every clock window.
WindowsTile ==
  fn = "window" => \A o \in out :
    LET inside(at, w) == ~W!Before(W!InstantOf(at), w.start) /\ W!Before(W!InstantOf(at), w.end)
    IN  /\ \A l \in o.a : inside(in.a, l.window)
        /\ \A l \in o.a, m \in o.b : l.window.kind = m.window.kind => (inside(in.b, l.window) <=> l.window = m.window)
        /\ \A qs \in o.set :
             o.rows = {} <=> \E q \in qs : q.kind = "period" /\ W!Micros(q.period[1]) = W!Micros(q.period[2])
        /\ \A rows \in o.rows :
             /\ Cardinality({row.kind : row \in rows}) = Len(in.set)
             /\ {row.kind : row \in rows} \ {"period"} \subseteq {l.window.kind : l \in o.a}

\* A request that uses no more tokens than were estimated is charged no more than was
\* reserved, at whichever target, unless cached tokens cost where others are free or
\* the estimate, which a client's own ceiling enters, is too large to be priced;
\* the ledger records what was charged, and for the other targets what they would have.
ChargesCovered ==
  fn = "price" => \A o \in out :
    LET used == P!usage(in.reported)
        rates == {r.rates : r \in P!RatesAt(in.table, in.at, o.chosen)}
        exact == \A i \in DOMAIN in.targets : \A r \in P!RatesAt(in.table, in.at, in.targets[i]), f \in P!Fields :
                   r.rates[f] * o.estimate[f] < Half
        within == used.input + used.cacheRead <= o.estimate.input /\ used.output <= o.estimate.output
    IN  /\ (exact /\ within /\ \A r \in rates : r.input > 0 \/ r.cacheRead = 0) =>
             \A c \in o.charged, r \in o.reserved : c <= r
        /\ P!Total(used) > 0 => \A d \in o.record : o.reserved # {} /\ o.charged = {d.actual}
        /\ \A d \in o.record, p \in out \ {o} :
             \/ \E e \in p.record : [target |-> p.chosen, cost |-> e.actual] \in d.counterfactuals /\ e.version = d.version
             \/ p.record = {} /\ p.chosen \in d.unpriced
=============================================================================
