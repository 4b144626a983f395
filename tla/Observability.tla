--------------------------- MODULE Observability ---------------------------
(***************************************************************************)
(* The readers of the decision log, beside the sink that writes it:        *)
(* explain, which reads a decision's two rows one after the other, the     *)
(* usage report, two aggregates in one transaction, and the audit log,     *)
(* read page by page.  One reader makes one of the three reads, at any     *)
(* time.  A row keeps what the queries look at: its tenant, its time, the  *)
(* group it falls in, its cost, and whether it was compared with other     *)
(* targets.                                                                *)
(***************************************************************************)
EXTENDS Sink, Totals

CONSTANTS
  Row,           \* of each decision, its row
  Tenant,        \* the tenant asked about
  ReportLimit,   \* ReportSpec.Limit
  PageLimit      \* AuditQuery.Limit

ASSUME ObservabilityAssumption ==
  /\ Decisions \subseteq Nat
  /\ \A d \in Decisions : Row[d].ts \in Nat /\ Row[d].cost \in Nat /\ Row[d].compared \in BOOLEAN
  /\ ReportLimit \in Nat \ {0}
  /\ PageLimit \in Nat \ {0}

VARIABLE reader    \* the read: what it has so far

obsVars == <<vars, reader>>

Idle == [op |-> "none"]

ObsInit == Init /\ reader = Idle

Cost(ds) == Total(ds, [d \in ds |-> Row[d].cost])

(***************************************************************************)
(* Get: the ledger row, then the audit row.                                *)
(***************************************************************************)

Get(d) ==
  /\ reader = Idle
  /\ reader' = IF ledger[d] > 0 THEN [op |-> "explain", id |-> d] ELSE [op |-> "notfound"]
  /\ UNCHANGED vars

\* A decision without its audit row is answered without its ladder.
hydrateLadder ==
  /\ reader.op = "explain"
  /\ reader' = [op |-> "explained", ladder |-> audit[reader.id] > 0]
  /\ UNCHANGED vars

(***************************************************************************)
(* Aggregate.  The transaction is REPEATABLE READ: its second statement    *)
(* reads what the first one did.                                           *)
(***************************************************************************)

LedgerRows == {d \in Written : Row[d].tenant = Tenant}

Group(ds, key) == {d \in ds : Row[d].key = key}

\* ORDER BY cost_nanos DESC, requests DESC
Dearer(a, b) == Cost(a) > Cost(b) \/ (Cost(a) = Cost(b) /\ Cardinality(a) > Cardinality(b))

AggregateUsage ==
  /\ reader = Idle
  /\ LET keys == {Row[d].key : d \in LedgerRows}
     IN  \E shown \in SUBSET keys :
           /\ Cardinality(shown) = IF Cardinality(keys) > ReportLimit THEN ReportLimit ELSE Cardinality(keys)
           /\ \A k \in shown, j \in keys \ shown : ~Dearer(Group(LedgerRows, j), Group(LedgerRows, k))
           /\ reader' = [op |-> "report", snapshot |-> LedgerRows, totalGroups |-> Cardinality(keys),
                         rows |-> [k \in shown |-> Group(LedgerRows, k)]]
  /\ UNCHANGED vars

\* Mutation: the transaction is READ COMMITTED.
SnapshotNow == LedgerRows

Snapshot == reader.snapshot

AggregateCounterfactuals(key) == {d \in Group(Snapshot, key) : Row[d].compared}

totalise(rows, comparisons) ==
  [requests |-> Total(DOMAIN rows, [k \in DOMAIN rows |-> Cardinality(rows[k])]),
   cost |-> Total(DOMAIN rows, [k \in DOMAIN rows |-> Cost(rows[k])]),
   compared |-> Total(DOMAIN rows, [k \in DOMAIN rows |-> Cardinality(comparisons[k])])]

attachComparisons ==
  /\ reader.op = "report"
  /\ LET comparisons == [k \in DOMAIN reader.rows |-> AggregateCounterfactuals(k)]
     IN  reader' = [op |-> "reported", snapshot |-> reader.snapshot, rows |-> reader.rows, comparisons |-> comparisons,
                    total |-> totalise(reader.rows, comparisons),
                    truncatedGroups |-> reader.totalGroups - Cardinality(DOMAIN reader.rows)]
  /\ UNCHANGED vars

(***************************************************************************)
(* ListAudit, newest first: each page is one query, and its cursor, if it  *)
(* has one, is handed back for the next.                                   *)
(***************************************************************************)

\* (ts, id), in the order of the query.
Newer(a, b) == a.ts > b.ts \/ (a.ts = b.ts /\ a.id > b.id)

Position(d) == [ts |-> Row[d].ts, id |-> d]

encodeCursor(c) == <<"1", c.ts, c.id>>

decodeCursor(s) == [ts |-> s[2], id |-> s[3]]

\* Mutation: the cursor tells rows apart by their time alone.
PastOlder(d, cursor) == cursor = <<>> \/ Row[d].ts < decodeCursor(cursor).ts

Past(d, cursor) == cursor = <<>> \/ Newer(decodeCursor(cursor), Position(d))

AuditRows == {d \in Decisions : audit[d] > 0 /\ Row[d].tenant = Tenant}

\* page is ds in the order of the query, as far as the limit.
FirstRows(ds, page) ==
  /\ \A i, j \in DOMAIN page : i < j => Newer(Position(page[i]), Position(page[j]))
  /\ \A d \in ds \ ToSet(page), i \in DOMAIN page : Newer(Position(page[i]), Position(d))

\* One row more than the page holds is asked for; it says whether there is another page.
ListAudit ==
  /\ reader = Idle \/ reader.op = "walk"
  /\ LET r    == IF reader = Idle THEN [held |-> AuditRows, seen |-> <<>>, cursor |-> <<>>] ELSE reader
         rest == {d \in AuditRows : Past(d, r.cursor)}
         more == Cardinality(rest) > PageLimit
     IN  \E page \in [1..(IF more THEN PageLimit ELSE Cardinality(rest)) -> rest] :
           /\ FirstRows(rest, page)
           /\ reader' = [op |-> IF more THEN "walk" ELSE "walked", held |-> r.held, seen |-> r.seen \o page,
                         empty |-> page = <<>> /\ r.seen # <<>>,
                         cursor |-> IF more THEN encodeCursor(Position(Last(page))) ELSE <<>>]
  /\ UNCHANGED vars

-----------------------------------------------------------------------------

Read == (\E d \in Decisions : Get(d)) \/ hydrateLadder \/ AggregateUsage \/ attachComparisons \/ ListAudit

ObsNext == (Next /\ UNCHANGED reader) \/ Read

ObsSpec == ObsInit /\ [][ObsNext]_obsVars /\ Fairness

(***************************************************************************)
(* Properties.                                                             *)
(***************************************************************************)

\* A read that runs while batches commit sees whole decisions: explain never has to
\* answer without the ladder; a report compares exactly the requests it counts, in each
\* group and in total, counts every one there was unless it says how many groups it
\* left out, and leaves out none that cost more than one it shows.
ReadsConsistent ==
  /\ reader.op = "explained" => reader.ladder
  /\ reader.op = "reported" =>
       LET shown == UNION {reader.rows[k] : k \in DOMAIN reader.rows}
           cut   == reader.snapshot \ shown
       IN  /\ \A k \in DOMAIN reader.rows : reader.comparisons[k] = {d \in reader.rows[k] : Row[d].compared}
           /\ reader.total = [requests |-> Cardinality(shown), cost |-> Cost(shown),
                              compared |-> Cardinality({d \in shown : Row[d].compared})]
           /\ reader.truncatedGroups = Cardinality({Row[d].key : d \in cut})
           /\ \A d \in cut, k \in DOMAIN reader.rows : Cost(Group(cut, Row[d].key)) <= Cost(reader.rows[k])

\* A walk through the audit log while batches commit, late ones with older times among
\* them: newest first, no row twice, no row that was there at its start left out, and
\* no page after the first is empty.
PageWalk ==
  reader.op \in {"walk", "walked"} =>
    /\ \A i, j \in DOMAIN reader.seen : i < j => Newer(Position(reader.seen[i]), Position(reader.seen[j]))
    /\ reader.op = "walked" => reader.held \subseteq ToSet(reader.seen)
    /\ ~reader.empty
=============================================================================
