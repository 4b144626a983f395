--------------------------- MODULE AdminTxProofs ---------------------------
(***************************************************************************)
(* The audit log of the admin service, for every set of callers, tenants,  *)
(* keys, quotas and credentials, any number of transactions in flight and  *)
(* any failures: replayed in the order of its times it gives the tables as *)
(* committed, every row was legal when it was written, and every answer    *)
(* and every access is explained by it.  What a set of rows tells (Told)   *)
(* is defined without an order; the lock of each operation keeps the rows  *)
(* of one object in the order of their times, so that the order of commits *)
(* and the order of times tell the same.                                   *)
(***************************************************************************)
EXTENDS AdminTx, FiniteSetTheorems, WellFoundedInduction, TLAPS

\* The actions of the audit log, by what they are about.
TenantActs == {"tenant.create", "tenant.update", "tenant.disable", "tenant.enable"}
KeyActs == {"key.create", "key.update", "key.revoke"}
QuotaActs == {"quota.replace", "quota.upsert", "quota.delete"}
CredActs == {"admin_credential.create", "admin_credential.revoke"}

\* Rows of the tables.
TenantRow == [id : Nat, ext : Exts, doc : Docs, disabled : BOOLEAN]
KeyRow == [id : Nat, tenant : Nat, allow : Allows, revoked : BOOLEAN]
QuotaRow == [tenant : Nat, kind : Kinds, limit : Limits]
CredRow == [id : Nat, name : Names, role : Roles, revoked : BOOLEAN]
CredName == [name : Names, role : Roles]

\* What a row of the audit log looks like, by its action.
RowOK(r) ==
  /\ r.at \in Nat /\ r.at > 0 /\ r.tenant \in Nat /\ r.key \in Nat
  /\ r.action \in TenantActs \cup KeyActs \cup QuotaActs \cup CredActs
  /\ r.action \in TenantActs => r.tenant > 0 /\ r.key = 0 /\ r.detail \in TenantRow /\ r.detail.id = r.tenant
  /\ r.action \in KeyActs =>
       r.tenant > 0 /\ r.key > 0 /\ r.detail \in KeyRow /\ r.detail.id = r.key /\ r.detail.tenant = r.tenant
  /\ r.action \in QuotaActs => r.tenant > 0 /\ r.key = 0
  /\ r.action \in {"quota.replace", "quota.upsert"} =>
       r.detail \in SUBSET QuotaRow /\ \A q \in r.detail : q.tenant = r.tenant
  /\ r.action = "quota.delete" => r.detail \in Kinds
  /\ r.action \in CredActs => r.tenant = 0 /\ r.key = 0 /\ r.detail \in CredName

(***************************************************************************)
(* What a set of rows says of the tables: of each object, its last row.    *)
(***************************************************************************)

\* x is the last row of S about its tenant; its detail is the tenant it left.
LastTenant(S, x) == x.action \in TenantActs /\ \A y \in S : y.action \in TenantActs /\ y.tenant = x.tenant => y.at <= x.at
TenantsOf(S) == {x.detail : x \in {y \in S : LastTenant(S, y)}}

\* x is the last row of S about its key; its detail is the key it left.
LastKey(S, x) == x.action \in KeyActs /\ \A y \in S : y.action \in KeyActs /\ y.key = x.key => y.at <= x.at
KeysOf(S) == {x.detail : x \in {y \in S : LastKey(S, y)}}

\* r removes a quota like q before it adds those it names.
Clears(r, q) ==
  \/ r.action = "quota.replace" /\ q.tenant = r.tenant
  \/ r.action = "quota.upsert" /\ \E n \in r.detail : q.tenant = n.tenant /\ q.kind = n.kind
  \/ r.action = "quota.delete" /\ q.tenant = r.tenant /\ q.kind = r.detail
\* The quotas r names.
Adds(r) == IF r.action \in {"quota.replace", "quota.upsert"} THEN r.detail ELSE {}
\* No row of S after x, which names q, removes it.
LastQuota(S, x, q) == q \in Adds(x) /\ \A y \in S : Clears(y, q) => y.at <= x.at
QuotasOf(S) == {q \in UNION {Adds(x) : x \in S} : \E x \in S : LastQuota(S, x, q)}

\* The credentials created and not revoked.
CredsOf(S) ==
  {c \in CredName : /\ \E x \in S : x.action = "admin_credential.create" /\ x.detail = c
                    /\ \A y \in S : ~(y.action = "admin_credential.revoke" /\ y.detail = c)}

\* The tables as S tells them.
Told(S) == [tenants |-> TenantsOf(S), keys |-> KeysOf(S), quotas |-> QuotasOf(S), creds |-> CredsOf(S)]

\* Two rows about the same tenant, the same key or the same credential.
Same(a, b) ==
  \/ a.tenant > 0 /\ a.tenant = b.tenant
  \/ a.key > 0 /\ a.key = b.key
  \/ a.action \in CredActs /\ b.action \in CredActs /\ a.detail.name = b.detail.name

\* b may come after a.
Follows(a, b) ==
  /\ Same(a, b) => a.at < b.at
  /\ a.action = "admin_credential.revoke" /\ b.action = "admin_credential.create" => a.detail.name # b.detail.name

\* A row after those of S replaces the tenant it is about, or leaves the tenants alone.
LEMMA TenantsAdd ==
  ASSUME NEW S, \A x \in S : RowOK(x), NEW r, RowOK(r), \A x \in S : Follows(x, r)
  PROVE  TenantsOf(S \cup {r}) =
           IF r.action \in TenantActs THEN Replace(TenantsOf(S), r.tenant, r.detail) ELSE TenantsOf(S)
<1>1. CASE r.action \in TenantActs
  <2> DEFINE N == S \cup {r}
  <2>1. LastTenant(N, r)
    BY <1>1 DEF LastTenant, Follows, Same, RowOK
  <2>2. \A x \in S : LastTenant(N, x) <=> LastTenant(S, x) /\ x.tenant # r.tenant
    <3> TAKE x \in S
    <3>1. RowOK(x) /\ Follows(x, r) /\ x.at \in Nat /\ r.at \in Nat /\ (x.tenant = r.tenant => x.at < r.at)
      BY <1>1 DEF RowOK, Follows, Same
    <3> QED BY <1>1, <3>1 DEF LastTenant
  <2>3. \A x \in S : LastTenant(S, x) => x.detail.id = x.tenant
    BY DEF LastTenant, RowOK
  <2>4. TenantsOf(N) = {x.detail : x \in {y \in S : LastTenant(S, y) /\ y.tenant # r.tenant}} \cup {r.detail}
    BY <2>1, <2>2 DEF TenantsOf
  <2>5. Replace(TenantsOf(S), r.tenant, r.detail) = {x.detail : x \in {y \in S : LastTenant(S, y) /\ y.tenant # r.tenant}} \cup {r.detail}
    BY <2>3 DEF TenantsOf, Replace
  <2> QED BY <1>1, <2>4, <2>5
<1>2. CASE r.action \notin TenantActs
  <2>1. \A x \in S \cup {r} : LastTenant(S \cup {r}, x) <=> x \in S /\ LastTenant(S, x)
    BY <1>2 DEF LastTenant
  <2> QED BY <1>2, <2>1 DEF TenantsOf
<1> QED BY <1>1, <1>2

\* A row after those of S replaces the key it is about, or leaves the keys alone.
LEMMA KeysAdd ==
  ASSUME NEW S, \A x \in S : RowOK(x), NEW r, RowOK(r), \A x \in S : Follows(x, r)
  PROVE  KeysOf(S \cup {r}) =
           IF r.action \in KeyActs THEN Replace(KeysOf(S), r.key, r.detail) ELSE KeysOf(S)
<1>1. CASE r.action \in KeyActs
  <2> DEFINE N == S \cup {r}
  <2>1. LastKey(N, r)
    BY <1>1 DEF LastKey, Follows, Same, RowOK
  <2>2. \A x \in S : LastKey(N, x) <=> LastKey(S, x) /\ x.key # r.key
    <3> TAKE x \in S
    <3>1. RowOK(x) /\ Follows(x, r) /\ x.at \in Nat /\ r.at \in Nat /\ (x.key = r.key => x.at < r.at)
      BY <1>1 DEF RowOK, Follows, Same
    <3> QED BY <1>1, <3>1 DEF LastKey
  <2>3. \A x \in S : LastKey(S, x) => x.detail.id = x.key
    BY DEF LastKey, RowOK
  <2>4. KeysOf(N) = {x.detail : x \in {y \in S : LastKey(S, y) /\ y.key # r.key}} \cup {r.detail}
    BY <2>1, <2>2 DEF KeysOf
  <2>5. Replace(KeysOf(S), r.key, r.detail) = {x.detail : x \in {y \in S : LastKey(S, y) /\ y.key # r.key}} \cup {r.detail}
    BY <2>3 DEF KeysOf, Replace
  <2> QED BY <1>1, <2>4, <2>5
<1>2. CASE r.action \notin KeyActs
  <2>1. \A x \in S \cup {r} : LastKey(S \cup {r}, x) <=> x \in S /\ LastKey(S, x)
    BY <1>2 DEF LastKey
  <2> QED BY <1>2, <2>1 DEF KeysOf
<1> QED BY <1>1, <1>2

\* A row after those of S removes the quotas it clears and adds those it names.
LEMMA QuotasAdd ==
  ASSUME NEW S, \A x \in S : RowOK(x), NEW r, RowOK(r), \A x \in S : Follows(x, r)
  PROVE  QuotasOf(S \cup {r}) = {q \in QuotasOf(S) : ~Clears(r, q)} \cup Adds(r)
<1> DEFINE N == S \cup {r}
<1>1. \A q \in Adds(r) : q \in QuotaRow /\ Clears(r, q)
  BY DEF Adds, Clears, RowOK
<1>2. \A x \in S, q \in QuotaRow : (Clears(x, q) \/ q \in Adds(x)) => x.tenant = q.tenant /\ x.tenant > 0
  BY DEF Clears, Adds, RowOK, QuotaActs
<1>3. \A q \in QuotaRow : Clears(r, q) => r.tenant = q.tenant
  BY DEF Clears, Adds, RowOK, QuotaActs
<1>4. r.at \in Nat /\ \A x \in S : x.at \in Nat /\ (x.tenant = r.tenant /\ x.tenant > 0 => x.at < r.at)
  BY DEF RowOK, Follows, Same
<1>5. \A q \in Adds(r) : LastQuota(N, r, q)
  BY <1>1, <1>2, <1>3, <1>4 DEF LastQuota
<1>6. \A x \in S, q \in QuotaRow : LastQuota(N, x, q) <=> LastQuota(S, x, q) /\ ~Clears(r, q)
  <2> TAKE x \in S, q \in QuotaRow
  <2>1. q \in Adds(x) /\ Clears(r, q) => ~(r.at <= x.at)
    BY <1>2, <1>3, <1>4
  <2> QED BY <2>1 DEF LastQuota
<1>7. \A q : LastQuota(N, r, q) => q \in Adds(r)
  BY DEF LastQuota
<1>8. \A q : q \in QuotasOf(S) <=> q \in QuotaRow /\ \E x \in S : LastQuota(S, x, q)
  <2>1. \A x \in S : Adds(x) \subseteq QuotaRow
    BY DEF Adds, RowOK
  <2> QED BY <2>1 DEF QuotasOf, LastQuota
<1>9. \A q : q \in QuotasOf(N) <=> q \in QuotaRow /\ \E x \in N : LastQuota(N, x, q)
  <2>1. \A x \in N : Adds(x) \subseteq QuotaRow
    BY DEF Adds, RowOK
  <2> QED BY <2>1 DEF QuotasOf, LastQuota
<1> HIDE DEF N
<1> QED BY <1>1, <1>5, <1>6, <1>7, <1>8, <1>9 DEF N

\* A row after those of S adds the credential it creates, or removes the one it revokes.
LEMMA CredsAdd ==
  ASSUME NEW S, \A x \in S : RowOK(x), NEW r, RowOK(r), \A x \in S : Follows(x, r)
  PROVE  CredsOf(S \cup {r}) =
           IF r.action = "admin_credential.create" THEN CredsOf(S) \cup {r.detail}
           ELSE IF r.action = "admin_credential.revoke" THEN CredsOf(S) \ {r.detail}
           ELSE CredsOf(S)
<1>1. CASE r.action = "admin_credential.create"
  <2>1. r.detail \in CredName
    BY <1>1 DEF RowOK, CredActs
  <2>2. \A y \in S : ~(y.action = "admin_credential.revoke" /\ y.detail = r.detail)
    BY <1>1 DEF Follows
  <2> QED BY <1>1, <2>1, <2>2 DEF CredsOf
<1>2. CASE r.action = "admin_credential.revoke"
  BY <1>2 DEF CredsOf
<1>3. CASE r.action \notin CredActs
  BY <1>3 DEF CredsOf, CredActs
<1> QED BY <1>1, <1>2, <1>3 DEF CredActs

\* What S and one later row tell is what S tells, with that row replayed.
LEMMA ToldAdd ==
  ASSUME NEW S, \A x \in S : RowOK(x), NEW r, RowOK(r), \A x \in S : Follows(x, r)
  PROVE  Told(S \cup {r}) = Replayed(Told(S), r)
<1> DEFINE N == S \cup {r}
<1>a. TenantsOf(N) = IF r.action \in TenantActs THEN Replace(TenantsOf(S), r.tenant, r.detail) ELSE TenantsOf(S)
  BY TenantsAdd
<1>b. KeysOf(N) = IF r.action \in KeyActs THEN Replace(KeysOf(S), r.key, r.detail) ELSE KeysOf(S)
  BY KeysAdd
<1>c. QuotasOf(N) = {q \in QuotasOf(S) : ~Clears(r, q)} \cup Adds(r)
  BY QuotasAdd
<1>d. CredsOf(N) = IF r.action = "admin_credential.create" THEN CredsOf(S) \cup {r.detail}
                   ELSE IF r.action = "admin_credential.revoke" THEN CredsOf(S) \ {r.detail}
                   ELSE CredsOf(S)
  BY CredsAdd
<1> HIDE DEF N
<1> SUFFICES Told(N) = Replayed(Told(S), r)
  BY DEF N
<1>1. CASE r.action \in TenantActs
  <2>1. /\ r.action \notin KeyActs /\ r.action \notin CredActs /\ Adds(r) = {} /\ \A q : ~Clears(r, q)
    BY <1>1 DEF TenantActs, KeyActs, CredActs, Adds, Clears
  <2>2. Replayed(Told(S), r) = [Told(S) EXCEPT !.tenants = Replace(@, r.tenant, r.detail)]
    BY <1>1 DEF Replayed, TenantActs
  <2> QED BY <1>1, <2>1, <2>2, <1>a, <1>b, <1>c, <1>d DEF Told, CredActs
<1>2. CASE r.action \in KeyActs
  <2>1. /\ r.action \notin TenantActs /\ r.action \notin CredActs /\ Adds(r) = {} /\ \A q : ~Clears(r, q)
    BY <1>2 DEF TenantActs, KeyActs, CredActs, Adds, Clears
  <2>2. Replayed(Told(S), r) = [Told(S) EXCEPT !.keys = Replace(@, r.key, r.detail)]
    BY <1>2 DEF Replayed, KeyActs
  <2> QED BY <1>2, <2>1, <2>2, <1>a, <1>b, <1>c, <1>d DEF Told, CredActs
<1>3. CASE r.action \in QuotaActs
  <2>1. /\ r.action \notin TenantActs /\ r.action \notin CredActs /\ r.action \notin KeyActs
    BY <1>3 DEF TenantActs, KeyActs, CredActs, QuotaActs
  <2>2. Replayed(Told(S), r) = [Told(S) EXCEPT !.quotas = {q \in @ : ~Clears(r, q)} \cup Adds(r)]
    <3>1. CASE r.action = "quota.replace"
      BY <3>1 DEF Replayed, Clears, Adds, Told
    <3>2. CASE r.action = "quota.upsert"
      BY <3>2 DEF Replayed, Clears, Adds, Told
    <3>3. CASE r.action = "quota.delete"
      BY <3>3 DEF Replayed, Clears, Adds, Told
    <3> QED BY <1>3, <3>1, <3>2, <3>3 DEF QuotaActs
  <2> QED BY <1>3, <2>1, <2>2, <1>a, <1>b, <1>c, <1>d DEF Told, CredActs
<1>4. CASE r.action \in CredActs
  <2>1. /\ r.action \notin TenantActs /\ r.action \notin KeyActs /\ Adds(r) = {} /\ \A q : ~Clears(r, q)
    BY <1>4 DEF TenantActs, KeyActs, CredActs, Adds, Clears
  <2>2. TenantsOf(N) = TenantsOf(S) /\ KeysOf(N) = KeysOf(S) /\ QuotasOf(N) = QuotasOf(S)
    BY <2>1, <1>a, <1>b, <1>c
  <2>3. CASE r.action = "admin_credential.create"
    BY <2>2, <2>3, <1>d DEF Told, Replayed
  <2>4. CASE r.action = "admin_credential.revoke"
    BY <2>2, <2>4, <1>d DEF Told, Replayed
  <2> QED BY <1>4, <2>3, <2>4 DEF CredActs
<1> QED BY <1>1, <1>2, <1>3, <1>4 DEF RowOK

(***************************************************************************)
(* Replaying rows by their times gives what they say of the tables.        *)
(***************************************************************************)

\* Induction over the naturals, for a set: the least number outside P would follow one in P.
LEMMA NatInd ==
  ASSUME NEW P, 0 \in P, \A n \in Nat : n \in P => n + 1 \in P
  PROVE  Nat \subseteq P
<1> SUFFICES ASSUME NEW m \in Nat, m \notin P PROVE FALSE
  OBVIOUS
<1> DEFINE T == {1..n : n \in Nat \ P}
<1>1. T \subseteq FiniteSubsetsOf(Nat)
  <2> SUFFICES ASSUME NEW n \in Nat PROVE 1..n \in FiniteSubsetsOf(Nat)
    OBVIOUS
  <2>1. IsFiniteSet(1..n)
    BY FS_Interval
  <2> QED BY <2>1 DEF FiniteSubsetsOf
<1>2. T # {}
  OBVIOUS
<1>3. IsWellFoundedOn(StrictSubsetOrdering(Nat), FiniteSubsetsOf(Nat))
  BY FS_StrictSubsetOrderingWellFounded
<1>4. PICK x \in T : \A y \in T : ~(<<y, x>> \in StrictSubsetOrdering(Nat))
  <2> HIDE DEF T
  <2> QED BY <1>1, <1>2, <1>3, WFMin
<1>5. PICK n \in Nat \ P : x = 1..n
  OBVIOUS
<1>6. n # 0
  OBVIOUS
<1>7. n - 1 \in Nat /\ (n - 1) + 1 = n
  BY <1>6
<1>8. n - 1 \notin P
  BY <1>7
<1>9. 1..(n - 1) \in T
  BY <1>7, <1>8
<1>10. /\ 1..(n - 1) \in SUBSET Nat /\ 1..n \in SUBSET Nat
       /\ 1..(n - 1) \subseteq 1..n
       /\ n \in 1..n /\ n \notin 1..(n - 1)
  BY <1>6
<1>11. <<1..(n - 1), 1..n>> \in StrictSubsetOrdering(Nat)
  BY <1>10 DEF StrictSubsetOrdering
<1> QED BY <1>4, <1>5, <1>9, <1>11

\* A nonempty set of naturals has a least element.
LEMMA Least ==
  ASSUME NEW A, A \subseteq Nat, A # {}
  PROVE  \E m \in A : \A n \in A : m <= n
<1> SUFFICES ASSUME \A m \in A : \E n \in A : ~(m <= n) PROVE FALSE
  OBVIOUS
<1> DEFINE P == {n \in Nat : \A m \in A : n <= m}
<1>1. 0 \in P
  OBVIOUS
<1>2. \A n \in Nat : n \in P => n + 1 \in P
  OBVIOUS
<1>3. Nat \subseteq P
  <2> HIDE DEF P
  <2> QED BY <1>1, <1>2, NatInd
<1>4. PICK a \in A : TRUE
  OBVIOUS
<1>5. a + 1 \in P
  BY <1>3
<1> QED BY <1>5

\* What the rows of instant t make of the state before it.
Instant(rows, s, t) == IF {r \in rows : r.at = t} = {} THEN s ELSE Replayed(s, The({r \in rows : r.at = t}))

\* The replay, unfolded: nothing at instant 0, then one instant after the other.
LEMMA StatesStep ==
  ASSUME clock \in Nat, NEW rows
  PROVE  /\ States(rows)[0] = Empty
         /\ \A t \in 1..clock : States(rows)[t] = Instant(rows, States(rows)[t - 1], t)
<1> DEFINE Def(f, n) == f = [t \in 0..n |-> IF t = 0 THEN Empty ELSE Instant(rows, f[t - 1], t)]
           P == {n \in Nat : \E f : Def(f, n)}
<1>1. 0 \in P
  <2> DEFINE f == [t \in 0..0 |-> Empty]
  <2>1. Def(f, 0)
    OBVIOUS
  <2> QED BY <2>1
<1>2. ASSUME NEW n \in Nat, n \in P PROVE n + 1 \in P
  <2>1. PICK f : Def(f, n)
    BY <1>2
  <2> DEFINE g == [t \in 0..(n + 1) |-> IF t <= n THEN f[t] ELSE Instant(rows, f[n], n + 1)]
  <2>2. ASSUME NEW t \in 0..(n + 1)
        PROVE  g[t] = IF t = 0 THEN Empty ELSE Instant(rows, g[t - 1], t)
    <3>1. CASE t = 0
      BY <2>1, <3>1
    <3>2. CASE t # 0 /\ t <= n
      <4>1. t \in 0..n /\ t - 1 \in 0..n /\ t - 1 \in 0..(n + 1) /\ t - 1 <= n
        BY <3>2
      <4>2. f[t] = Instant(rows, f[t - 1], t)
        BY <2>1, <4>1, <3>2
      <4> QED BY <3>2, <4>1, <4>2
    <3>3. CASE t = n + 1
      <4>1. t # 0 /\ t - 1 = n /\ n \in 0..(n + 1) /\ n <= n /\ ~(t <= n)
        BY <3>3
      <4> QED BY <3>3, <4>1
    <3> QED BY <3>1, <3>2, <3>3
  <2>3. Def(g, n + 1)
    BY <2>2
  <2> HIDE DEF g
  <2> QED BY <2>3
<1>3. clock \in P
  <2> HIDE DEF P
  <2> QED BY <1>1, <1>2, NatInd
<1>4. PICK f : Def(f, clock)
  BY <1>3
<1>5. States(rows) = CHOOSE s : Def(s, clock)
  BY DEF States, Instant
<1>6. Def(States(rows), clock)
  BY <1>4, <1>5
<1>7. ASSUME NEW t \in 0..clock
      PROVE  States(rows)[t] = IF t = 0 THEN Empty ELSE Instant(rows, States(rows)[t - 1], t)
  BY <1>6
<1> QED BY <1>7

\* The rows written until t.
Upto(rows, t) == {r \in rows : r.at <= t}

\* Rows that can be put in order by their times.
Timely(rows) ==
  /\ \A r \in rows : RowOK(r) /\ r.at <= clock
  /\ \A a, b \in rows : a.at = b.at => a = b
  /\ \A a, b \in rows : a.at < b.at => Follows(a, b)

\* Replaying rows in the order of their times up to t gives what the rows until t tell.
LEMMA StatesTell ==
  ASSUME clock \in Nat, NEW rows, Timely(rows)
  PROVE  \A t \in 0..clock : States(rows)[t] = Told(Upto(rows, t))
<1> DEFINE P == {n \in Nat : n <= clock => States(rows)[n] = Told(Upto(rows, n))}
<1>1. 0 \in P
  <2>1. Upto(rows, 0) = {}
    BY DEF Upto, Timely, RowOK
  <2>2. Told({}) = Empty
    BY DEF Told, TenantsOf, KeysOf, QuotasOf, CredsOf, Empty
  <2> QED BY <2>1, <2>2, StatesStep
<1>2. ASSUME NEW n \in Nat, n \in P PROVE n + 1 \in P
  <2> SUFFICES ASSUME n + 1 <= clock PROVE States(rows)[n + 1] = Told(Upto(rows, n + 1))
    OBVIOUS
  <2> DEFINE S == Upto(rows, n)
             now == {r \in rows : r.at = n + 1}
  <2>1. States(rows)[n] = Told(S)
    BY <1>2
  <2>2. States(rows)[n + 1] = Instant(rows, Told(S), n + 1)
    <3>1. n + 1 \in 1..clock /\ (n + 1) - 1 = n
      OBVIOUS
    <3> QED BY <2>1, <3>1, StatesStep
  <2>3. Upto(rows, n + 1) = S \cup now
    BY DEF Upto, Timely, RowOK
  <2>4. CASE now = {}
    BY <2>2, <2>3, <2>4 DEF Instant
  <2>5. CASE now # {}
    <3>1. PICK r \in rows : r.at = n + 1
      BY <2>5
    <3>2. now = {r}
      BY <3>1 DEF Timely
    <3>3. The(now) = r
      BY <3>2 DEF The
    <3>4. Told(S \cup {r}) = Replayed(Told(S), r)
      <4>1. \A x \in S : RowOK(x) /\ Follows(x, r)
        BY <3>1 DEF Upto, Timely, RowOK
      <4>2. RowOK(r)
        BY DEF Timely
      <4> HIDE DEF S
      <4> QED BY <4>1, <4>2, ToldAdd
    <3> QED BY <2>2, <2>3, <2>5, <3>2, <3>3, <3>4 DEF Instant
  <2> QED BY <2>4, <2>5
<1>3. Nat \subseteq P
  <2> HIDE DEF P
  <2> QED BY <1>1, <1>2, NatInd
<1> QED BY <1>3

\* The replay of timely rows is what they say.
LEMMA ReplayTells ==
  ASSUME clock \in Nat, NEW rows, Timely(rows)
  PROVE  Replay(rows) = Told(rows)
<1>1. Upto(rows, clock) = rows
  BY DEF Upto, Timely
<1> QED BY <1>1, StatesTell DEF Replay

(***************************************************************************)
(* The inductive invariant.                                                *)
(***************************************************************************)

\* The rows committed.
Log == Rows(Len(log))

\* The tables as the log can tell them: without the credentials that are revoked.
View == [db EXCEPT !.creds = Live(db.creds)]

\* The rows of audit_log.
AuditRow ==
  [at : Nat, auth : Nat, actor : Names \cup {"cli"}, action : TenantActs \cup KeyActs \cup QuotaActs \cup CredActs,
   tenant : Nat, key : Nat, detail : TenantRow \cup KeyRow \cup (SUBSET QuotaRow) \cup Kinds \cup CredName]

\* The constraints of the tables: keys, the unique columns and the foreign key.
DbOK ==
  /\ db \in [tenants : SUBSET TenantRow, keys : SUBSET KeyRow, quotas : SUBSET QuotaRow, creds : SUBSET CredRow]
  /\ \A a, b \in db.tenants : a.id = b.id \/ a.ext = b.ext => a = b
  /\ \A a, b \in db.keys : a.id = b.id => a = b
  /\ \A k \in db.keys : \E t \in db.tenants : t.id = k.tenant
  /\ \A a, b \in db.creds : a.name = b.name => a = b

\* r is legal after the changes that led to s.
Legal(s, r) ==
  LET t == {x \in s.tenants : x.id = r.tenant}
      k == {x \in s.keys : x.id = r.key}
  IN  /\ r.action \in TenantActs => t # {r.detail}
      /\ r.action \in KeyActs => k # {r.detail}
      /\ r.action \in QuotaActs => {q \in s.quotas : Clears(r, q)} # Adds(r)
      /\ r.action = "admin_credential.create" => r.detail \notin s.creds
      /\ r.action = "admin_credential.revoke" => r.detail \in s.creds
      /\ r.action = "tenant.create" => \A x \in s.tenants : x.ext # r.detail.ext
      /\ r.action = "key.create" => k = {} /\ \A x \in t : ~x.disabled
      /\ r.action \in {"key.update", "key.revoke"} => \A x \in k : ~x.revoked
      /\ r.tenant > 0 => (r.action = "tenant.create" <=> t = {})

\* No credential was created under the name of r before.
FirstOfName(S, r) ==
  r.action = "admin_credential.create" => \A x \in S : x.action \in CredActs => x.detail.name # r.detail.name

\* The log is in order: rows of one object by their times, each legal where it was
\* committed, each made by an administrator who was one when the call was let in.
LogOK ==
  /\ log \in Seq(AuditRow)
  /\ \A r \in Log : RowOK(r) /\ r.at <= clock /\ r.auth <= Len(log)
  /\ \A i, j \in 1..Len(log) : i < j => log[i].at # log[j].at /\ Follows(log[i], log[j])
  /\ \A i \in 1..Len(log) : Legal(Told(Rows(i - 1)), log[i]) /\ FirstOfName(Rows(i - 1), log[i])
  /\ \A r \in Log : r.actor # "cli" => [name |-> r.actor, role |-> "admin"] \in CredsOf(Rows(r.auth))

\* Each row's object is in the tables, and each object has the row of its creation.
Linked ==
  /\ \A r \in Log : r.tenant > 0 => \E t \in db.tenants : t.id = r.tenant /\ (r.action \in TenantActs => t.ext = r.detail.ext)
  /\ \A r \in Log : r.action \in KeyActs => \E k \in db.keys : k.id = r.key /\ k.tenant = r.tenant
  /\ \A r \in Log : r.action \in CredActs => \E x \in db.creds : x.name = r.detail.name /\ x.role = r.detail.role
  /\ \A t \in db.tenants : \E r \in Log : r.action = "tenant.create" /\ r.tenant = t.id /\ r.detail.ext = t.ext
  /\ \A t \in db.tenants : \E r \in Log : r.action \in {"tenant.create", "tenant.update"} /\ r.detail.ext = t.ext /\ r.detail.doc = t.doc
  /\ \A k \in db.keys : \E r \in Log : r.action = "key.create" /\ r.key = k.id
  /\ \A x \in db.creds : \E r \in Log : r.action = "admin_credential.create" /\ r.detail.name = x.name
  /\ \A r \in Log : (r.action = "tenant.create" => r.tenant = r.at) /\ (r.action = "key.create" => r.key = r.at)

\* The requests, by what they name.
RefOps == {"UpdateTenant", "DisableTenant", "EnableTenant", "CreateAPIKey", "ReplaceQuotas", "PutQuota", "DeleteQuota"}
KeyOps == {"UpdateAPIKey", "RevokeAPIKey"}
CredOps == {"CreateCredential", "RevokeCredential"}

ReqOK(req) ==
  /\ req.op \in {"CreateTenant"} \cup RefOps \cup KeyOps \cup CredOps
  /\ req.op = "CreateTenant" => req.ext \in Exts
  /\ req.op \in {"CreateTenant", "UpdateTenant"} => req.doc \in Docs
  /\ "ref" \in DOMAIN req <=> req.op \in RefOps
  /\ "key" \in DOMAIN req <=> req.op \in KeyOps
  /\ req.op \in KeyOps => req.key \in Nat
  /\ req.op \in {"CreateAPIKey", "UpdateAPIKey"} => req.allow \in Allows
  /\ req.op = "ReplaceQuotas" => \E ks \in SUBSET Kinds : req.set \in [ks -> Limits]
  /\ req.op \in {"PutQuota", "DeleteQuota"} => req.kind \in Kinds
  /\ req.op = "PutQuota" => req.limit \in Limits
  /\ req.op \in CredOps => req.name \in Names
  /\ req.op = "CreateCredential" => req.role \in Roles

\* Who makes a call was let in on the log as it was.
LetIn(actor, auth) ==
  /\ actor \in Names \cup {"cli"} /\ auth \in 0..Len(log)
  /\ actor # "cli" => [name |-> actor, role |-> "admin"] \in CredsOf(Rows(auth))

\* A call that was let in.
BegunOK(req, actor, auth) == ReqOK(req) /\ LetIn(actor, auth)

\* What a call read before its lock is still there, if not as it was.
ReadOK(req, actor, auth, seen, at) ==
  /\ ReqOK(req) /\ LetIn(actor, auth)
  /\ req.op \in RefOps => \E t \in db.tenants : t.id = seen.id
  /\ req.op \in KeyOps => \E k \in db.keys : k.id = seen.id /\ k.tenant = seen.tenant
  /\ req.op = "RevokeCredential" =>
       /\ \E x \in db.creds : x.name = req.name /\ x.role = seen.role
       /\ \A r \in Log : r.action = "admin_credential.create" /\ r.detail.name = req.name => r.at < at

\* The times calls hold: a command's from when it read, a change's from its lock.
Stamped(v) == v.pc = "held" \/ (v.pc = "read" /\ IsCommand(v.req))
Stamp(v) == IF v.pc = "held" THEN v.row.at ELSE v.at

\* No two calls hold one time, and no row has the time a call holds.
StampsOK ==
  /\ clock \in Nat
  /\ \A c \in Calls : Stamped(call[c]) => Stamp(call[c]) \in 1..clock /\ \A r \in Log : r.at # Stamp(call[c])
  /\ \A c, o \in Calls : c # o /\ Stamped(call[c]) /\ Stamped(call[o]) => Stamp(call[c]) # Stamp(call[o])

\* What a transaction will do is what its row says.
Deltas(r, ch) ==
  /\ ch.tenants = IF r.action \in TenantActs THEN [del |-> {t \in db.tenants : t.id = r.tenant}, ins |-> {r.detail}]
                  ELSE [del |-> {}, ins |-> {}]
  /\ ch.keys = IF r.action \in KeyActs THEN [del |-> {k \in db.keys : k.id = r.key}, ins |-> {r.detail}]
               ELSE [del |-> {}, ins |-> {}]
  /\ ch.quotas = [del |-> {q \in db.quotas : Clears(r, q)} \ Adds(r), ins |-> Adds(r) \ {q \in db.quotas : Clears(r, q)}]
  /\ r.action \notin CredActs => ch.creds = [del |-> {}, ins |-> {}]
  /\ r.action = "admin_credential.create" =>
       \E x \in ch.creds.ins : x \in CredRow /\ x.name = r.detail.name /\ x.role = r.detail.role /\ ~x.revoked /\ ch.creds = [del |-> {}, ins |-> {x}]
  /\ r.action = "admin_credential.revoke" =>
       \E x \in db.creds : x.name = r.detail.name /\ x.role = r.detail.role /\ ~x.revoked
                          /\ ch.creds = [del |-> {x}, ins |-> {[x EXCEPT !.revoked = TRUE]}]

\* The lock of a transaction is that of the object of its row.
LockFits(req, seen, r) ==
  LET lock == LockOf(req, seen)
  IN  /\ r.action = "tenant.create" => lock = <<"external_id", r.detail.ext>> /\ r.tenant = r.at
      /\ r.action # "tenant.create" /\ r.tenant > 0 => lock = <<"tenant", r.tenant>>
      /\ r.action \in CredActs => lock = <<"name", r.detail.name>>
      /\ r.action = "key.create" => r.key = r.at
      /\ r.action \in {"key.update", "key.revoke"} => \E k \in db.keys : k.id = r.key /\ k.tenant = r.tenant
      /\ r.action \in TenantActs \ {"tenant.create"} =>
           \A t \in db.tenants : t.id = r.tenant => t.ext = r.detail.ext /\ (r.action # "tenant.update" => t.doc = r.detail.doc)

\* A transaction that waits for its commit holds a row that may be the next of the log.
HeldOK(req, auth, seen, r, ch, ans) ==
  /\ ReqOK(req) /\ auth \in 0..Len(log)
  /\ r \in AuditRow /\ RowOK(r) /\ LetIn(r.actor, r.auth)
  /\ \A x \in Log : Follows(x, r)
  /\ Legal(View, r) /\ FirstOfName(Log, r)
  /\ Deltas(r, ch)
  /\ LockFits(req, seen, r)
  /\ ans.what = "ok"
  /\ req.op = "CreateTenant" => r.action = "tenant.create" /\ r.detail.ext = req.ext /\ ans.id = r.tenant

\* An answer that was true when it was given.
DoneOK(req, auth, ans) ==
  /\ ReqOK(req) /\ auth \in 0..Len(log)
  /\ req.op = "CreateTenant" /\ ans.what = "ok" => \E t \in db.tenants : t.ext = req.ext /\ t.id = ans.id
  /\ req.op = "CreateTenant" /\ ans.what = "conflict" =>
       \E r \in Log : r.action \in {"tenant.create", "tenant.update"} /\ r.detail.ext = req.ext /\ r.detail.doc # req.doc
  /\ ans.what = "notfound" =>
       /\ req.op \in RefOps \cup KeyOps \cup {"RevokeCredential"}
       /\ req.op \in RefOps => \A x \in Rows(auth) : x.action \in TenantActs => x.detail.ext # req.ref
       /\ req.op \in KeyOps => \A x \in Rows(auth) : x.action \in KeyActs => x.key # req.key
       /\ req.op = "RevokeCredential" => \A x \in Rows(auth) : x.action \in CredActs => x.detail.name # req.name

\* A call is as its step says.
CallOK(v) ==
  /\ v.pc \in {"idle", "begun", "read", "held", "done"}
  /\ v.pc = "begun" => BegunOK(v.req, v.actor, v.auth)
  /\ v.pc = "read" => ReadOK(v.req, v.actor, v.auth, v.seen, v.at)
  /\ v.pc = "held" => HeldOK(v.req, v.auth, v.seen, v.row, v.changes, v.answer)
  /\ v.pc = "done" => DoneOK(v.req, v.auth, v.answer)

\* No two transactions hold one lock.
LocksApart ==
  \A c, o \in Calls : c # o /\ call[c].pc = "held" /\ call[o].pc = "held" =>
    LockOf(call[c].req, call[c].seen) # LockOf(call[o].req, call[o].seen)

\* The inductive invariant: the log tells the tables, and each open call fits both.
AdminInv ==
  /\ DbOK /\ LogOK /\ Linked /\ StampsOK /\ LocksApart
  /\ Told(Log) = View
  /\ call = [c \in Calls |-> call[c]]
  /\ \A c \in Calls : CallOK(call[c])

(***************************************************************************)
(* What the invariant says of the log.                                     *)
(***************************************************************************)

\* The rows of the log are its elements, and a prefix has some of them.
LEMMA RowsOfLog ==
  ASSUME LogOK
  PROVE  /\ Len(log) \in Nat /\ \A i \in 1..Len(log) : log[i] \in AuditRow
         /\ \A i \in 1..Len(log) : log[i] \in Log
         /\ \A n \in 0..Len(log) : Rows(n) \subseteq Log
         /\ \A r \in Log : \E i \in 1..Len(log) : r = log[i]
<1>1. log \in Seq(AuditRow)
  BY DEF LogOK
<1>2. Len(log) \in Nat /\ \A i \in 1..Len(log) : log[i] \in AuditRow
  BY <1>1
<1> QED BY <1>2 DEF Log, Rows

\* Being about the same object is symmetric.
LEMMA SameSym ==
  ASSUME NEW a, NEW b, Same(a, b)
  PROVE  Same(b, a)
BY DEF Same

\* The rows of every prefix of the log can be put in order by their times.
LEMMA LogTimely ==
  ASSUME AdminInv
  PROVE  /\ clock \in Nat
         /\ \A n \in 0..Len(log) : Timely(Rows(n))
<1>0. LogOK /\ clock \in Nat
  BY DEF AdminInv, StampsOK
<1>1. \A r \in Log : RowOK(r) /\ r.at <= clock
  BY <1>0 DEF LogOK
<1>2. \A a, b \in Log : a.at = b.at => a = b
  BY <1>0, RowsOfLog DEF LogOK
<1>3. ASSUME NEW a \in Log, NEW b \in Log, a.at < b.at PROVE Follows(a, b)
  <2>1. PICK i \in 1..Len(log) : a = log[i]
    BY <1>0, RowsOfLog
  <2>2. PICK j \in 1..Len(log) : b = log[j]
    BY <1>0, RowsOfLog
  <2>3. a.at \in Nat /\ b.at \in Nat
    BY <1>1 DEF RowOK
  <2>4. CASE i < j
    BY <2>1, <2>2, <2>4, <1>0 DEF LogOK
  <2>5. CASE j < i
    <3>1. Follows(b, a)
      BY <2>1, <2>2, <2>5, <1>0 DEF LogOK
    <3>2. ~Same(a, b)
      BY <3>1, <2>3, <1>3, SameSym DEF Follows
    <3> QED BY <3>2 DEF Follows, Same, CredActs
  <2>6. i # j
    BY <2>1, <2>2, <2>3, <1>3
  <2>7. i \in Int /\ j \in Int
    BY <1>0, RowsOfLog
  <2> QED BY <2>4, <2>5, <2>6, <2>7
<1> QED BY <1>0, <1>1, <1>2, <1>3, RowsOfLog DEF Timely

\* Replaying a prefix of the log by time gives what its rows tell.
LEMMA ReplayOfRows ==
  ASSUME AdminInv, NEW n \in 0..Len(log)
  PROVE  Replay(Rows(n)) = Told(Rows(n))
BY LogTimely, ReplayTells

\* Replaying the whole log gives the tables.
LEMMA WholeLog ==
  ASSUME AdminInv
  PROVE  Len(log) \in 0..Len(log) /\ Log = Rows(Len(log)) /\ Replay(Log) = View
<1>1. Len(log) \in 0..Len(log)
  BY RowsOfLog DEF AdminInv
<1> QED BY <1>1, ReplayOfRows DEF Log, AdminInv

\* The invariant implies AuditReplays.
LEMMA InvReplays ==
  ASSUME AdminInv
  PROVE  AuditReplays
BY WholeLog DEF AuditReplays, Log, View

(***************************************************************************)
(* Whether a row is legal depends on the rows of the same object only.     *)
(***************************************************************************)

\* Whether a row is legal depends on the earlier rows of its object, and for a new tenant
\* on the external ids in use.
LEMMA LegalLocal ==
  ASSUME NEW S, \A x \in S : RowOK(x), NEW U, \A x \in U : RowOK(x),
         NEW r, RowOK(r), Legal(Told(S), r),
         \A x \in S : Same(x, r) => x \in U,
         \A x \in U : Same(x, r) => x \in S,
         r.action = "tenant.create" => \A x \in U : x.action \in TenantActs => x.detail.ext # r.detail.ext
  PROVE  Legal(Told(U), r)
<1> DEFINE T(V) == {x \in TenantsOf(V) : x.id = r.tenant}
           K(V) == {x \in KeysOf(V) : x.id = r.key}
           Q(V) == {q \in QuotasOf(V) : Clears(r, q)}
<1>1. r.tenant > 0 => T(S) = T(U)
  <2> SUFFICES ASSUME r.tenant > 0 PROVE T(S) = T(U)
    OBVIOUS
  <2>1. \A x \in S \cup U : x.tenant = r.tenant => x \in S \cap U
    BY DEF Same
  <2>2. \A x \in S \cup U : x.action \in TenantActs => x.detail.id = x.tenant
    BY DEF RowOK
  <2>3. \A x \in S \cap U : x.tenant = r.tenant => (LastTenant(S, x) <=> LastTenant(U, x))
    BY <2>1 DEF LastTenant
  <2> QED BY <2>1, <2>2, <2>3 DEF TenantsOf, LastTenant
<1>2. r.key > 0 => K(S) = K(U)
  <2> SUFFICES ASSUME r.key > 0 PROVE K(S) = K(U)
    OBVIOUS
  <2>1. \A x \in S \cup U : x.key = r.key => x \in S \cap U
    BY DEF Same
  <2>2. \A x \in S \cup U : x.action \in KeyActs => x.detail.id = x.key
    BY DEF RowOK
  <2>3. \A x \in S \cap U : x.key = r.key => (LastKey(S, x) <=> LastKey(U, x))
    BY <2>1 DEF LastKey
  <2> QED BY <2>1, <2>2, <2>3 DEF KeysOf, LastKey
<1>3. r.action \in QuotaActs => Q(S) = Q(U)
  <2> SUFFICES ASSUME r.action \in QuotaActs PROVE Q(S) = Q(U)
    OBVIOUS
  <2>1. \A x \in S \cup U : x.tenant = r.tenant => x \in S \cap U
    BY DEF Same, RowOK
  <2>2. \A q : Clears(r, q) => q.tenant = r.tenant
    BY DEF Clears, RowOK
  <2>3. \A x \in S \cup U : \A q : Clears(x, q) \/ q \in Adds(x) => q.tenant = x.tenant
    BY DEF Clears, Adds, RowOK
  <2>4. ASSUME NEW q, Clears(r, q) PROVE q \in QuotasOf(S) <=> q \in QuotasOf(U)
    <3>1. q.tenant = r.tenant
      BY <2>2, <2>4
    <3>2. \A x \in S \cap U : LastQuota(S, x, q) <=> LastQuota(U, x, q)
      BY <3>1, <2>1, <2>3 DEF LastQuota
    <3>3. \A x \in S \cup U : q \in Adds(x) => x \in S \cap U
      BY <3>1, <2>1, <2>3
    <3> QED BY <3>2, <3>3 DEF QuotasOf, LastQuota
  <2> QED BY <2>4
<1>4. r.action \in CredActs => (r.detail \in CredsOf(S) <=> r.detail \in CredsOf(U))
  <2> SUFFICES ASSUME r.action \in CredActs PROVE r.detail \in CredsOf(S) <=> r.detail \in CredsOf(U)
    OBVIOUS
  <2>1. \A x \in S \cup U : x.action \in CredActs /\ x.detail = r.detail => x \in S \cap U
    BY DEF Same
  <2> QED BY <2>1 DEF CredsOf, CredActs
<1>5. r.action = "tenant.create" => \A x \in TenantsOf(U) : x.ext # r.detail.ext
  BY DEF TenantsOf, LastTenant
<1>6. /\ r.action \in TenantActs \cup KeyActs => r.tenant > 0
      /\ r.action \in KeyActs => r.key > 0
      /\ "key.create" \in KeyActs /\ "key.update" \in KeyActs /\ "key.revoke" \in KeyActs
      /\ "admin_credential.create" \in CredActs /\ "admin_credential.revoke" \in CredActs
  BY DEF RowOK, KeyActs, CredActs
<1>7. /\ Told(S).tenants = TenantsOf(S) /\ Told(S).keys = KeysOf(S) /\ Told(S).quotas = QuotasOf(S) /\ Told(S).creds = CredsOf(S)
      /\ Told(U).tenants = TenantsOf(U) /\ Told(U).keys = KeysOf(U) /\ Told(U).quotas = QuotasOf(U) /\ Told(U).creds = CredsOf(U)
  BY DEF Told
<1> QED BY <1>1, <1>2, <1>3, <1>4, <1>5, <1>6, <1>7 DEF Legal

\* A legal row changes the state.
LEMMA LegalChanges ==
  ASSUME NEW S, NEW r, RowOK(r), Legal(Told(S), r)
  PROVE  Replayed(Told(S), r) # Told(S)
<1> DEFINE s == Told(S)
<1>0. s = [tenants |-> s.tenants, keys |-> s.keys, quotas |-> s.quotas, creds |-> s.creds]
  BY DEF Told
<1>s. Legal(s, r)
  OBVIOUS
<1> HIDE DEF s
<1>1. CASE r.action \in TenantActs
  <2>1. Replayed(s, r) = [s EXCEPT !.tenants = Replace(s.tenants, r.tenant, r.detail)]
    BY <1>1 DEF Replayed, TenantActs
  <2>2. Replace(s.tenants, r.tenant, r.detail) # s.tenants
    BY <1>1, <1>s DEF Legal, Replace, RowOK
  <2> QED BY <1>0, <2>1, <2>2 DEF s
<1>2. CASE r.action \in KeyActs
  <2>1. Replayed(s, r) = [s EXCEPT !.keys = Replace(s.keys, r.key, r.detail)]
    BY <1>2 DEF Replayed, KeyActs
  <2>2. Replace(s.keys, r.key, r.detail) # s.keys
    BY <1>2, <1>s DEF Legal, Replace, RowOK
  <2> QED BY <1>0, <2>1, <2>2 DEF s
<1>3. CASE r.action \in QuotaActs
  <2>1. Replayed(s, r) = [s EXCEPT !.quotas = {q \in s.quotas : ~Clears(r, q)} \cup Adds(r)]
    <3>1. CASE r.action = "quota.replace"
      BY <3>1, <1>0 DEF Replayed, Clears, Adds
    <3>2. CASE r.action = "quota.upsert"
      BY <3>2, <1>0 DEF Replayed, Clears, Adds
    <3>3. CASE r.action = "quota.delete"
      BY <3>3, <1>0 DEF Replayed, Clears, Adds
    <3> QED BY <1>3, <3>1, <3>2, <3>3 DEF QuotaActs
  <2>2. {q \in s.quotas : ~Clears(r, q)} \cup Adds(r) # s.quotas
    <3>1. \A q \in Adds(r) : Clears(r, q)
      BY DEF Adds, Clears, RowOK
    <3> QED BY <1>3, <1>s, <3>1 DEF Legal
  <2> QED BY <1>0, <2>1, <2>2 DEF s
<1>4. CASE r.action \in CredActs
  <2>1. CASE r.action = "admin_credential.create"
    <3>1. Replayed(s, r) = [s EXCEPT !.creds = s.creds \cup {r.detail}]
      BY <2>1 DEF Replayed
    <3> QED BY <1>0, <1>s, <2>1, <3>1 DEF s, Legal
  <2>2. CASE r.action = "admin_credential.revoke"
    <3>1. Replayed(s, r) = [s EXCEPT !.creds = s.creds \ {r.detail}]
      BY <2>2 DEF Replayed
    <3> QED BY <1>0, <1>s, <2>2, <3>1 DEF s, Legal
  <2> QED BY <1>4, <2>1, <2>2 DEF CredActs
<1> QED BY <1>1, <1>2, <1>3, <1>4 DEF RowOK, s

\* The invariant implies AuditLegal: the rows that come before r by time and those that
\* were committed before it agree on the object of r.
LEMMA InvLegal ==
  ASSUME AdminInv
  PROVE  AuditLegal
<1>0. LogOK /\ Linked /\ DbOK /\ clock \in Nat /\ Timely(Log)
  BY LogTimely, WholeLog DEF AdminInv
<1>1. ASSUME NEW r \in Log
      PROVE  /\ RowOK(r) /\ r.at - 1 \in 0..clock
             /\ Legal(Told(Upto(Log, r.at - 1)), r)
             /\ FirstOfName(Upto(Log, r.at - 1), r)
  <2>1. PICK i \in 1..Len(log) : r = log[i]
    BY <1>0, RowsOfLog
  <2>2. /\ i \in Nat /\ i - 1 \in 0..Len(log) /\ Rows(i - 1) \subseteq Log
    BY <1>0, RowsOfLog
  <2>3. \A x \in Log : RowOK(x) /\ x.at \in Nat /\ x.at <= clock /\ x.at > 0
    BY <1>0 DEF LogOK, RowOK
  <2>4. \A x \in Upto(Log, r.at - 1) : x \in Log /\ x.at < r.at
    BY <2>3 DEF Upto
  <2>5. \A x \in Rows(i - 1) : \E j \in 1..Len(log) : x = log[j] /\ j < i
    BY <2>2, <1>0, RowsOfLog DEF Rows
  <2>6. \A x \in Log : x \in Rows(i - 1) \/ x = r \/ \E j \in 1..Len(log) : x = log[j] /\ i < j
    <3> TAKE x \in Log
    <3>1. PICK j \in 1..Len(log) : x = log[j]
      BY <1>0, RowsOfLog
    <3>2. j < i => x \in Rows(i - 1)
      BY <3>1, <2>2, <1>0, RowsOfLog DEF Rows
    <3> QED BY <3>1, <3>2, <2>1, <2>2, <1>0, RowsOfLog
  <2>7. \A x \in Rows(i - 1) : Follows(x, r)
    BY <2>1, <2>5, <1>0 DEF LogOK
  <2>8. \A x \in Rows(i - 1) : Same(x, r) => x \in Upto(Log, r.at - 1)
    BY <2>2, <2>3, <2>7 DEF Follows, Upto
  <2>9. \A x \in Upto(Log, r.at - 1) : Same(x, r) => x \in Rows(i - 1)
    <3> SUFFICES ASSUME NEW x \in Upto(Log, r.at - 1), Same(x, r), x \notin Rows(i - 1) PROVE FALSE
      OBVIOUS
    <3>1. x # r
      BY <2>3, <2>4
    <3>2. PICK j \in 1..Len(log) : x = log[j] /\ i < j
      BY <2>4, <2>6, <3>1
    <3>3. Follows(r, x)
      BY <2>1, <3>2, <1>0 DEF LogOK
    <3> QED BY <3>3, <2>3, <2>4, SameSym DEF Follows
  <2>10. r.action = "tenant.create" =>
           \A x \in Upto(Log, r.at - 1) : x.action \in TenantActs => x.detail.ext # r.detail.ext
    <3> SUFFICES ASSUME r.action = "tenant.create", NEW x \in Upto(Log, r.at - 1),
                        x.action \in TenantActs, x.detail.ext = r.detail.ext
                 PROVE  FALSE
      OBVIOUS
    <3>1. RowOK(x) /\ RowOK(r) /\ x \in Log /\ r.action \in TenantActs
      BY <2>3, <2>4 DEF TenantActs
    <3>2. PICK t \in db.tenants : t.id = x.tenant /\ t.ext = x.detail.ext
      BY <3>1, <1>0 DEF Linked, RowOK
    <3>3. PICK u \in db.tenants : u.id = r.tenant /\ u.ext = r.detail.ext
      BY <3>1, <1>0 DEF Linked, RowOK
    <3>4. x.tenant = r.tenant
      BY <3>2, <3>3, <1>0 DEF DbOK
    <3>5. Same(x, r)
      BY <3>1, <3>4 DEF Same, RowOK
    <3>6. x \in Rows(i - 1)
      BY <2>9, <3>5
    <3>7. \A y \in TenantsOf(Rows(i - 1)) : y.id # r.tenant
      BY <2>1, <1>0, <3>1 DEF LogOK, Legal, Told, RowOK
    <3>8. PICK c \in Log : c.action = "tenant.create" /\ c.tenant = u.id
      BY <1>0, <3>3 DEF Linked
    <3>9. c.at = c.tenant /\ r.at = r.tenant
      BY <3>8, <1>0 DEF Linked
    <3>10. c = r
      BY <3>8, <3>9, <3>3, <1>0 DEF Timely
    <3> DEFINE A == {y \in Rows(i - 1) : y.action \in TenantActs /\ y.tenant = r.tenant}
    <3>11. \A y \in A : y.at < r.at
      BY <2>7, <3>1 DEF Follows, Same, RowOK
    <3>12. \E y \in A : \A z \in A : z.at <= y.at
      <4>1. A # {} /\ A \subseteq Log
        BY <3>6, <3>1, <3>4, <2>2
      <4> HIDE DEF A
      <4> DEFINE Gap == {r.at - y.at : y \in A}
      <4>2. Gap # {} /\ Gap \subseteq Nat
        BY <4>1, <2>3, <3>11
      <4>3. PICK g \in Gap : \A h \in Gap : g <= h
        <5> HIDE DEF Gap
        <5> QED BY <4>2, Least
      <4>4. PICK y \in A : g = r.at - y.at
        OBVIOUS
      <4>5. \A z \in A : z.at <= y.at
        <5> TAKE z \in A
        <5>1. r.at - z.at \in Gap
          OBVIOUS
        <5>2. g <= r.at - z.at
          BY <4>3, <5>1
        <5>3. r.at \in Nat /\ z.at \in Nat /\ y.at \in Nat
          BY <4>1, <2>3
        <5> QED BY <4>4, <5>2, <5>3
      <4> QED BY <4>5
    <3>13. PICK y \in A : \A z \in A : z.at <= y.at
      BY <3>12
    <3>14. LastTenant(Rows(i - 1), y) /\ y \in Rows(i - 1) /\ y \in Log
      BY <3>13, <2>2 DEF LastTenant
    <3>15. y.detail \in TenantsOf(Rows(i - 1)) /\ y.detail.id = r.tenant
      BY <3>13, <3>14, <2>3 DEF TenantsOf, RowOK
    <3> QED BY <3>7, <3>15
  <2>11. Legal(Told(Rows(i - 1)), r) /\ FirstOfName(Rows(i - 1), r)
    BY <2>1, <1>0 DEF LogOK
  <2>12. Legal(Told(Upto(Log, r.at - 1)), r)
    <3>1. /\ \A x \in Rows(i - 1) : RowOK(x)
          /\ \A x \in Upto(Log, r.at - 1) : RowOK(x)
          /\ RowOK(r)
      BY <2>2, <2>3, <2>4
    <3> QED BY <3>1, <2>8, <2>9, <2>10, <2>11, LegalLocal
  <2>13. FirstOfName(Upto(Log, r.at - 1), r)
    BY <2>9, <2>11 DEF FirstOfName, Same, CredActs
  <2> QED BY <2>3, <2>12, <2>13, <1>0
<1>2. ASSUME NEW r \in Log
      PROVE  LET s == States(Log)[r.at - 1]
                 t == {x \in s.tenants : x.id = r.tenant}
                 k == {x \in s.keys : x.id = r.key}
             IN  /\ Replayed(s, r) # s
                 /\ CASE r.action = "tenant.create" -> \A x \in s.tenants : x.ext # r.detail.ext
                      [] r.action = "key.create" -> k = {} /\ \A x \in t : ~x.disabled
                      [] r.action \in {"key.update", "key.revoke"} -> \A x \in k : ~x.revoked
                      [] r.action = "admin_credential.create" ->
                           \A x \in Log : x.at < r.at /\ x.action = r.action => x.detail.name # r.detail.name
                      [] OTHER -> TRUE
                 /\ r.tenant # 0 => (r.action = "tenant.create" <=> t = {})
  <2> DEFINE s == States(Log)[r.at - 1]
  <2>1. s = Told(Upto(Log, r.at - 1))
    BY <1>0, <1>1, StatesTell
  <2>2. Replayed(s, r) # s
    BY <2>1, <1>1, LegalChanges
  <2>3. Legal(s, r) /\ RowOK(r)
    BY <2>1, <1>1
  <2>4. r.action = "admin_credential.create" =>
          \A x \in Log : x.at < r.at /\ x.action = r.action => x.detail.name # r.detail.name
    <3>1. \A x \in Log : x.at \in Nat /\ r.at \in Nat
      BY <1>0 DEF LogOK, RowOK
    <3>2. \A x \in Log : x.at < r.at => x \in Upto(Log, r.at - 1)
      BY <3>1 DEF Upto
    <3> QED BY <3>2, <1>1 DEF FirstOfName, CredActs
  <2> HIDE DEF s
  <2>5. r.tenant # 0 => r.tenant > 0
    BY <2>3 DEF RowOK
  <2>6. s = States(Log)[r.at - 1]
    BY DEF s
  <2>7. CASE r.action = "tenant.create"
    BY <2>2, <2>3, <2>5, <2>6, <2>7 DEF Legal
  <2>8. CASE r.action = "key.create"
    BY <2>2, <2>3, <2>5, <2>6, <2>8 DEF Legal
  <2>9. CASE r.action \in {"key.update", "key.revoke"}
    BY <2>2, <2>3, <2>5, <2>6, <2>9 DEF Legal
  <2>10. CASE r.action = "admin_credential.create"
    BY <2>2, <2>3, <2>4, <2>5, <2>6, <2>10 DEF Legal
  <2>11. CASE r.action \notin {"tenant.create", "key.create", "key.update", "key.revoke", "admin_credential.create"}
    BY <2>2, <2>3, <2>5, <2>6, <2>11 DEF Legal
  <2> QED BY <2>7, <2>8, <2>9, <2>10, <2>11
<1> QED BY <1>2 DEF AuditLegal, Log

\* The invariant implies AnswersExplained.
LEMMA InvAnswers ==
  ASSUME AdminInv
  PROVE  AnswersExplained
<1>0. LogOK /\ Linked /\ DbOK /\ clock \in Nat /\ Timely(Log)
  BY LogTimely, WholeLog DEF AdminInv
<1>1. \A r \in Log : r.action = "tenant.create" => RowOK(r) /\ r.action \in TenantActs /\ r.tenant > 0
  BY <1>0 DEF LogOK, RowOK, TenantActs
<1> DEFINE creates(e) == {r.tenant : r \in {x \in {r \in Log : r.action = "tenant.create"} : x.detail.ext = e}}
           tenants == {r.detail : r \in UNION {{r \in Log : r.action = a} : a \in {"tenant.create", "tenant.update"}}}
<1>2. ASSUME NEW t \in db.tenants PROVE creates(t.ext) = {t.id}
  <2>1. t.id \in creates(t.ext)
    BY <1>0 DEF Linked
  <2>2. ASSUME NEW r \in Log, r.action = "tenant.create", r.detail.ext = t.ext PROVE r.tenant = t.id
    BY <1>0, <1>1, <2>2 DEF Linked, DbOK
  <2> QED BY <2>1, <2>2
<1>3. ASSUME NEW c \in Calls, call[c].pc = "done"
      PROVE  LET req == call[c].req
                 ans == call[c].answer
             IN  /\ (req.op = "CreateTenant" /\ ans.what = "ok") => creates(req.ext) = {ans.id}
                 /\ (req.op = "CreateTenant" /\ ans.what = "conflict") =>
                      \E t \in tenants : t.ext = req.ext /\ t.doc # req.doc
                 /\ ans.what = "notfound" =>
                      LET s == Replay(Rows(call[c].auth))
                      IN  CASE "ref" \in DOMAIN req -> \A t \in s.tenants : t.ext # req.ref
                            [] "key" \in DOMAIN req -> \A k \in s.keys : k.id # req.key
                            [] OTHER -> \A x \in s.creds : x.name # req.name
  <2> DEFINE req == call[c].req
             ans == call[c].answer
             S == Rows(call[c].auth)
             s == Replay(S)
  <2>0. DoneOK(req, call[c].auth, ans)
    BY <1>3 DEF AdminInv, CallOK
  <2>1. (req.op = "CreateTenant" /\ ans.what = "ok") => creates(req.ext) = {ans.id}
    <3> SUFFICES ASSUME req.op = "CreateTenant", ans.what = "ok" PROVE creates(req.ext) = {ans.id}
      OBVIOUS
    <3>1. PICK t \in db.tenants : t.ext = req.ext /\ t.id = ans.id
      BY <2>0 DEF DoneOK
    <3>2. creates(t.ext) = {t.id}
      BY <1>2
    <3> HIDE DEF creates
    <3> QED BY <3>1, <3>2
  <2>2. (req.op = "CreateTenant" /\ ans.what = "conflict") => \E t \in tenants : t.ext = req.ext /\ t.doc # req.doc
    BY <2>0 DEF DoneOK
  <2>3. ans.what = "notfound" =>
          CASE "ref" \in DOMAIN req -> \A t \in s.tenants : t.ext # req.ref
            [] "key" \in DOMAIN req -> \A k \in s.keys : k.id # req.key
            [] OTHER -> \A x \in s.creds : x.name # req.name
    <3> SUFFICES ASSUME ans.what = "notfound"
                 PROVE  CASE "ref" \in DOMAIN req -> \A t \in s.tenants : t.ext # req.ref
                          [] "key" \in DOMAIN req -> \A k \in s.keys : k.id # req.key
                          [] OTHER -> \A x \in s.creds : x.name # req.name
      OBVIOUS
    <3>1. s = Told(S) /\ S \subseteq Log
      BY <2>0, <1>0, ReplayOfRows, RowsOfLog DEF DoneOK
    <3>2. s.tenants = TenantsOf(S) /\ s.keys = KeysOf(S) /\ s.creds = CredsOf(S)
      BY <3>1 DEF Told
    <3>3. \A x \in S : RowOK(x)
      BY <3>1, <1>0 DEF LogOK
    <3>4. /\ "ref" \in DOMAIN req <=> req.op \in RefOps
          /\ "key" \in DOMAIN req <=> req.op \in KeyOps
          /\ req.op \in RefOps \cup KeyOps \cup {"RevokeCredential"}
          /\ ~(req.op \in RefOps /\ req.op \in KeyOps)
      BY <2>0 DEF DoneOK, ReqOK, RefOps, KeyOps
    <3>5. CASE req.op \in RefOps
      <4>1. \A t \in s.tenants : t.ext # req.ref
        BY <2>0, <3>2, <3>5 DEF DoneOK, TenantsOf, LastTenant
      <4> HIDE DEF s, req
      <4> QED BY <3>4, <3>5, <4>1
    <3>6. CASE req.op \in KeyOps
      <4>1. \A k \in s.keys : k.id # req.key
        BY <2>0, <3>2, <3>3, <3>6 DEF DoneOK, KeysOf, LastKey, RowOK
      <4> HIDE DEF s, req
      <4> QED BY <3>4, <3>6, <4>1
    <3>7. CASE req.op = "RevokeCredential" /\ req.op \notin RefOps /\ req.op \notin KeyOps
      <4>1. \A x \in s.creds : x.name # req.name
        BY <2>0, <3>2, <3>7 DEF DoneOK, CredsOf, CredActs
      <4> HIDE DEF s, req
      <4> QED BY <3>4, <3>7, <4>1
    <3> QED BY <3>4, <3>5, <3>6, <3>7
  <2> HIDE DEF creates, tenants
  <2> QED BY <2>1, <2>2, <2>3
<1> QED BY <1>3 DEF AnswersExplained, Log

\* The invariant implies AccessExplained.
LEMMA InvAccess ==
  ASSUME AdminInv
  PROVE  AccessExplained
<1>0. LogOK /\ Linked /\ DbOK /\ Replay(Log) = View
  BY WholeLog DEF AdminInv
<1>1. ASSUME NEW i \in DOMAIN log, log[i].actor # "cli"
      PROVE  [name |-> log[i].actor, role |-> "admin"] \in Replay(Rows(log[i].auth)).creds
  <2>1. log[i] \in Log /\ log[i] \in AuditRow /\ Len(log) \in Nat
    <3>1. DOMAIN log = 1..Len(log)
      BY <1>0 DEF LogOK
    <3> QED BY <3>1, <1>0, RowsOfLog
  <2>2. log[i].auth \in 0..Len(log)
    BY <2>1, <1>0 DEF LogOK, AuditRow
  <2>3. Replay(Rows(log[i].auth)) = Told(Rows(log[i].auth))
    BY <2>2, ReplayOfRows
  <2>4. [name |-> log[i].actor, role |-> "admin"] \in CredsOf(Rows(log[i].auth))
    BY <1>0, <1>1, <2>1 DEF LogOK
  <2> QED BY <2>3, <2>4 DEF Told
<1>2. ASSUME NEW k \in db.keys
      PROVE  {r.key : r \in Authenticate(k.id)} =
               {x \in View.keys : x.id = k.id /\ ~x.revoked /\ \A t \in View.tenants : t.id = x.tenant => ~t.disabled}
  <2>1. View.keys = db.keys /\ View.tenants = db.tenants
    BY <1>0 DEF View, DbOK
  <2>2. PICK t \in db.tenants : t.id = k.tenant
    BY <1>0 DEF DbOK
  <2>3. GetAPIKey(db, k.id) = {k} /\ \A x \in db.keys : x.id = k.id => x = k
    BY <1>0 DEF GetAPIKey, DbOK
  <2>4. GetTenant(db, k.tenant) = {t} /\ \A u \in db.tenants : u.id = k.tenant => u = t
    BY <1>0, <2>2 DEF GetTenant, DbOK
  <2>5. GetAPIKeyByHash(db, k.id) = {[key |-> k, tenant |-> t]}
    BY <2>3, <2>4 DEF GetAPIKeyByHash
  <2>6. Authenticate(k.id) = IF ~k.revoked /\ ~t.disabled THEN {[key |-> k, tenant |-> t]} ELSE {}
    BY <2>5 DEF Authenticate
  <2>7. {x \in db.keys : x.id = k.id /\ ~x.revoked /\ \A u \in db.tenants : u.id = x.tenant => ~u.disabled}
          = IF ~k.revoked /\ ~t.disabled THEN {k} ELSE {}
    BY <2>2, <2>3, <2>4
  <2>8. {r.key : r \in Authenticate(k.id)} = IF ~k.revoked /\ ~t.disabled THEN {k} ELSE {}
    <3>1. CASE ~k.revoked /\ ~t.disabled
      BY <2>6, <3>1
    <3>2. CASE ~(~k.revoked /\ ~t.disabled)
      BY <2>6, <3>2
    <3> QED BY <3>1, <3>2
  <2> QED BY <2>1, <2>7, <2>8
<1> QED BY <1>0, <1>1, <1>2 DEF AccessExplained, Log

(***************************************************************************)
(* Steps that commit nothing.                                              *)
(***************************************************************************)

\* Every request a caller can make has the fields its operation reads.
LEMMA ReqShape ==
  ASSUME DbOK, NEW req \in Requests \cup CreateTokens \cup RevokeTokens
  PROVE  ReqOK(req)
<1> USE DEF RefOps, KeyOps, CredOps
<1>1. CASE req \in [op : {"CreateTenant"}, ext : Exts, doc : Docs]
  BY <1>1 DEF ReqOK
<1>2. CASE req \in [op : {"UpdateTenant"}, ref : Exts, doc : Docs]
  BY <1>2 DEF ReqOK
<1>3. CASE req \in [op : {"DisableTenant", "EnableTenant"}, ref : Exts]
  BY <1>3 DEF ReqOK
<1> DEFINE ids == {k.id : k \in db.keys}
<1>0. ids \subseteq Nat
  BY DEF DbOK, KeyRow
<1>4. CASE req \in [op : {"CreateAPIKey"}, ref : Exts, allow : Allows]
  BY <1>4 DEF ReqOK
<1> HIDE DEF ids
<1>5. CASE req \in [op : {"UpdateAPIKey"}, key : ids, allow : Allows]
  BY <1>5, <1>0 DEF ReqOK
<1>6. CASE req \in [op : {"RevokeAPIKey"}, key : ids]
  BY <1>6, <1>0 DEF ReqOK
<1>7. CASE req \in [op : {"ReplaceQuotas"}, ref : Exts, set : UNION {[ks -> Limits] : ks \in SUBSET Kinds}]
  BY <1>7 DEF ReqOK
<1>8. CASE req \in [op : {"PutQuota"}, ref : Exts, kind : Kinds, limit : Limits]
  BY <1>8 DEF ReqOK
<1>9. CASE req \in [op : {"DeleteQuota"}, ref : Exts, kind : Kinds]
  BY <1>9 DEF ReqOK
<1>10. CASE req \in CreateTokens
  BY <1>10 DEF ReqOK, CreateTokens
<1>11. CASE req \in RevokeTokens
  BY <1>11 DEF ReqOK, RevokeTokens
<1> QED
  BY <1>1, <1>2, <1>3, <1>4, <1>5, <1>6, <1>7, <1>8, <1>9, <1>10, <1>11
  DEF Requests, TenantRequests, KeyRequests, QuotaRequests, ids

\* Every operation that writes has a method that is a write.
LEMMA WritesAreWrites ==
  ASSUME NEW req \in Requests
  PROVE  API!permissionFor(API!HandlerWithOptions[req.op].method) = "write"
<1>1. req.op \in {"CreateTenant", "UpdateTenant", "DisableTenant", "EnableTenant", "CreateAPIKey", "UpdateAPIKey",
                   "RevokeAPIKey", "ReplaceQuotas", "PutQuota", "DeleteQuota"}
  BY DEF Requests, TenantRequests, KeyRequests, QuotaRequests
<1>2. API!HandlerWithOptions[req.op].method \in {"POST", "PATCH", "DELETE", "PUT"}
  BY <1>1 DEF API!HandlerWithOptions, API!Op
<1> QED BY <1>2 DEF API!permissionFor

\* The guard of a change lets in only the holder of a live credential of role admin.
LEMMA GuardAdmits ==
  ASSUME DbOK, NEW req \in Requests, NEW name, Guard(name, req)
  PROVE  [name |-> name, role |-> "admin"] \in Live(db.creds)
<1>1. PICK c \in authenticateMachine(name) : API!RoleAllows(c.role, API!permissionFor(API!HandlerWithOptions[req.op].method))
  BY DEF Guard
<1>2. c.role = "admin"
  BY <1>1, WritesAreWrites DEF API!RoleAllows
<1>3. c \in db.creds /\ c.name = name /\ ~c.revoked
  BY <1>1 DEF authenticateMachine, GetAdminCredentialByTokenHash
<1> QED BY <1>2, <1>3 DEF Live

\* A step of c that leaves the tables and the log alone keeps the invariant if c's
\* new state is a good one.
LEMMA QuietStep ==
  ASSUME AdminInv, NEW c \in Calls, NEW v,
         UNCHANGED <<db, log>>, clock' \in Nat, clock <= clock',
         call' = [call EXCEPT ![c] = v],
         CallOK(v),
         Stamped(v) => /\ Stamp(v) \in 1..clock'
                       /\ \A r \in Log : r.at # Stamp(v)
                       /\ \A o \in Calls \ {c} : Stamped(call[o]) => Stamp(call[o]) # Stamp(v),
         v.pc = "held" => \A o \in Calls \ {c} : call[o].pc = "held" => LockOf(call[o].req, call[o].seen) # LockOf(v.req, v.seen)
  PROVE  AdminInv'
<1>1. /\ call'[c] = v /\ \A o \in Calls \ {c} : call'[o] = call[o]
      /\ call' = [o \in Calls |-> call'[o]]
  BY DEF AdminInv
<1>2. Log' = Log /\ View' = View /\ (\A n : Rows(n)' = Rows(n))
  BY DEF Log, Rows, View
<1>3. DbOK' /\ Linked'
  BY <1>2 DEF AdminInv, DbOK, Linked
<1>4. LogOK'
  <2>1. \A r \in Log : r.at <= clock'
    BY DEF AdminInv, LogOK, StampsOK, RowOK
  <2> QED BY <1>2, <2>1 DEF AdminInv, LogOK
<1>5. Told(Log)' = View'
  BY <1>2 DEF AdminInv
<1>6. ASSUME NEW w, CallOK(w) PROVE CallOK(w)'
  <2>1. \A a, n : LetIn(a, n)' <=> LetIn(a, n)
    BY <1>2 DEF LetIn
  <2>2. w.pc = "begun" => BegunOK(w.req, w.actor, w.auth)'
    BY <1>6, <2>1 DEF CallOK, BegunOK
  <2>3. w.pc = "read" => ReadOK(w.req, w.actor, w.auth, w.seen, w.at)'
    BY <1>2, <1>6, <2>1 DEF CallOK, ReadOK
  <2>4. \A r, ch : Deltas(r, ch)' <=> Deltas(r, ch)
    BY DEF Deltas
  <2>5. \A req, seen, r : LockFits(req, seen, r)' <=> LockFits(req, seen, r)
    BY DEF LockFits
  <2>6. w.pc = "held" => HeldOK(w.req, w.auth, w.seen, w.row, w.changes, w.answer)'
    BY <1>2, <1>6, <2>1, <2>4, <2>5 DEF CallOK, HeldOK
  <2>7. w.pc = "done" => DoneOK(w.req, w.auth, w.answer)'
    BY <1>2, <1>6 DEF CallOK, DoneOK
  <2> QED BY <1>6, <2>2, <2>3, <2>6, <2>7 DEF CallOK
<1>7. \A o \in Calls : CallOK(call[o])'
  <2> TAKE o \in Calls
  <2>1. CASE o = c
    <3>1. call[o]' = v
      BY <1>1, <2>1
    <3>2. CallOK(v)'
      BY <1>6
    <3> QED BY <3>1, <3>2 DEF CallOK
  <2>2. CASE o # c
    <3>1. call[o]' = call[o] /\ CallOK(call[o])
      BY <1>1, <2>2 DEF AdminInv
    <3> DEFINE w == call[o]
    <3>2. PICK u : u = w
      OBVIOUS
    <3>3. CallOK(u)'
      BY <1>6, <3>1, <3>2
    <3> QED BY <3>1, <3>2, <3>3 DEF CallOK
  <2> QED BY <2>1, <2>2
<1>8. StampsOK'
  <2>1. \A o \in Calls \ {c} : (Stamped(call[o])' <=> Stamped(call[o])) /\ Stamp(call[o])' = Stamp(call[o])
    BY <1>1 DEF Stamped, Stamp
  <2>2. (Stamped(call[c])' <=> Stamped(v)) /\ Stamp(call[c])' = Stamp(v)
    BY <1>1 DEF Stamped, Stamp
  <2>3. StampsOK
    BY DEF AdminInv
  <2>4. \A o \in Calls : Stamped(call[o])' => Stamp(call[o])' \in 1..clock' /\ \A r \in Log : r.at # Stamp(call[o])'
    BY <2>1, <2>2, <2>3 DEF StampsOK
  <2>5. \A a, b \in Calls : a # b /\ Stamped(call[a])' /\ Stamped(call[b])' => Stamp(call[a])' # Stamp(call[b])'
    BY <2>1, <2>2, <2>3 DEF StampsOK
  <2> QED BY <1>2, <2>4, <2>5 DEF StampsOK
<1>9. LocksApart'
  BY <1>1 DEF AdminInv, LocksApart
<1> QED BY <1>1, <1>3, <1>4, <1>5, <1>7, <1>8, <1>9 DEF AdminInv

\* The invariant holds of the empty tables.
LEMMA InitInv ==
  ASSUME Init
  PROVE  AdminInv
<1>1. db = Empty /\ log = <<>> /\ call = [c \in Calls |-> NoCall] /\ clock = 0
  BY DEF Init
<1>2. Len(log) = 0 /\ Log = {} /\ log \in Seq(AuditRow)
  BY <1>1 DEF Log, Rows
<1>3. DbOK
  BY <1>1 DEF DbOK, Empty
<1>4. LogOK
  BY <1>2 DEF LogOK
<1>5. Linked
  BY <1>1, <1>2 DEF Linked, Empty
<1>6. \A c \in Calls : call[c].pc = "idle"
  BY <1>1 DEF NoCall
<1>7. StampsOK /\ LocksApart
  BY <1>1, <1>6 DEF StampsOK, LocksApart, Stamped
<1>8. Told(Log) = View
  <2>1. Told({}) = Empty
    BY DEF Told, TenantsOf, KeysOf, QuotasOf, CredsOf, Empty
  <2>2. Live({}) = {}
    BY DEF Live
  <2>3. View = [Empty EXCEPT !.creds = {}] /\ Empty.creds = {}
    BY <1>1, <2>2 DEF View, Empty
  <2>4. [Empty EXCEPT !.creds = {}] = Empty
    BY DEF Empty
  <2> QED BY <1>2, <2>1, <2>3, <2>4
<1>9. \A c \in Calls : CallOK(call[c])
  BY <1>6 DEF CallOK
<1>10. call = [c \in Calls |-> call[c]]
  BY <1>1
<1> QED BY <1>3, <1>4, <1>5, <1>7, <1>8, <1>9, <1>10 DEF AdminInv

\* A call that starts keeps the invariant.
LEMMA StartInv ==
  ASSUME AdminInv, NEW c \in Calls, NEW req, ReqOK(req), NEW actor, LetIn(actor, Len(log)), Start(c, req, actor)
  PROVE  AdminInv'
<1> DEFINE v == [pc |-> "begun", req |-> req, actor |-> actor, auth |-> Len(log)]
<1>1. call' = [call EXCEPT ![c] = v] /\ UNCHANGED <<db, log>> /\ clock' = clock
  BY DEF Start
<1>2. clock' \in Nat /\ clock <= clock'
  BY <1>1 DEF AdminInv, StampsOK
<1>3. v.pc = "begun" /\ CallOK(v) /\ ~Stamped(v)
  BY DEF CallOK, BegunOK, Stamped
<1> HIDE DEF v
<1> QED BY <1>1, <1>2, <1>3, QuietStep

\* A request or a command that begins keeps the invariant.
LEMMA BeginInv ==
  ASSUME AdminInv, NEW c \in Calls, Begin(c) \/ BeginCommand(c)
  PROVE  AdminInv'
<1>0. DbOK /\ Len(log) \in 0..Len(log) /\ CredsOf(Rows(Len(log))) = Live(db.creds)
  <2>1. Told(Rows(Len(log))) = View
    BY DEF AdminInv, Log
  <2>2. View.creds = Live(db.creds)
    BY DEF AdminInv, DbOK, View
  <2> QED BY <2>1, <2>2, WholeLog DEF AdminInv, Told
<1>1. CASE Begin(c)
  <2>1. PICK req \in Requests, name \in Names : Guard(name, req) /\ Start(c, req, name)
    BY <1>1 DEF Begin
  <2>2. ReqOK(req)
    BY <1>0, ReqShape
  <2>3. LetIn(name, Len(log))
    BY <1>0, <2>1, GuardAdmits DEF LetIn
  <2> QED BY <2>1, <2>2, <2>3, StartInv
<1>2. CASE BeginCommand(c)
  <2>1. PICK req \in CreateTokens \cup RevokeTokens : Start(c, req, "cli")
    BY <1>2 DEF BeginCommand
  <2>2. ReqOK(req)
    BY <1>0, ReqShape
  <2>3. LetIn("cli", Len(log))
    BY <1>0 DEF LetIn
  <2> QED BY <2>1, <2>2, <2>3, StartInv
<1> QED BY <1>1, <1>2

\* A call that fails, its transaction rolled back, keeps the invariant.
LEMMA FailInv ==
  ASSUME AdminInv, NEW c \in Calls, Fail(c)
  PROVE  AdminInv'
<1>1. call' = [call EXCEPT ![c] = NoCall] /\ UNCHANGED <<db, log>> /\ clock' = clock
  BY DEF Fail, Failed
<1>2. clock' \in Nat /\ clock <= clock'
  BY <1>1 DEF AdminInv, StampsOK
<1>3. NoCall.pc = "idle" /\ CallOK(NoCall) /\ ~Stamped(NoCall)
  BY DEF CallOK, Stamped, NoCall
<1> QED BY <1>1, <1>2, <1>3, QuietStep

\* An answer that leaves the rest as it is.
LEMMA AnswerInv ==
  ASSUME AdminInv, NEW c \in Calls, NEW ans, DoneOK(call[c].req, call[c].auth, ans),
         call' = [call EXCEPT ![c] = Finished(c, ans)], UNCHANGED <<db, log, clock>>
  PROVE  AdminInv'
<1> DEFINE v == Finished(c, ans)
<1>1. v.pc = "done" /\ v.req = call[c].req /\ v.auth = call[c].auth /\ v.answer = ans
  BY DEF Finished
<1>2. clock' \in Nat /\ clock <= clock'
  BY DEF AdminInv, StampsOK
<1> HIDE DEF v
<1>3. CallOK(v) /\ ~Stamped(v)
  BY <1>1 DEF CallOK, Stamped
<1>4. call' = [call EXCEPT ![c] = v]
  BY DEF v
<1> QED BY <1>1, <1>2, <1>3, <1>4, QuietStep

\* What each operation reads before it locks.
LEMMA SeenIs ==
  ASSUME NEW req, ReqOK(req)
  PROVE  /\ req.op \in RefOps => Seen(req) = resolveTenant(req.ref)
         /\ req.op \in KeyOps => Seen(req) = GetAPIKey(db, req.key)
         /\ req.op = "RevokeCredential" => Seen(req) = GetAdminCredentialByRef(db, req.name)
         /\ req.op \in {"CreateTenant", "CreateCredential"} => Seen(req) = {NoCall}
<1>1. /\ "ref" \in DOMAIN req <=> req.op \in RefOps
      /\ "key" \in DOMAIN req <=> req.op \in KeyOps
  BY DEF ReqOK
<1>2. CASE req.op \in RefOps
  <2>1. ~("key" \in DOMAIN req) /\ req.op # "RevokeCredential" /\ req.op \notin KeyOps /\ req.op \notin {"CreateTenant", "CreateCredential"}
    BY <1>1, <1>2 DEF RefOps, KeyOps
  <2> QED BY <1>1, <1>2, <2>1 DEF Seen
<1>3. CASE req.op \in KeyOps
  <2>1. ~("ref" \in DOMAIN req) /\ req.op # "RevokeCredential" /\ req.op \notin RefOps /\ req.op \notin {"CreateTenant", "CreateCredential"}
    BY <1>1, <1>3 DEF RefOps, KeyOps
  <2> QED BY <1>1, <1>3, <2>1 DEF Seen
<1>4. CASE req.op = "RevokeCredential"
  <2>1. ~("ref" \in DOMAIN req) /\ ~("key" \in DOMAIN req) /\ req.op \notin RefOps /\ req.op \notin KeyOps
    BY <1>1, <1>4 DEF RefOps, KeyOps
  <2> QED BY <1>4, <2>1 DEF Seen
<1>5. CASE req.op \in {"CreateTenant", "CreateCredential"}
  <2>1. ~("ref" \in DOMAIN req) /\ ~("key" \in DOMAIN req) /\ req.op # "RevokeCredential" /\ req.op \notin RefOps /\ req.op \notin KeyOps
    BY <1>1, <1>5 DEF RefOps, KeyOps
  <2> QED BY <1>5, <2>1 DEF Seen
<1> QED BY <1>2, <1>3, <1>4, <1>5 DEF ReqOK, CredOps

\* The read before the lock keeps the invariant.
LEMMA ResolveInv ==
  ASSUME AdminInv, NEW c \in Calls, Resolve(c)
  PROVE  AdminInv'
<1> DEFINE req == call[c].req
           seen == Seen(req)
<1>0. /\ call[c].pc = "begun" /\ BegunOK(req, call[c].actor, call[c].auth) /\ ReqOK(req)
      /\ DbOK /\ LogOK /\ Linked /\ UNCHANGED <<db, log>>
  BY DEF Resolve, AdminInv, CallOK, BegunOK
<1>1. call[c].auth \in 0..Len(log) /\ Rows(call[c].auth) \subseteq Log
  BY <1>0, RowsOfLog DEF BegunOK, LetIn
<1>2. \A x \in Log : RowOK(x) /\ x.at \in Nat /\ x.at <= clock /\ clock \in Nat
  BY <1>0 DEF LogOK, RowOK, AdminInv, StampsOK
<1>3. CASE seen = {}
  <2>1. call' = [call EXCEPT ![c] = Finished(c, [what |-> "notfound", id |-> 0])] /\ UNCHANGED clock
    BY <1>3 DEF Resolve
  <2>2. DoneOK(req, call[c].auth, [what |-> "notfound", id |-> 0])
    <3>1. req.op \in RefOps => \A x \in Rows(call[c].auth) : x.action \in TenantActs => x.detail.ext # req.ref
      <4>1. req.op \in RefOps => \A t \in db.tenants : t.ext # req.ref
        BY <1>0, <1>3, SeenIs DEF resolveTenant, GetTenantByExternalID
      <4> QED BY <4>1, <1>0, <1>1, <1>2 DEF Linked, RowOK
    <3>2. req.op \in KeyOps => \A x \in Rows(call[c].auth) : x.action \in KeyActs => x.key # req.key
      <4>1. req.op \in KeyOps => \A k \in db.keys : k.id # req.key
        BY <1>0, <1>3, SeenIs DEF GetAPIKey
      <4> QED BY <4>1, <1>0, <1>1 DEF Linked
    <3>3. req.op = "RevokeCredential" => \A x \in Rows(call[c].auth) : x.action \in CredActs => x.detail.name # req.name
      <4>1. req.op = "RevokeCredential" => \A x \in db.creds : x.name # req.name
        BY <1>0, <1>3, SeenIs DEF GetAdminCredentialByRef
      <4> QED BY <4>1, <1>0, <1>1 DEF Linked
    <3>4. req.op \in RefOps \cup KeyOps \cup {"RevokeCredential"}
      BY <1>0, <1>3, SeenIs DEF ReqOK, CredOps
    <3> QED BY <1>0, <1>1, <3>1, <3>2, <3>3, <3>4 DEF DoneOK
  <2> QED BY <1>0, <2>1, <2>2, AnswerInv
<1>4. CASE seen # {} /\ req.op = "RevokeCredential" /\ The(seen).revoked
  <2>1. call' = [call EXCEPT ![c] = Finished(c, [what |-> "ok", id |-> The(seen).id])] /\ UNCHANGED clock
    BY <1>4 DEF Resolve
  <2>2. DoneOK(req, call[c].auth, [what |-> "ok", id |-> The(seen).id])
    BY <1>0, <1>1, <1>4 DEF DoneOK
  <2> QED BY <1>0, <2>1, <2>2, AnswerInv
<1>5. CASE seen # {} /\ ~(req.op = "RevokeCredential" /\ The(seen).revoked)
  <2> DEFINE v == [pc |-> "read", req |-> req, actor |-> call[c].actor, auth |-> call[c].auth, seen |-> The(seen), at |-> clock']
  <2>1. /\ call' = [call EXCEPT ![c] = v]
        /\ clock' = IF IsCommand(req) THEN clock + 1 ELSE clock
    BY <1>5 DEF Resolve
  <2>2. clock' \in Nat /\ clock \in Nat /\ clock <= clock'
    BY <2>1 DEF AdminInv, StampsOK
  <2>3. The(seen) \in seen
    BY <1>5 DEF The
  <2>4. ReadOK(req, call[c].actor, call[c].auth, The(seen), clock')
    <3>1. req.op \in RefOps => \E t \in db.tenants : t.id = The(seen).id
      BY <1>0, <2>3, SeenIs DEF resolveTenant, GetTenant, GetTenantByExternalID
    <3>2. req.op \in KeyOps => \E k \in db.keys : k.id = The(seen).id /\ k.tenant = The(seen).tenant
      BY <1>0, <2>3, SeenIs DEF GetAPIKey
    <3>3. req.op = "RevokeCredential" => \E x \in db.creds : x.name = req.name /\ x.role = The(seen).role
      BY <1>0, <2>3, SeenIs DEF GetAdminCredentialByRef
    <3>4. req.op = "RevokeCredential" => \A r \in Log : r.at < clock'
      BY <1>2, <2>1 DEF IsCommand
    <3> QED BY <1>0, <3>1, <3>2, <3>3, <3>4 DEF ReadOK, BegunOK
  <2>5. v.pc = "read" /\ CallOK(v)
    BY <2>4 DEF CallOK
  <2>6. Stamped(v) => /\ Stamp(v) \in 1..clock'
                      /\ \A r \in Log : r.at # Stamp(v)
                      /\ \A o \in Calls \ {c} : Stamped(call[o]) => Stamp(call[o]) # Stamp(v)
    <3>1. (Stamped(v) <=> IsCommand(req)) /\ Stamp(v) = clock'
      BY DEF Stamped, Stamp
    <3>2. \A o \in Calls : Stamped(call[o]) => Stamp(call[o]) \in 1..clock
      BY DEF AdminInv, StampsOK
    <3> HIDE DEF v
    <3> QED BY <1>2, <2>1, <2>2, <3>1, <3>2
  <2> HIDE DEF v
  <2> QED BY <1>0, <2>1, <2>2, <2>5, <2>6, QuietStep
<1> QED BY <1>3, <1>4, <1>5

(***************************************************************************)
(* The decision under the lock.                                            *)
(***************************************************************************)

\* When the row of c's change is stamped.
At(c) == IF IsCommand(call[c].req) THEN call[c].at ELSE clock + 1

\* The row a call writes.
Entry(c, action, tenant, key, detail) ==
  [at |-> At(c), auth |-> call[c].auth, actor |-> call[c].actor,
   action |-> action, tenant |-> tenant, key |-> key, detail |-> detail]

\* No change to a table.
None == [del |-> {}, ins |-> {}]

\* A decision that may be answered, or held for the commit.
Good(c, d) ==
  /\ d.action = "none" => DoneOK(call[c].req, call[c].auth, d.answer)
  /\ d.action # "none" =>
       HeldOK(call[c].req, call[c].auth, call[c].seen, Entry(c, d.action, d.tenant, d.key, d.detail),
              Changes(db, d.after), d.answer)

\* A change to one table is the difference on it and nothing on the others.
LEMMA ChangesOf ==
  ASSUME DbOK, NEW X
  PROVE  /\ Changes(db, [db EXCEPT !.tenants = X]) =
              [tenants |-> [del |-> db.tenants \ X, ins |-> X \ db.tenants], keys |-> None, quotas |-> None, creds |-> None]
         /\ Changes(db, [db EXCEPT !.keys = X]) =
              [keys |-> [del |-> db.keys \ X, ins |-> X \ db.keys], tenants |-> None, quotas |-> None, creds |-> None]
         /\ Changes(db, [db EXCEPT !.quotas = X]) =
              [quotas |-> [del |-> db.quotas \ X, ins |-> X \ db.quotas], tenants |-> None, keys |-> None, creds |-> None]
         /\ Changes(db, [db EXCEPT !.creds = X]) =
              [creds |-> [del |-> db.creds \ X, ins |-> X \ db.creds], tenants |-> None, keys |-> None, quotas |-> None]
<1>1. DOMAIN db = {"tenants", "keys", "quotas", "creds"}
  BY DEF DbOK
<1>2. db = [tenants |-> db.tenants, keys |-> db.keys, quotas |-> db.quotas, creds |-> db.creds]
  BY DEF DbOK
<1>3. \A S : [del |-> S \ S, ins |-> S \ S] = None
  <2> TAKE S
  <2>1. S \ S = {}
    OBVIOUS
  <2> QED BY <2>1 DEF None
<1>4. ASSUME NEW a, NEW k, NEW q, NEW x
      PROVE  Changes(db, [tenants |-> a, keys |-> k, quotas |-> q, creds |-> x]) =
               [tenants |-> [del |-> db.tenants \ a, ins |-> a \ db.tenants], keys |-> [del |-> db.keys \ k, ins |-> k \ db.keys],
                quotas |-> [del |-> db.quotas \ q, ins |-> q \ db.quotas], creds |-> [del |-> db.creds \ x, ins |-> x \ db.creds]]
  <2> DEFINE b == [tenants |-> a, keys |-> k, quotas |-> q, creds |-> x]
             f == [table \in {"tenants", "keys", "quotas", "creds"} |-> [del |-> db[table] \ b[table], ins |-> b[table] \ db[table]]]
             g == [tenants |-> f["tenants"], keys |-> f["keys"], quotas |-> f["quotas"], creds |-> f["creds"]]
  <2>1. Changes(db, b) = f
    BY <1>1 DEF Changes
  <2>2. f = g
    <3>1. ASSUME NEW h, h = [table \in {"tenants", "keys", "quotas", "creds"} |-> h[table]]
          PROVE  h = [tenants |-> h["tenants"], keys |-> h["keys"], quotas |-> h["quotas"], creds |-> h["creds"]]
      BY <3>1
    <3>2. f = [table \in {"tenants", "keys", "quotas", "creds"} |-> f[table]]
      OBVIOUS
    <3> HIDE DEF f
    <3> QED BY <3>1, <3>2
  <2>3. /\ f["tenants"] = [del |-> db.tenants \ a, ins |-> a \ db.tenants]
        /\ f["keys"] = [del |-> db.keys \ k, ins |-> k \ db.keys]
        /\ f["quotas"] = [del |-> db.quotas \ q, ins |-> q \ db.quotas]
        /\ f["creds"] = [del |-> db.creds \ x, ins |-> x \ db.creds]
    OBVIOUS
  <2> HIDE DEF f
  <2> QED BY <2>1, <2>2, <2>3
<1>5. /\ [db EXCEPT !.tenants = X] = [tenants |-> X, keys |-> db.keys, quotas |-> db.quotas, creds |-> db.creds]
      /\ [db EXCEPT !.keys = X] = [tenants |-> db.tenants, keys |-> X, quotas |-> db.quotas, creds |-> db.creds]
      /\ [db EXCEPT !.quotas = X] = [tenants |-> db.tenants, keys |-> db.keys, quotas |-> X, creds |-> db.creds]
      /\ [db EXCEPT !.creds = X] = [tenants |-> db.tenants, keys |-> db.keys, quotas |-> db.quotas, creds |-> X]
  BY <1>2
<1>6. Changes(db, [db EXCEPT !.tenants = X]) =
        [tenants |-> [del |-> db.tenants \ X, ins |-> X \ db.tenants], keys |-> None, quotas |-> None, creds |-> None]
  BY <1>3, <1>4, <1>5
<1>7. Changes(db, [db EXCEPT !.keys = X]) =
        [keys |-> [del |-> db.keys \ X, ins |-> X \ db.keys], tenants |-> None, quotas |-> None, creds |-> None]
  BY <1>3, <1>4, <1>5
<1>8. Changes(db, [db EXCEPT !.quotas = X]) =
        [quotas |-> [del |-> db.quotas \ X, ins |-> X \ db.quotas], tenants |-> None, keys |-> None, creds |-> None]
  BY <1>3, <1>4, <1>5
<1>9. Changes(db, [db EXCEPT !.creds = X]) =
        [creds |-> [del |-> db.creds \ X, ins |-> X \ db.creds], tenants |-> None, keys |-> None, quotas |-> None]
  BY <1>3, <1>4, <1>5
<1> QED BY <1>6, <1>7, <1>8, <1>9

\* A row stamped now may follow every row of the log.
LEMMA NowFollows ==
  ASSUME AdminInv, NEW r, r.at = clock + 1, r.action \notin CredActs
  PROVE  \A x \in Log : Follows(x, r)
<1>1. \A x \in Log : x.at < r.at
  BY DEF AdminInv, LogOK, RowOK, StampsOK
<1> QED BY <1>1 DEF Follows, CredActs

\* The invariant, table by table.
LEMMA ViewIs ==
  ASSUME AdminInv
  PROVE  /\ View.tenants = db.tenants /\ View.keys = db.keys /\ View.quotas = db.quotas /\ View.creds = Live(db.creds)
         /\ View = [tenants |-> db.tenants, keys |-> db.keys, quotas |-> db.quotas, creds |-> Live(db.creds)]
         /\ TenantsOf(Log) = db.tenants /\ KeysOf(Log) = db.keys /\ QuotasOf(Log) = db.quotas /\ CredsOf(Log) = Live(db.creds)
<1>1. View = [tenants |-> db.tenants, keys |-> db.keys, quotas |-> db.quotas, creds |-> Live(db.creds)]
  BY DEF AdminInv, DbOK, View
<1>2. Told(Log) = View
  BY DEF AdminInv
<1> QED BY <1>1, <1>2 DEF Told

\* Ids are never zero, nor the next one.
LEMMA IdsUsed ==
  ASSUME AdminInv
  PROVE  /\ \A t \in db.tenants : t.id \in 1..clock
         /\ \A k \in db.keys : k.id \in 1..clock /\ k.tenant \in 1..clock
         /\ clock \in Nat
<1>1. clock \in Nat /\ \A r \in Log : r.at \in 1..clock
  BY DEF AdminInv, StampsOK, LogOK, RowOK
<1>2. \A t \in db.tenants : t.id \in 1..clock
  BY <1>1 DEF AdminInv, Linked
<1>3. \A k \in db.keys : k.id \in 1..clock
  BY <1>1 DEF AdminInv, Linked
<1> QED BY <1>1, <1>2, <1>3 DEF AdminInv, DbOK

\* The lock of each operation.
LEMMA LockIs ==
  ASSUME NEW req, ReqOK(req), NEW seen
  PROVE  /\ req.op = "CreateTenant" => LockOf(req, seen) = <<"external_id", req.ext>>
         /\ req.op \in CredOps => LockOf(req, seen) = <<"name", req.name>>
         /\ req.op \in KeyOps => LockOf(req, seen) = <<"tenant", seen.tenant>>
         /\ req.op \in RefOps => LockOf(req, seen) = <<"tenant", seen.id>>
         /\ IsCommand(req) <=> req.op \in CredOps
<1>1. "key" \in DOMAIN req <=> req.op \in KeyOps
  BY DEF ReqOK
<1>2. CASE req.op = "CreateTenant"
  <2>1. req.op \notin CredOps /\ req.op \notin KeyOps /\ req.op \notin RefOps /\ ~IsCommand(req)
    BY <1>2 DEF IsCommand, CredOps, KeyOps, RefOps
  <2> QED BY <1>1, <1>2, <2>1 DEF LockOf
<1>3. CASE req.op \in CredOps
  <2>1. req.op # "CreateTenant" /\ req.op \notin KeyOps /\ req.op \notin RefOps /\ IsCommand(req)
    BY <1>3 DEF IsCommand, CredOps, KeyOps, RefOps
  <2> QED BY <1>1, <1>3, <2>1 DEF LockOf
<1>4. CASE req.op \in KeyOps
  <2>1. req.op # "CreateTenant" /\ req.op \notin CredOps /\ req.op \notin RefOps /\ ~IsCommand(req)
    BY <1>4 DEF IsCommand, CredOps, KeyOps, RefOps
  <2> QED BY <1>1, <1>4, <2>1 DEF LockOf
<1>5. CASE req.op \in RefOps
  <2>1. req.op # "CreateTenant" /\ req.op \notin CredOps /\ req.op \notin KeyOps /\ ~IsCommand(req)
    BY <1>5 DEF IsCommand, CredOps, KeyOps, RefOps
  <2> QED BY <1>1, <1>5, <2>1 DEF LockOf
<1> QED BY <1>2, <1>3, <1>4, <1>5 DEF ReqOK

\* What a call that has read may count on.
LEMMA ReadFacts ==
  ASSUME AdminInv, NEW c \in Calls, call[c].pc = "read"
  PROVE  /\ ReadOK(call[c].req, call[c].actor, call[c].auth, call[c].seen, call[c].at)
         /\ ReqOK(call[c].req) /\ LetIn(call[c].actor, call[c].auth) /\ call[c].auth \in 0..Len(log)
         /\ call[c].auth \in Nat /\ call[c].actor \in Names \cup {"cli"}
         /\ DbOK /\ LogOK /\ Linked
<1>1. ReadOK(call[c].req, call[c].actor, call[c].auth, call[c].seen, call[c].at) /\ DbOK /\ LogOK /\ Linked
  BY DEF AdminInv, CallOK
<1> QED BY <1>1, RowsOfLog DEF ReadOK, LetIn

\* A change of a tenant's row, by UpdateTenant, DisableTenant or EnableTenant.
LEMMA TenantChange ==
  ASSUME AdminInv, NEW c \in Calls, call[c].pc = "read", call[c].req.op \in {"UpdateTenant", "DisableTenant", "EnableTenant"},
         NEW t \in db.tenants, t.id = call[c].seen.id,
         NEW u \in TenantRow, u.id = t.id, u.ext = t.ext, u # t,
         NEW a \in {"tenant.update", "tenant.disable", "tenant.enable"}, a # "tenant.update" => u.doc = t.doc
  PROVE  HeldOK(call[c].req, call[c].auth, call[c].seen, Entry(c, a, t.id, 0, u),
                Changes(db, [db EXCEPT !.tenants = (db.tenants \ {t}) \cup {u}]), [what |-> "ok", id |-> t.id])
<1> DEFINE req == call[c].req
           seen == call[c].seen
           r == Entry(c, a, t.id, 0, u)
           ch == Changes(db, [db EXCEPT !.tenants = (db.tenants \ {t}) \cup {u}])
<1>0. ReadOK(req, call[c].actor, call[c].auth, seen, call[c].at) /\ ReqOK(req) /\ LetIn(call[c].actor, call[c].auth)
      /\ call[c].auth \in 0..Len(log) /\ call[c].auth \in Nat /\ call[c].actor \in Names \cup {"cli"} /\ DbOK /\ LogOK /\ Linked
  BY ReadFacts
<1>1. req.op \in RefOps /\ req.op # "CreateTenant" /\ req.op \notin CredOps
  BY DEF RefOps, CredOps
<1>2. LockOf(req, seen) = <<"tenant", seen.id>> /\ ~IsCommand(req)
  BY <1>0, <1>1, LockIs
<1>3. /\ r.at = clock + 1 /\ r.auth = call[c].auth /\ r.actor = call[c].actor /\ r.action = a
      /\ r.tenant = t.id /\ r.key = 0 /\ r.detail = u
  BY <1>2 DEF Entry, At
<1>4. t.id \in 1..clock /\ clock \in Nat /\ clock + 1 \in Nat /\ clock + 1 > 0
  BY IdsUsed
<1>5. r \in AuditRow
  BY <1>0, <1>2, <1>4 DEF Entry, At, AuditRow, TenantActs
<1> HIDE DEF r
<1>6. /\ a \in TenantActs /\ a \notin KeyActs /\ a \notin QuotaActs /\ a \notin CredActs /\ a # "tenant.create"
      /\ a \notin {"key.create", "key.update", "key.revoke", "admin_credential.create", "admin_credential.revoke"}
      /\ a \notin {"quota.replace", "quota.upsert"} /\ a # "quota.delete" /\ a # "quota.replace" /\ a # "quota.upsert"
  BY DEF TenantActs, KeyActs, QuotaActs, CredActs
<1>7. RowOK(r)
  BY <1>3, <1>4, <1>6 DEF RowOK
<1>8. {x \in db.tenants : x.id = t.id} = {t}
  BY <1>0 DEF DbOK
<1>9. Legal(View, r) /\ FirstOfName(Log, r)
  BY <1>3, <1>6, <1>8, ViewIs DEF Legal, FirstOfName
<1>10. Deltas(r, ch)
  <2>1. u \notin db.tenants
    BY <1>8
  <2>2. /\ db.tenants \ ((db.tenants \ {t}) \cup {u}) = {t}
        /\ ((db.tenants \ {t}) \cup {u}) \ db.tenants = {u}
    BY <2>1
  <2>3. ch = [tenants |-> [del |-> {t}, ins |-> {u}], keys |-> None, quotas |-> None, creds |-> None]
    BY <1>0, <2>2, ChangesOf
  <2>4. Adds(r) = {} /\ {q \in db.quotas : Clears(r, q)} = {}
    BY <1>3, <1>6 DEF Adds, Clears
  <2> HIDE DEF ch
  <2> QED BY <1>3, <1>6, <1>8, <2>3, <2>4 DEF Deltas, None
<1>11. LockFits(req, seen, r)
  BY <1>2, <1>3, <1>6, <1>8 DEF LockFits
<1>12. \A x \in Log : Follows(x, r)
  BY <1>3, <1>6, NowFollows
<1> HIDE DEF ch
<1>13. HeldOK(req, call[c].auth, seen, r, ch, [what |-> "ok", id |-> t.id])
  BY <1>0, <1>1, <1>3, <1>5, <1>7, <1>9, <1>10, <1>11, <1>12 DEF HeldOK
<1> QED BY <1>13 DEF r, ch

\* The row a call locks is there, and of the tenant it locked.
LEMMA Locked ==
  ASSUME AdminInv, NEW c \in Calls, call[c].pc = "read"
  PROVE  /\ call[c].req.op \in RefOps => lockTenant(c) \in db.tenants /\ lockTenant(c).id = call[c].seen.id
         /\ call[c].req.op \in KeyOps =>
              lockKey(c) \in db.keys /\ lockKey(c).id = call[c].seen.id /\ lockKey(c).tenant = call[c].seen.tenant
<1>0. ReadOK(call[c].req, call[c].actor, call[c].auth, call[c].seen, call[c].at) /\ DbOK
  BY ReadFacts
<1>1. ASSUME call[c].req.op \in RefOps PROVE lockTenant(c) \in db.tenants /\ lockTenant(c).id = call[c].seen.id
  <2>1. GetTenant(db, call[c].seen.id) # {}
    BY <1>0, <1>1 DEF ReadOK, GetTenant
  <2>2. lockTenant(c) \in GetTenant(db, call[c].seen.id)
    BY <2>1 DEF lockTenant, LockTenant, The
  <2> QED BY <2>2 DEF GetTenant
<1>2. ASSUME call[c].req.op \in KeyOps
      PROVE  lockKey(c) \in db.keys /\ lockKey(c).id = call[c].seen.id /\ lockKey(c).tenant = call[c].seen.tenant
  <2>1. PICK k \in db.keys : k.id = call[c].seen.id /\ k.tenant = call[c].seen.tenant
    BY <1>0, <1>2 DEF ReadOK
  <2>2. GetAPIKey(db, call[c].seen.id) = {k}
    BY <1>0, <2>1 DEF GetAPIKey, DbOK
  <2>3. lockKey(c) = k
    BY <2>2 DEF lockKey, The
  <2> QED BY <2>1, <2>3
<1> QED BY <1>1, <1>2

\* An UPDATE of one row.
LEMMA OneTenant ==
  ASSUME DbOK, NEW t \in db.tenants, NEW doc
  PROVE  /\ UpdateTenantRow(db, t.id, doc) =
              [db |-> [db EXCEPT !.tenants = (db.tenants \ {t}) \cup {[t EXCEPT !.doc = doc]}], rows |-> {[t EXCEPT !.doc = doc]}]
         /\ ~t.disabled => DisableTenantRow(db, t.id) =
              [db |-> [db EXCEPT !.tenants = (db.tenants \ {t}) \cup {[t EXCEPT !.disabled = TRUE]}], rows |-> {[t EXCEPT !.disabled = TRUE]}]
         /\ t.disabled => EnableTenantRow(db, t.id) =
              [db |-> [db EXCEPT !.tenants = (db.tenants \ {t}) \cup {[t EXCEPT !.disabled = FALSE]}], rows |-> {[t EXCEPT !.disabled = FALSE]}]
<1>1. GetTenant(db, t.id) = {t}
  BY DEF DbOK, GetTenant
<1>2. /\ ~t.disabled => {x \in GetTenant(db, t.id) : ~x.disabled} = {t}
      /\ t.disabled => {x \in GetTenant(db, t.id) : x.disabled} = {t}
  BY <1>1
<1>3. UpdateTenantRow(db, t.id, doc) =
        [db |-> [db EXCEPT !.tenants = (db.tenants \ {t}) \cup {[t EXCEPT !.doc = doc]}], rows |-> {[t EXCEPT !.doc = doc]}]
  <2>1. {[x EXCEPT !.doc = doc] : x \in {t}} = {[t EXCEPT !.doc = doc]}
    OBVIOUS
  <2> QED BY <1>1, <2>1 DEF UpdateTenantRow, Update
<1>4. ~t.disabled => DisableTenantRow(db, t.id) =
        [db |-> [db EXCEPT !.tenants = (db.tenants \ {t}) \cup {[t EXCEPT !.disabled = TRUE]}], rows |-> {[t EXCEPT !.disabled = TRUE]}]
  <2>1. {[x EXCEPT !.disabled = TRUE] : x \in {t}} = {[t EXCEPT !.disabled = TRUE]}
    OBVIOUS
  <2> QED BY <1>2, <2>1 DEF DisableTenantRow, Update
<1>5. t.disabled => EnableTenantRow(db, t.id) =
        [db |-> [db EXCEPT !.tenants = (db.tenants \ {t}) \cup {[t EXCEPT !.disabled = FALSE]}], rows |-> {[t EXCEPT !.disabled = FALSE]}]
  <2>1. {[x EXCEPT !.disabled = FALSE] : x \in {t}} = {[t EXCEPT !.disabled = FALSE]}
    OBVIOUS
  <2> QED BY <1>2, <2>1 DEF EnableTenantRow, Update
<1> QED BY <1>3, <1>4, <1>5

\* An answer that says ok to a call on a tenant or a key explains itself.
LEMMA PlainAnswer ==
  ASSUME AdminInv, NEW c \in Calls, call[c].pc = "read", call[c].req.op # "CreateTenant", NEW what \in {"ok", "conflict"}, NEW id
  PROVE  Good(c, Answer(what, id))
<1>1. Answer(what, id).action = "none" /\ Answer(what, id).answer.what = what
  BY DEF Answer
<1>2. ReqOK(call[c].req) /\ call[c].auth \in 0..Len(log)
  BY ReadFacts
<1> QED BY <1>1, <1>2 DEF Good, DoneOK

\* What found gives for one row.
LEMMA FoundOne ==
  ASSUME NEW after, NEW rows, rows # {}, NEW action, NEW tenant, NEW key, NEW detail, NEW id
  PROVE  found([db |-> after, rows |-> rows], action, tenant, key, detail, id) =
           [answer |-> [what |-> "ok", id |-> id], after |-> after,
            action |-> action, tenant |-> tenant, key |-> key, detail |-> detail]
BY DEF found

\* A decision to change that can be held is a good one.
LEMMA GoodHeld ==
  ASSUME NEW c \in Calls, NEW after, NEW action, action # "none", NEW tenant, NEW key, NEW detail, NEW id,
         HeldOK(call[c].req, call[c].auth, call[c].seen, Entry(c, action, tenant, key, detail), Changes(db, after), [what |-> "ok", id |-> id])
  PROVE  Good(c, [answer |-> [what |-> "ok", id |-> id], after |-> after,
                  action |-> action, tenant |-> tenant, key |-> key, detail |-> detail])
BY DEF Good

\* The changes to a tenant decide well.
LEMMA TenantOps ==
  ASSUME AdminInv, NEW c \in Calls, call[c].pc = "read"
  PROVE  /\ call[c].req.op = "UpdateTenant" => Good(c, UpdateTenant(lockTenant(c), call[c].req))
         /\ call[c].req.op = "DisableTenant" => Good(c, DisableTenant(lockTenant(c)))
         /\ call[c].req.op = "EnableTenant" => Good(c, EnableTenant(lockTenant(c)))
<1>0. DbOK /\ ReqOK(call[c].req)
  BY ReadFacts
<1> DEFINE req == call[c].req
           t == lockTenant(c)
<1>1. req.op \in {"UpdateTenant", "DisableTenant", "EnableTenant"} => /\ req.op \in RefOps /\ req.op # "CreateTenant"
                                                                     /\ t \in db.tenants /\ t.id = call[c].seen.id /\ t \in TenantRow
  BY <1>0, Locked DEF RefOps, DbOK
<1> HIDE DEF t
<1>2. ASSUME NEW u, u \in TenantRow, u.id = t.id, u.ext = t.ext, u # t, req.op \in {"UpdateTenant", "DisableTenant", "EnableTenant"},
             NEW a \in {"tenant.update", "tenant.disable", "tenant.enable"}, a # "tenant.update" => u.doc = t.doc
      PROVE  Good(c, found([db |-> [db EXCEPT !.tenants = (db.tenants \ {t}) \cup {u}], rows |-> {u}], a, t.id, 0, The({u}), t.id))
  <2>1. The({u}) = u
    BY DEF The
  <2> DEFINE after == [db EXCEPT !.tenants = (db.tenants \ {t}) \cup {u}]
  <2>2. HeldOK(call[c].req, call[c].auth, call[c].seen, Entry(c, a, t.id, 0, u), Changes(db, after), [what |-> "ok", id |-> t.id])
    BY <1>1, <1>2, TenantChange
  <2>3. found([db |-> after, rows |-> {u}], a, t.id, 0, u, t.id) =
           [answer |-> [what |-> "ok", id |-> t.id], after |-> after, action |-> a, tenant |-> t.id, key |-> 0, detail |-> u]
    BY FoundOne
  <2>4. a # "none"
    OBVIOUS
  <2> HIDE DEF after
  <2>5. Good(c, found([db |-> after, rows |-> {u}], a, t.id, 0, u, t.id))
    BY <2>2, <2>3, <2>4, GoodHeld
  <2> QED BY <2>1, <2>5 DEF after
<1>3. ASSUME req.op = "UpdateTenant" PROVE Good(c, UpdateTenant(t, req))
  <2> DEFINE u == [t EXCEPT !.doc = req.doc]
  <2>1. CASE t.doc = req.doc
    BY <1>1, <1>3, <2>1, PlainAnswer DEF UpdateTenant
  <2>2. CASE t.doc # req.doc
    <3>1. u \in TenantRow /\ u.id = t.id /\ u.ext = t.ext /\ u # t
      BY <1>0, <1>1, <1>3, <2>2 DEF TenantRow, ReqOK
    <3>2. UpdateTenant(t, req) = found([db |-> [db EXCEPT !.tenants = (db.tenants \ {t}) \cup {u}], rows |-> {u}], "tenant.update", t.id, 0, The({u}), t.id)
      <4>1. UpdateTenantRow(db, t.id, req.doc) = [db |-> [db EXCEPT !.tenants = (db.tenants \ {t}) \cup {u}], rows |-> {u}]
        BY <1>0, <1>1, <1>3, <2>2, OneTenant
      <4>2. UpdateTenantRow(db, t.id, req.doc).rows = {u}
        BY <4>1
      <4>3. UpdateTenant(t, req) = found(UpdateTenantRow(db, t.id, req.doc), "tenant.update", t.id, 0, The(UpdateTenantRow(db, t.id, req.doc).rows), t.id)
        BY <2>2 DEF UpdateTenant
      <4> HIDE DEF u
      <4> QED BY <4>1, <4>2, <4>3
    <3> HIDE DEF u
    <3> QED BY <1>2, <1>3, <3>1, <3>2
  <2> QED BY <2>1, <2>2
<1>4. ASSUME req.op = "DisableTenant" PROVE Good(c, DisableTenant(t))
  <2> DEFINE u == [t EXCEPT !.disabled = TRUE]
  <2>1. CASE t.disabled
    BY <1>1, <1>4, <2>1, PlainAnswer DEF DisableTenant
  <2>2. CASE ~t.disabled
    <3>1. u \in TenantRow /\ u.id = t.id /\ u.ext = t.ext /\ u.doc = t.doc /\ u # t
      BY <1>1, <1>4, <2>2 DEF TenantRow
    <3>2. DisableTenant(t) = found([db |-> [db EXCEPT !.tenants = (db.tenants \ {t}) \cup {u}], rows |-> {u}], "tenant.disable", t.id, 0, The({u}), t.id)
      <4>1. DisableTenantRow(db, t.id) = [db |-> [db EXCEPT !.tenants = (db.tenants \ {t}) \cup {u}], rows |-> {u}]
        BY <1>0, <1>1, <1>4, <2>2, OneTenant
      <4>2. DisableTenantRow(db, t.id).rows = {u}
        BY <4>1
      <4>3. DisableTenant(t) = found(DisableTenantRow(db, t.id), "tenant.disable", t.id, 0, The(DisableTenantRow(db, t.id).rows), t.id)
        BY <2>2 DEF DisableTenant
      <4> HIDE DEF u
      <4> QED BY <4>1, <4>2, <4>3
    <3> HIDE DEF u
    <3> QED BY <1>2, <1>4, <3>1, <3>2
  <2> QED BY <2>1, <2>2
<1>5. ASSUME req.op = "EnableTenant" PROVE Good(c, EnableTenant(t))
  <2> DEFINE u == [t EXCEPT !.disabled = FALSE]
  <2>1. CASE ~t.disabled
    BY <1>1, <1>5, <2>1, PlainAnswer DEF EnableTenant
  <2>2. CASE t.disabled
    <3>1. u \in TenantRow /\ u.id = t.id /\ u.ext = t.ext /\ u.doc = t.doc /\ u # t
      BY <1>1, <1>5, <2>2 DEF TenantRow
    <3>2. EnableTenant(t) = found([db |-> [db EXCEPT !.tenants = (db.tenants \ {t}) \cup {u}], rows |-> {u}], "tenant.enable", t.id, 0, The({u}), t.id)
      <4>1. EnableTenantRow(db, t.id) = [db |-> [db EXCEPT !.tenants = (db.tenants \ {t}) \cup {u}], rows |-> {u}]
        BY <1>0, <1>1, <1>5, <2>2, OneTenant
      <4>2. EnableTenantRow(db, t.id).rows = {u}
        BY <4>1
      <4>3. EnableTenant(t) = found(EnableTenantRow(db, t.id), "tenant.enable", t.id, 0, The(EnableTenantRow(db, t.id).rows), t.id)
        BY <2>2 DEF EnableTenant
      <4> HIDE DEF u
      <4> QED BY <4>1, <4>2, <4>3
    <3> HIDE DEF u
    <3> QED BY <1>2, <1>5, <3>1, <3>2
  <2> QED BY <2>1, <2>2
<1> QED BY <1>3, <1>4, <1>5 DEF t

\* A change of a key's row, by UpdateAPIKey or RevokeAPIKey.
LEMMA KeyChange ==
  ASSUME AdminInv, NEW c \in Calls, call[c].pc = "read", call[c].req.op \in KeyOps,
         NEW k \in db.keys, k.id = call[c].seen.id, k.tenant = call[c].seen.tenant, ~k.revoked,
         NEW u \in KeyRow, u.id = k.id, u.tenant = k.tenant, u # k,
         NEW a \in {"key.update", "key.revoke"}
  PROVE  HeldOK(call[c].req, call[c].auth, call[c].seen, Entry(c, a, k.tenant, k.id, u),
                Changes(db, [db EXCEPT !.keys = (db.keys \ {k}) \cup {u}]), [what |-> "ok", id |-> k.id])
<1> DEFINE req == call[c].req
           seen == call[c].seen
           r == Entry(c, a, k.tenant, k.id, u)
           ch == Changes(db, [db EXCEPT !.keys = (db.keys \ {k}) \cup {u}])
<1>0. ReqOK(req) /\ LetIn(call[c].actor, call[c].auth)
      /\ call[c].auth \in 0..Len(log) /\ call[c].auth \in Nat /\ call[c].actor \in Names \cup {"cli"} /\ DbOK /\ LogOK /\ Linked
  BY ReadFacts
<1>1. req.op # "CreateTenant" /\ req.op \notin CredOps
  BY DEF KeyOps, CredOps
<1>2. LockOf(req, seen) = <<"tenant", seen.tenant>> /\ ~IsCommand(req)
  BY <1>0, <1>1, LockIs
<1>3. /\ r.at = clock + 1 /\ r.auth = call[c].auth /\ r.actor = call[c].actor /\ r.action = a
      /\ r.tenant = k.tenant /\ r.key = k.id /\ r.detail = u
  BY <1>2 DEF Entry, At
<1>4. k.id \in 1..clock /\ k.tenant \in 1..clock /\ clock \in Nat /\ clock + 1 \in Nat /\ clock + 1 > 0
  BY IdsUsed
<1>5. r \in AuditRow
  BY <1>0, <1>2, <1>4 DEF Entry, At, AuditRow, KeyActs
<1> HIDE DEF r
<1>6. /\ a \in KeyActs /\ a \notin TenantActs /\ a \notin QuotaActs /\ a \notin CredActs /\ a # "tenant.create" /\ a # "key.create"
      /\ a \notin {"admin_credential.create", "admin_credential.revoke"}
      /\ a \notin {"quota.replace", "quota.upsert"} /\ a # "quota.delete" /\ a # "quota.replace" /\ a # "quota.upsert"
  BY DEF TenantActs, KeyActs, QuotaActs, CredActs
<1>7. RowOK(r)
  BY <1>3, <1>4, <1>6 DEF RowOK
<1>8. {x \in db.keys : x.id = k.id} = {k} /\ {x \in db.tenants : x.id = k.tenant} # {}
  BY <1>0 DEF DbOK
<1>9. Legal(View, r) /\ FirstOfName(Log, r)
  BY <1>3, <1>6, <1>8, ViewIs DEF Legal, FirstOfName
<1>10. Deltas(r, ch)
  <2>1. u \notin db.keys
    BY <1>8
  <2>2. /\ db.keys \ ((db.keys \ {k}) \cup {u}) = {k}
        /\ ((db.keys \ {k}) \cup {u}) \ db.keys = {u}
    BY <2>1
  <2>3. ch = [keys |-> [del |-> {k}, ins |-> {u}], tenants |-> None, quotas |-> None, creds |-> None]
    BY <1>0, <2>2, ChangesOf
  <2>4. Adds(r) = {} /\ {q \in db.quotas : Clears(r, q)} = {}
    BY <1>3, <1>6 DEF Adds, Clears
  <2> HIDE DEF ch
  <2> QED BY <1>3, <1>6, <1>8, <2>3, <2>4 DEF Deltas, None
<1>11. LockFits(req, seen, r)
  BY <1>2, <1>3, <1>6, <1>8 DEF LockFits
<1>12. \A x \in Log : Follows(x, r)
  BY <1>3, <1>6, NowFollows
<1> HIDE DEF ch
<1>13. HeldOK(req, call[c].auth, seen, r, ch, [what |-> "ok", id |-> k.id])
  BY <1>0, <1>1, <1>3, <1>5, <1>7, <1>9, <1>10, <1>11, <1>12 DEF HeldOK
<1> QED BY <1>13 DEF r, ch

\* An update of a live key touches that key alone.
LEMMA OneKey ==
  ASSUME DbOK, NEW k \in db.keys, ~k.revoked, NEW allow
  PROVE  /\ UpdateAPIKeyAllowlist(db, k.id, allow) =
              [db |-> [db EXCEPT !.keys = (db.keys \ {k}) \cup {[k EXCEPT !.allow = allow]}], rows |-> {[k EXCEPT !.allow = allow]}]
         /\ RevokeAPIKeyRow(db, k.id) =
              [db |-> [db EXCEPT !.keys = (db.keys \ {k}) \cup {[k EXCEPT !.revoked = TRUE]}], rows |-> {[k EXCEPT !.revoked = TRUE]}]
<1>1. {x \in GetAPIKey(db, k.id) : ~x.revoked} = {k}
  BY DEF DbOK, GetAPIKey
<1>2. {[x EXCEPT !.allow = allow] : x \in {k}} = {[k EXCEPT !.allow = allow]}
  OBVIOUS
<1>3. {[x EXCEPT !.revoked = TRUE] : x \in {k}} = {[k EXCEPT !.revoked = TRUE]}
  OBVIOUS
<1>4. UpdateAPIKeyAllowlist(db, k.id, allow) =
        [db |-> [db EXCEPT !.keys = (db.keys \ {k}) \cup {[k EXCEPT !.allow = allow]}], rows |-> {[k EXCEPT !.allow = allow]}]
  BY <1>1, <1>2 DEF UpdateAPIKeyAllowlist, Update
<1>5. RevokeAPIKeyRow(db, k.id) =
        [db |-> [db EXCEPT !.keys = (db.keys \ {k}) \cup {[k EXCEPT !.revoked = TRUE]}], rows |-> {[k EXCEPT !.revoked = TRUE]}]
  BY <1>1, <1>3 DEF RevokeAPIKeyRow, Update
<1> QED BY <1>4, <1>5

\* The changes to a key decide well.
LEMMA KeyDecisions ==
  ASSUME AdminInv, NEW c \in Calls, call[c].pc = "read"
  PROVE  /\ call[c].req.op = "UpdateAPIKey" => Good(c, UpdateAPIKey(lockKey(c), call[c].req))
         /\ call[c].req.op = "RevokeAPIKey" => Good(c, RevokeAPIKey(lockKey(c)))
<1>0. DbOK /\ ReqOK(call[c].req)
  BY ReadFacts
<1> DEFINE req == call[c].req
           k == lockKey(c)
<1>1. req.op \in {"UpdateAPIKey", "RevokeAPIKey"} =>
        /\ req.op \in KeyOps /\ req.op # "CreateTenant"
        /\ k \in db.keys /\ k.id = call[c].seen.id /\ k.tenant = call[c].seen.tenant /\ k \in KeyRow
  BY <1>0, Locked DEF KeyOps, DbOK
<1> HIDE DEF k
<1>2. ASSUME NEW u, u \in KeyRow, u.id = k.id, u.tenant = k.tenant, u # k, ~k.revoked, req.op \in {"UpdateAPIKey", "RevokeAPIKey"},
             NEW a \in {"key.update", "key.revoke"}
      PROVE  Good(c, found([db |-> [db EXCEPT !.keys = (db.keys \ {k}) \cup {u}], rows |-> {u}], a, k.tenant, k.id, The({u}), k.id))
  <2>1. The({u}) = u
    BY DEF The
  <2> DEFINE after == [db EXCEPT !.keys = (db.keys \ {k}) \cup {u}]
  <2>2. HeldOK(call[c].req, call[c].auth, call[c].seen, Entry(c, a, k.tenant, k.id, u), Changes(db, after), [what |-> "ok", id |-> k.id])
    BY <1>1, <1>2, KeyChange
  <2>3. found([db |-> after, rows |-> {u}], a, k.tenant, k.id, u, k.id) =
           [answer |-> [what |-> "ok", id |-> k.id], after |-> after, action |-> a, tenant |-> k.tenant, key |-> k.id, detail |-> u]
    <3>1. {u} # {}
      OBVIOUS
    <3> HIDE DEF after
    <3> QED BY <3>1, FoundOne
  <2>4. a # "none"
    OBVIOUS
  <2> HIDE DEF after
  <2>5. Good(c, found([db |-> after, rows |-> {u}], a, k.tenant, k.id, u, k.id))
    BY <2>2, <2>3, <2>4, GoodHeld
  <2> QED BY <2>1, <2>5 DEF after
<1>3. ASSUME req.op = "UpdateAPIKey" PROVE Good(c, UpdateAPIKey(k, req))
  <2> DEFINE u == [k EXCEPT !.allow = req.allow]
  <2>1. CASE k.revoked \/ k.allow = req.allow
    BY <1>1, <1>3, <2>1, PlainAnswer DEF UpdateAPIKey
  <2>2. CASE ~k.revoked /\ k.allow # req.allow
    <3>1. u \in KeyRow /\ u.id = k.id /\ u.tenant = k.tenant /\ u # k
      BY <1>0, <1>1, <1>3, <2>2 DEF KeyRow, ReqOK
    <3>2. UpdateAPIKey(k, req) = found([db |-> [db EXCEPT !.keys = (db.keys \ {k}) \cup {u}], rows |-> {u}], "key.update", k.tenant, k.id, The({u}), k.id)
      <4>1. UpdateAPIKeyAllowlist(db, k.id, req.allow) = [db |-> [db EXCEPT !.keys = (db.keys \ {k}) \cup {u}], rows |-> {u}]
        BY <1>0, <1>1, <1>3, <2>2, OneKey
      <4>2. UpdateAPIKeyAllowlist(db, k.id, req.allow).rows = {u}
        BY <4>1
      <4>3. UpdateAPIKey(k, req) = found(UpdateAPIKeyAllowlist(db, k.id, req.allow), "key.update", k.tenant, k.id, The(UpdateAPIKeyAllowlist(db, k.id, req.allow).rows), k.id)
        BY <2>2 DEF UpdateAPIKey
      <4> HIDE DEF u
      <4> QED BY <4>1, <4>2, <4>3
    <3> HIDE DEF u
    <3> QED BY <1>2, <1>3, <2>2, <3>1, <3>2
  <2> QED BY <2>1, <2>2
<1>4. ASSUME req.op = "RevokeAPIKey" PROVE Good(c, RevokeAPIKey(k))
  <2> DEFINE u == [k EXCEPT !.revoked = TRUE]
  <2>1. CASE k.revoked
    BY <1>1, <1>4, <2>1, PlainAnswer DEF RevokeAPIKey
  <2>2. CASE ~k.revoked
    <3>1. u \in KeyRow /\ u.id = k.id /\ u.tenant = k.tenant /\ u # k
      BY <1>1, <1>4, <2>2 DEF KeyRow
    <3>2. RevokeAPIKey(k) = found([db |-> [db EXCEPT !.keys = (db.keys \ {k}) \cup {u}], rows |-> {u}], "key.revoke", k.tenant, k.id, The({u}), k.id)
      <4>1. RevokeAPIKeyRow(db, k.id) = [db |-> [db EXCEPT !.keys = (db.keys \ {k}) \cup {u}], rows |-> {u}]
        BY <1>0, <1>1, <1>4, <2>2, OneKey
      <4>2. RevokeAPIKeyRow(db, k.id).rows = {u}
        BY <4>1
      <4>3. RevokeAPIKey(k) = found(RevokeAPIKeyRow(db, k.id), "key.revoke", k.tenant, k.id, The(RevokeAPIKeyRow(db, k.id).rows), k.id)
        BY <2>2 DEF RevokeAPIKey
      <4> HIDE DEF u
      <4> QED BY <4>1, <4>2, <4>3
    <3> HIDE DEF u
    <3> QED BY <1>2, <1>4, <2>2, <3>1, <3>2
  <2> QED BY <2>1, <2>2
<1> QED BY <1>3, <1>4 DEF k

\* A new tenant's id is the clock's next, and its external id is nobody's.
LEMMA NewTenant ==
  ASSUME AdminInv, NEW c \in Calls, call[c].pc = "read", call[c].req.op = "CreateTenant",
         \A x \in db.tenants : x.ext # call[c].req.ext,
         NEW u \in TenantRow, u.id = clock + 1, u.ext = call[c].req.ext
  PROVE  HeldOK(call[c].req, call[c].auth, call[c].seen, Entry(c, "tenant.create", clock + 1, 0, u),
                Changes(db, [db EXCEPT !.tenants = db.tenants \cup {u}]), [what |-> "ok", id |-> clock + 1])
<1> DEFINE req == call[c].req
           seen == call[c].seen
           a == "tenant.create"
           r == Entry(c, a, clock + 1, 0, u)
           ch == Changes(db, [db EXCEPT !.tenants = db.tenants \cup {u}])
<1>0. ReqOK(req) /\ LetIn(call[c].actor, call[c].auth)
      /\ call[c].auth \in 0..Len(log) /\ call[c].auth \in Nat /\ call[c].actor \in Names \cup {"cli"} /\ DbOK /\ LogOK /\ Linked
  BY ReadFacts
<1>1. req.op \notin CredOps
  BY DEF CredOps
<1>2. LockOf(req, seen) = <<"external_id", req.ext>> /\ ~IsCommand(req)
  BY <1>0, <1>1, LockIs
<1>3. /\ r.at = clock + 1 /\ r.auth = call[c].auth /\ r.actor = call[c].actor /\ r.action = a
      /\ r.tenant = clock + 1 /\ r.key = 0 /\ r.detail = u
  BY <1>2 DEF Entry, At
<1>4. clock \in Nat /\ clock + 1 \in Nat /\ clock + 1 > 0 /\ \A x \in db.tenants : x.id # clock + 1
  BY IdsUsed
<1>5. r \in AuditRow
  BY <1>0, <1>2, <1>4 DEF Entry, At, AuditRow, TenantActs
<1> HIDE DEF r
<1>6. /\ a \in TenantActs /\ a \notin KeyActs /\ a \notin QuotaActs /\ a \notin CredActs
      /\ a \notin {"key.create", "key.update", "key.revoke", "admin_credential.create", "admin_credential.revoke"}
      /\ a \notin {"quota.replace", "quota.upsert"} /\ a # "quota.delete" /\ a # "quota.replace" /\ a # "quota.upsert"
  BY DEF TenantActs, KeyActs, QuotaActs, CredActs
<1>7. RowOK(r)
  BY <1>3, <1>4, <1>6 DEF RowOK
<1>8. {x \in db.tenants : x.id = clock + 1} = {} /\ u \notin db.tenants
  BY <1>4
<1>9. Legal(View, r) /\ FirstOfName(Log, r)
  BY <1>3, <1>6, <1>8, ViewIs DEF Legal, FirstOfName
<1>10. Deltas(r, ch)
  <2>2. /\ db.tenants \ (db.tenants \cup {u}) = {}
        /\ (db.tenants \cup {u}) \ db.tenants = {u}
    BY <1>8
  <2>3. ch = [tenants |-> [del |-> {}, ins |-> {u}], keys |-> None, quotas |-> None, creds |-> None]
    BY <1>0, <2>2, ChangesOf
  <2>4. Adds(r) = {} /\ {q \in db.quotas : Clears(r, q)} = {}
    BY <1>3, <1>6 DEF Adds, Clears
  <2> HIDE DEF ch
  <2> QED BY <1>3, <1>6, <1>8, <2>3, <2>4 DEF Deltas, None
<1>11. LockFits(req, seen, r)
  BY <1>2, <1>3, <1>6, <1>8 DEF LockFits
<1>12. \A x \in Log : Follows(x, r)
  BY <1>3, <1>6, NowFollows
<1> HIDE DEF ch
<1>13. HeldOK(req, call[c].auth, seen, r, ch, [what |-> "ok", id |-> clock + 1])
  BY <1>0, <1>1, <1>3, <1>5, <1>7, <1>9, <1>10, <1>11, <1>12 DEF HeldOK
<1> QED BY <1>13 DEF r, ch

\* CreateTenant decides well: a new tenant, the one that is there, or a conflict.
LEMMA CreateTenantGood ==
  ASSUME AdminInv, NEW c \in Calls, call[c].pc = "read", call[c].req.op = "CreateTenant"
  PROVE  Good(c, CreateTenant(call[c].req, clock + 1))
<1> DEFINE req == call[c].req
           id == clock + 1
           u == [id |-> id, ext |-> req.ext, doc |-> req.doc, disabled |-> FALSE]
           had == GetTenantByExternalID(db, req.ext)
<1>0. ReqOK(req) /\ call[c].auth \in 0..Len(log) /\ DbOK /\ Linked /\ clock + 1 \in Nat
  BY ReadFacts, IdsUsed
<1>1. u \in TenantRow /\ u.id = id /\ u.ext = req.ext
  BY <1>0 DEF ReqOK, TenantRow
<1>2. CASE had # {}
  <2> DEFINE t == The(had)
  <2>1. t \in db.tenants /\ t.ext = req.ext
    BY <1>2 DEF The, GetTenantByExternalID
  <2>2. CreateTenantRow(db, u) = [db |-> db, rows |-> {}]
    BY <1>1, <1>2 DEF CreateTenantRow, Unchanged
  <2>3. TenantRepoCreate(u) = [db |-> db, rows |-> had, created |-> FALSE]
    BY <1>1, <2>2 DEF TenantRepoCreate
  <2>4. TenantRepoCreate(u).created = FALSE /\ TenantRepoCreate(u).rows = had
    BY <2>3
  <2>5. CreateTenant(req, id) = IF t.doc # req.doc THEN Answer("conflict", 0) ELSE Answer("ok", t.id)
    BY <2>4 DEF CreateTenant
  <2>6. /\ Answer("conflict", 0).action = "none" /\ Answer("conflict", 0).answer = [what |-> "conflict", id |-> 0]
        /\ Answer("ok", t.id).action = "none" /\ Answer("ok", t.id).answer = [what |-> "ok", id |-> t.id]
    BY DEF Answer
  <2> HIDE DEF t, had, u
  <2>7. CASE t.doc # req.doc
    <3>1. \E r \in Log : r.action \in {"tenant.create", "tenant.update"} /\ r.detail.ext = req.ext /\ r.detail.doc # req.doc
      BY <1>0, <2>1, <2>7 DEF Linked
    <3>2. DoneOK(req, call[c].auth, [what |-> "conflict", id |-> 0])
      BY <1>0, <3>1 DEF DoneOK
    <3> QED BY <2>5, <2>6, <2>7, <3>2 DEF Good
  <2>8. CASE t.doc = req.doc
    <3>1. DoneOK(req, call[c].auth, [what |-> "ok", id |-> t.id])
      BY <1>0, <2>1 DEF DoneOK
    <3> QED BY <2>5, <2>6, <2>8, <3>1 DEF Good
  <2> QED BY <2>7, <2>8
<1>3. CASE had = {}
  <2> DEFINE after == [db EXCEPT !.tenants = db.tenants \cup {u}]
  <2>1. CreateTenantRow(db, u) = [db |-> after, rows |-> {u}]
    BY <1>1, <1>3 DEF CreateTenantRow, Insert
  <2>2. CreateTenantRow(db, u).rows = {u} /\ CreateTenantRow(db, u).db = after /\ {u} # {}
    BY <2>1
  <2>3. TenantRepoCreate(u) = [db |-> after, rows |-> {u}, created |-> TRUE]
    BY <2>2 DEF TenantRepoCreate
  <2> HIDE DEF u, after
  <2>4. TenantRepoCreate(u).db = after /\ TenantRepoCreate(u).rows = {u} /\ TenantRepoCreate(u).created = TRUE
    BY <2>3
  <2>5. The({u}) = u
    BY DEF The
  <2>6. CreateTenant(req, id) = found(TenantRepoCreate(u), "tenant.create", id, 0, u, id)
    BY <2>4, <2>5 DEF CreateTenant, u
  <2>7. found(TenantRepoCreate(u), "tenant.create", id, 0, u, id) =
          [answer |-> [what |-> "ok", id |-> id], after |-> after,
           action |-> "tenant.create", tenant |-> id, key |-> 0, detail |-> u]
    BY <2>2, <2>4 DEF found
  <2>8. \A x \in db.tenants : x.ext # req.ext
    BY <1>3 DEF GetTenantByExternalID
  <2>9. HeldOK(req, call[c].auth, call[c].seen, Entry(c, "tenant.create", id, 0, u), Changes(db, after), [what |-> "ok", id |-> id])
    BY <1>1, <2>8, NewTenant DEF after
  <2> HIDE DEF id
  <2>10. Good(c, CreateTenant(req, id))
    BY <2>6, <2>7, <2>9, GoodHeld
  <2> QED BY <2>10 DEF id
<1> QED BY <1>2, <1>3

\* A key is created for a tenant that is there and not disabled.
LEMMA NewKey ==
  ASSUME AdminInv, NEW c \in Calls, call[c].pc = "read", call[c].req.op = "CreateAPIKey",
         NEW t \in db.tenants, t.id = call[c].seen.id, ~t.disabled,
         NEW u \in KeyRow, u.id = clock + 1, u.tenant = t.id
  PROVE  HeldOK(call[c].req, call[c].auth, call[c].seen, Entry(c, "key.create", t.id, clock + 1, u),
                Changes(db, [db EXCEPT !.keys = db.keys \cup {u}]), [what |-> "ok", id |-> clock + 1])
<1> DEFINE req == call[c].req
           seen == call[c].seen
           a == "key.create"
           r == Entry(c, a, t.id, clock + 1, u)
           ch == Changes(db, [db EXCEPT !.keys = db.keys \cup {u}])
<1>0. ReqOK(req) /\ LetIn(call[c].actor, call[c].auth)
      /\ call[c].auth \in 0..Len(log) /\ call[c].auth \in Nat /\ call[c].actor \in Names \cup {"cli"} /\ DbOK /\ LogOK /\ Linked
  BY ReadFacts
<1>1. req.op \notin CredOps /\ req.op \in RefOps /\ req.op # "CreateTenant"
  BY DEF CredOps, RefOps
<1>2. LockOf(req, seen) = <<"tenant", seen.id>> /\ ~IsCommand(req)
  BY <1>0, <1>1, LockIs
<1>3. /\ r.at = clock + 1 /\ r.auth = call[c].auth /\ r.actor = call[c].actor /\ r.action = a
      /\ r.tenant = t.id /\ r.key = clock + 1 /\ r.detail = u
  BY <1>2 DEF Entry, At
<1>4. /\ clock \in Nat /\ clock + 1 \in Nat /\ clock + 1 > 0 /\ (\A x \in db.keys : x.id # clock + 1)
      /\ t.id \in 1..clock
  BY IdsUsed
<1>5. r \in AuditRow
  BY <1>0, <1>2, <1>4 DEF Entry, At, AuditRow, KeyActs
<1> HIDE DEF r
<1>6. /\ a \in KeyActs /\ a \notin TenantActs /\ a \notin QuotaActs /\ a \notin CredActs
      /\ a \notin {"key.update", "key.revoke", "admin_credential.create", "admin_credential.revoke"}
      /\ a \notin {"quota.replace", "quota.upsert"} /\ a # "quota.delete" /\ a # "quota.replace" /\ a # "quota.upsert"
      /\ a # "tenant.create"
  BY DEF TenantActs, KeyActs, QuotaActs, CredActs
<1>7. RowOK(r)
  BY <1>3, <1>4, <1>6 DEF RowOK
<1>8. {x \in db.keys : x.id = clock + 1} = {} /\ u \notin db.keys /\ {x \in db.tenants : x.id = t.id} = {t}
  BY <1>0, <1>4 DEF DbOK
<1>9. Legal(View, r) /\ FirstOfName(Log, r)
  BY <1>3, <1>6, <1>8, ViewIs DEF Legal, FirstOfName
<1>10. Deltas(r, ch)
  <2>2. /\ db.keys \ (db.keys \cup {u}) = {}
        /\ (db.keys \cup {u}) \ db.keys = {u}
    BY <1>8
  <2>3. ch = [keys |-> [del |-> {}, ins |-> {u}], tenants |-> None, quotas |-> None, creds |-> None]
    BY <1>0, <2>2, ChangesOf
  <2>4. Adds(r) = {} /\ {q \in db.quotas : Clears(r, q)} = {}
    BY <1>3, <1>6 DEF Adds, Clears
  <2> HIDE DEF ch
  <2> QED BY <1>3, <1>6, <1>8, <2>3, <2>4 DEF Deltas, None
<1>11. LockFits(req, seen, r)
  BY <1>2, <1>3, <1>6, <1>8 DEF LockFits
<1>12. \A x \in Log : Follows(x, r)
  BY <1>3, <1>6, NowFollows
<1> HIDE DEF ch
<1>13. HeldOK(req, call[c].auth, seen, r, ch, [what |-> "ok", id |-> clock + 1])
  BY <1>0, <1>1, <1>3, <1>5, <1>7, <1>9, <1>10, <1>11, <1>12 DEF HeldOK
<1> QED BY <1>13 DEF r, ch

\* CreateAPIKey decides well: the tenant is there and enabled under its lock.
LEMMA CreateKeyGood ==
  ASSUME AdminInv, NEW c \in Calls, call[c].pc = "read", call[c].req.op = "CreateAPIKey"
  PROVE  Good(c, CreateAPIKey(lockTenant(c), call[c].req, clock + 1))
<1> DEFINE req == call[c].req
           t == lockTenant(c)
           id == clock + 1
           u == [id |-> id, tenant |-> t.id, allow |-> req.allow, revoked |-> FALSE]
<1>0. ReqOK(req) /\ DbOK /\ clock + 1 \in Nat
  BY ReadFacts, IdsUsed
<1>1. t \in db.tenants /\ t.id = call[c].seen.id /\ t.id \in Nat
  BY <1>0, Locked DEF RefOps, DbOK, TenantRow
<1> HIDE DEF t
<1>2. u \in KeyRow /\ u.id = id /\ u.tenant = t.id
  BY <1>0, <1>1 DEF ReqOK, KeyRow
<1>3. CASE t.disabled
  BY <1>3, PlainAnswer DEF CreateAPIKey, t
<1>4. CASE ~t.disabled
  <2> DEFINE after == [db EXCEPT !.keys = db.keys \cup {u}]
             res == CreateAPIKeyRow(db, u)
  <2>1. res = [db |-> after, rows |-> {u}]
    BY DEF CreateAPIKeyRow, Insert
  <2>2. res.rows = {u} /\ {u} # {} /\ The({u}) = u
    BY <2>1 DEF The
  <2>3. CreateAPIKey(t, req, id) = found(res, "key.create", t.id, id, The(res.rows), id)
    BY <1>4 DEF CreateAPIKey
  <2> HIDE DEF u, after, res
  <2>4. HeldOK(req, call[c].auth, call[c].seen, Entry(c, "key.create", t.id, id, u), Changes(db, after), [what |-> "ok", id |-> id])
    BY <1>1, <1>2, <1>4, NewKey DEF after
  <2>5. found([db |-> after, rows |-> {u}], "key.create", t.id, id, u, id) =
          [answer |-> [what |-> "ok", id |-> id], after |-> after,
           action |-> "key.create", tenant |-> t.id, key |-> id, detail |-> u]
    BY <2>2, FoundOne
  <2> HIDE DEF id
  <2>6. Good(c, found([db |-> after, rows |-> {u}], "key.create", t.id, id, u, id))
    BY <2>4, <2>5, GoodHeld
  <2>7. CreateAPIKey(t, req, id) = found([db |-> after, rows |-> {u}], "key.create", t.id, id, u, id)
    BY <2>1, <2>2, <2>3
  <2> QED BY <2>6, <2>7 DEF t, id
<1> QED BY <1>3, <1>4

\* A change of a tenant's quotas: those the row clears go, those it names come.
LEMMA QuotaChange ==
  ASSUME AdminInv, NEW c \in Calls, call[c].pc = "read", call[c].req.op \in {"ReplaceQuotas", "PutQuota", "DeleteQuota"},
         NEW t \in db.tenants, t.id = call[c].seen.id, NEW a \in QuotaActs, NEW detail,
         a \in {"quota.replace", "quota.upsert"} => detail \in SUBSET QuotaRow /\ \A q \in detail : q.tenant = t.id,
         a = "quota.delete" => detail \in Kinds,
         {q \in db.quotas : Clears(Entry(c, a, t.id, 0, detail), q)} # Adds(Entry(c, a, t.id, 0, detail)),
         NEW Q, Q = {q \in db.quotas : ~Clears(Entry(c, a, t.id, 0, detail), q)} \cup Adds(Entry(c, a, t.id, 0, detail))
  PROVE  HeldOK(call[c].req, call[c].auth, call[c].seen, Entry(c, a, t.id, 0, detail),
                Changes(db, [db EXCEPT !.quotas = Q]), [what |-> "ok", id |-> t.id])
<1> DEFINE req == call[c].req
           seen == call[c].seen
           r == Entry(c, a, t.id, 0, detail)
           ch == Changes(db, [db EXCEPT !.quotas = Q])
<1>0. ReqOK(req) /\ LetIn(call[c].actor, call[c].auth)
      /\ call[c].auth \in 0..Len(log) /\ call[c].auth \in Nat /\ call[c].actor \in Names \cup {"cli"} /\ DbOK /\ LogOK /\ Linked
  BY ReadFacts
<1>1. req.op \notin CredOps /\ req.op \in RefOps /\ req.op # "CreateTenant"
  BY DEF CredOps, RefOps
<1>2. LockOf(req, seen) = <<"tenant", seen.id>> /\ ~IsCommand(req)
  BY <1>0, <1>1, LockIs
<1>3. /\ r.at = clock + 1 /\ r.auth = call[c].auth /\ r.actor = call[c].actor /\ r.action = a
      /\ r.tenant = t.id /\ r.key = 0 /\ r.detail = detail
  BY <1>2 DEF Entry, At
<1>4. clock \in Nat /\ clock + 1 \in Nat /\ clock + 1 > 0 /\ t.id \in 1..clock
  BY IdsUsed
<1>5. r \in AuditRow
  <2>1. detail \in (SUBSET QuotaRow) \cup Kinds
    BY DEF QuotaActs
  <2> QED BY <1>0, <1>2, <1>4, <2>1 DEF Entry, At, AuditRow
<1> HIDE DEF r
<1>6. /\ a \notin KeyActs /\ a \notin TenantActs /\ a \notin CredActs
      /\ a \notin {"key.create", "key.update", "key.revoke", "admin_credential.create", "admin_credential.revoke"}
      /\ a # "tenant.create"
  BY DEF TenantActs, KeyActs, QuotaActs, CredActs
<1>7. RowOK(r)
  BY <1>3, <1>4, <1>6 DEF RowOK
<1>8. {x \in db.tenants : x.id = t.id} = {t}
  BY <1>0 DEF DbOK
<1>a. {q \in db.quotas : Clears(r, q)} # Adds(r) /\ Q = {q \in db.quotas : ~Clears(r, q)} \cup Adds(r)
  BY DEF r
<1>9. Legal(View, r) /\ FirstOfName(Log, r)
  BY <1>3, <1>6, <1>8, <1>a, ViewIs DEF Legal, FirstOfName
<1>10. Deltas(r, ch)
  <2>1. \A q \in Adds(r) : Clears(r, q)
    BY <1>7 DEF Adds, Clears, RowOK
  <2>2. /\ db.quotas \ Q = {q \in db.quotas : Clears(r, q)} \ Adds(r)
        /\ Q \ db.quotas = Adds(r) \ {q \in db.quotas : Clears(r, q)}
    BY <2>1, <1>a
  <2>3. ch = [quotas |-> [del |-> db.quotas \ Q, ins |-> Q \ db.quotas], tenants |-> None, keys |-> None, creds |-> None]
    BY <1>0, ChangesOf
  <2> HIDE DEF ch
  <2> QED BY <1>3, <1>6, <2>2, <2>3 DEF Deltas, None
<1>11. LockFits(req, seen, r)
  BY <1>2, <1>3, <1>6 DEF LockFits
<1>12. \A x \in Log : Follows(x, r)
  BY <1>3, <1>6, NowFollows
<1> HIDE DEF ch
<1>13. HeldOK(req, call[c].auth, seen, r, ch, [what |-> "ok", id |-> t.id])
  BY <1>0, <1>1, <1>3, <1>5, <1>7, <1>9, <1>10, <1>11, <1>12 DEF HeldOK
<1> QED BY <1>13 DEF r, ch

\* The changes to quotas decide well.
LEMMA QuotaDecisions ==
  ASSUME AdminInv, NEW c \in Calls, call[c].pc = "read"
  PROVE  /\ call[c].req.op = "ReplaceQuotas" => Good(c, ReplaceQuotas(lockTenant(c), call[c].req))
         /\ call[c].req.op = "PutQuota" => Good(c, PutQuota(lockTenant(c), call[c].req))
         /\ call[c].req.op = "DeleteQuota" => Good(c, DeleteQuota(lockTenant(c), call[c].req))
<1> DEFINE req == call[c].req
           t == lockTenant(c)
           Ops == {"ReplaceQuotas", "PutQuota", "DeleteQuota"}
<1>0. ReqOK(req) /\ DbOK
  BY ReadFacts
<1>1. req.op \in Ops => t \in db.tenants /\ t.id = call[c].seen.id /\ t.id \in Nat /\ req.op # "CreateTenant"
  BY <1>0, Locked DEF RefOps, DbOK, TenantRow
<1>d. \A q \in db.quotas : q \in QuotaRow
  BY <1>0 DEF DbOK
<1> HIDE DEF t
<1>2. ASSUME req.op \in Ops, NEW a \in QuotaActs, NEW detail, NEW Q, NEW rows, rows # {},
             a \in {"quota.replace", "quota.upsert"} => detail \in SUBSET QuotaRow /\ \A q \in detail : q.tenant = t.id,
             a = "quota.delete" => detail \in Kinds,
             {q \in db.quotas : Clears(Entry(c, a, t.id, 0, detail), q)} # Adds(Entry(c, a, t.id, 0, detail)),
             Q = {q \in db.quotas : ~Clears(Entry(c, a, t.id, 0, detail), q)} \cup Adds(Entry(c, a, t.id, 0, detail))
      PROVE  Good(c, found([db |-> [db EXCEPT !.quotas = Q], rows |-> rows], a, t.id, 0, detail, t.id))
  <2> DEFINE after == [db EXCEPT !.quotas = Q]
  <2>1. HeldOK(req, call[c].auth, call[c].seen, Entry(c, a, t.id, 0, detail), Changes(db, after), [what |-> "ok", id |-> t.id])
    BY <1>1, <1>2, QuotaChange
  <2>2. a # "none"
    BY DEF QuotaActs
  <2> HIDE DEF after
  <2>3. found([db |-> after, rows |-> rows], a, t.id, 0, detail, t.id) =
          [answer |-> [what |-> "ok", id |-> t.id], after |-> after, action |-> a, tenant |-> t.id, key |-> 0, detail |-> detail]
    BY <1>2, FoundOne
  <2>4. Good(c, found([db |-> after, rows |-> rows], a, t.id, 0, detail, t.id))
    BY <2>1, <2>2, <2>3, GoodHeld
  <2> QED BY <2>4 DEF after
<1>3. ASSUME NEW a, NEW detail
      PROVE  LET r == Entry(c, a, t.id, 0, detail)
             IN  r.action = a /\ r.tenant = t.id /\ r.detail = detail
  BY DEF Entry
<1>4. ASSUME req.op = "ReplaceQuotas" PROVE Good(c, ReplaceQuotas(t, req))
  <2> DEFINE set == {quotaOf(t, k, req.set[k]) : k \in DOMAIN req.set}
             Q == (db.quotas \ ListQuotas(db, t.id)) \cup set
             r == Entry(c, "quota.replace", t.id, 0, set)
  <2>1. set \in SUBSET QuotaRow /\ \A q \in set : q.tenant = t.id
    <3>1. PICK ks \in SUBSET Kinds : req.set \in [ks -> Limits]
      BY <1>0, <1>4 DEF ReqOK
    <3>2. \A k \in DOMAIN req.set : k \in Kinds /\ req.set[k] \in Limits
      BY <3>1
    <3> QED BY <3>2, <1>1, <1>4 DEF quotaOf, QuotaRow
  <2>2. [DeleteQuotasForTenant(db, t.id).db EXCEPT !.quotas = @ \cup set] = [db EXCEPT !.quotas = Q]
    <3>1. DeleteQuotasForTenant(db, t.id).db = [db EXCEPT !.quotas = db.quotas \ ListQuotas(db, t.id)]
      BY DEF DeleteQuotasForTenant, Delete
    <3>2. db = [tenants |-> db.tenants, keys |-> db.keys, quotas |-> db.quotas, creds |-> db.creds]
      BY <1>0 DEF DbOK
    <3> HIDE DEF set
    <3> QED BY <3>1, <3>2
  <2> HIDE DEF set
  <2>3. CASE ListQuotas(db, t.id) = set
    <3>1. ReplaceQuotas(t, req) = Answer("ok", t.id)
      BY <2>3 DEF ReplaceQuotas, sameQuotaSet, set
    <3> QED BY <1>1, <1>4, <3>1, PlainAnswer
  <2>4. CASE ListQuotas(db, t.id) # set
    <3>1. r.action = "quota.replace" /\ r.tenant = t.id /\ r.detail = set
      BY <1>3
    <3> HIDE DEF r
    <3>2. Adds(r) = set /\ \A q : Clears(r, q) <=> q.tenant = t.id
      BY <3>1 DEF Adds, Clears
    <3>3. {q \in db.quotas : Clears(r, q)} # Adds(r) /\ Q = {q \in db.quotas : ~Clears(r, q)} \cup Adds(r)
      BY <3>2, <2>4 DEF ListQuotas
    <3>4. ReplaceQuotas(t, req) = found([db |-> [db EXCEPT !.quotas = Q], rows |-> {t}], "quota.replace", t.id, 0, set, t.id)
      BY <2>2, <2>4 DEF ReplaceQuotas, sameQuotaSet, set
    <3> HIDE DEF Q
    <3>5. "quota.replace" \in QuotaActs /\ {t} # {} /\ req.op \in Ops
      BY <1>4 DEF QuotaActs
    <3>6. Good(c, found([db |-> [db EXCEPT !.quotas = Q], rows |-> {t}], "quota.replace", t.id, 0, set, t.id))
      BY <1>2, <2>1, <3>3, <3>5 DEF r
    <3> QED BY <3>4, <3>6
  <2> QED BY <2>3, <2>4
<1>5. ASSUME req.op = "PutQuota" PROVE Good(c, PutQuota(t, req))
  <2> DEFINE n == quotaOf(t, req.kind, req.limit)
             old == GetQuota(db, t.id, req.kind)
             Q == (db.quotas \ old) \cup {n}
             r == Entry(c, "quota.upsert", t.id, 0, {n})
  <2>1. {n} \in SUBSET QuotaRow /\ n.tenant = t.id /\ n.kind = req.kind
    BY <1>0, <1>1, <1>5 DEF quotaOf, QuotaRow, ReqOK
  <2> HIDE DEF n
  <2>2. UpsertQuota(db, n) = [db |-> [db EXCEPT !.quotas = Q], rows |-> {n}]
    <3>1. Delete(db, "quotas", GetQuota(db, n.tenant, n.kind)).db = [db EXCEPT !.quotas = db.quotas \ old]
      BY <2>1 DEF Delete
    <3>2. db = [tenants |-> db.tenants, keys |-> db.keys, quotas |-> db.quotas, creds |-> db.creds]
      BY <1>0 DEF DbOK
    <3>3. [[db EXCEPT !.quotas = db.quotas \ old] EXCEPT !.quotas = @ \cup {n}] = [db EXCEPT !.quotas = Q]
      <4> HIDE DEF old
      <4> QED BY <3>2
    <3> HIDE DEF Q, old
    <3> QED BY <3>1, <3>3 DEF UpsertQuota, Insert
  <2>3. CASE old = {n}
    <3>1. PutQuota(t, req) = Answer("ok", t.id)
      BY <2>3 DEF PutQuota, n
    <3> QED BY <1>1, <1>5, <3>1, PlainAnswer
  <2>4. CASE old # {n}
    <3>1. r.action = "quota.upsert" /\ r.tenant = t.id /\ r.detail = {n}
      BY <1>3
    <3> HIDE DEF r
    <3>2. Adds(r) = {n} /\ \A q : Clears(r, q) <=> q.tenant = t.id /\ q.kind = req.kind
      BY <2>1, <3>1 DEF Adds, Clears
    <3>3. {q \in db.quotas : Clears(r, q)} # Adds(r) /\ Q = {q \in db.quotas : ~Clears(r, q)} \cup Adds(r)
      BY <3>2, <2>4 DEF GetQuota, ListQuotas
    <3>4. PutQuota(t, req) = found([db |-> [db EXCEPT !.quotas = Q], rows |-> {n}], "quota.upsert", t.id, 0, {n}, t.id)
      BY <2>2, <2>4 DEF PutQuota, n
    <3> HIDE DEF Q
    <3>5. "quota.upsert" \in QuotaActs /\ {n} # {} /\ req.op \in Ops /\ \A q \in {n} : q.tenant = t.id
      BY <1>5, <2>1 DEF QuotaActs
    <3>6. Good(c, found([db |-> [db EXCEPT !.quotas = Q], rows |-> {n}], "quota.upsert", t.id, 0, {n}, t.id))
      BY <1>2, <2>1, <3>3, <3>5 DEF r
    <3> QED BY <3>4, <3>6
  <2> QED BY <2>3, <2>4
<1>6. ASSUME req.op = "DeleteQuota" PROVE Good(c, DeleteQuota(t, req))
  <2> DEFINE old == GetQuota(db, t.id, req.kind)
             Q == db.quotas \ old
             r == Entry(c, "quota.delete", t.id, 0, req.kind)
  <2>1. DeleteQuotaRow(db, t.id, req.kind) = [db |-> [db EXCEPT !.quotas = Q], rows |-> old]
    BY DEF DeleteQuotaRow, Delete
  <2>2. DeleteQuotaRow(db, t.id, req.kind).rows = old
    BY <2>1
  <2>3. CASE old = {}
    <3>1. DeleteQuota(t, req) = Answer("ok", t.id)
      BY <2>2, <2>3 DEF DeleteQuota
    <3> QED BY <1>1, <1>6, <3>1, PlainAnswer
  <2>4. CASE old # {}
    <3>1. r.action = "quota.delete" /\ r.tenant = t.id /\ r.detail = req.kind
      BY <1>3
    <3> HIDE DEF r
    <3>2. Adds(r) = {} /\ \A q : Clears(r, q) <=> q.tenant = t.id /\ q.kind = req.kind
      BY <3>1 DEF Adds, Clears
    <3>3. {q \in db.quotas : Clears(r, q)} # Adds(r) /\ Q = {q \in db.quotas : ~Clears(r, q)} \cup Adds(r)
      BY <3>2, <2>4 DEF GetQuota, ListQuotas
    <3>4. DeleteQuota(t, req) = found([db |-> [db EXCEPT !.quotas = Q], rows |-> old], "quota.delete", t.id, 0, req.kind, t.id)
      BY <2>1, <2>2, <2>4 DEF DeleteQuota
    <3> HIDE DEF Q, old
    <3>5. "quota.delete" \in QuotaActs /\ req.op \in Ops /\ req.kind \in Kinds
      BY <1>0, <1>6 DEF QuotaActs, ReqOK
    <3>6. Good(c, found([db |-> [db EXCEPT !.quotas = Q], rows |-> old], "quota.delete", t.id, 0, req.kind, t.id))
      BY <1>2, <2>4, <3>3, <3>5 DEF r
    <3> QED BY <3>4, <3>6
  <2> QED BY <2>3, <2>4
<1> QED BY <1>4, <1>5, <1>6 DEF t

\* The time a command took before its lock is its own, and not the log's.
LEMMA CommandStamp ==
  ASSUME AdminInv, NEW c \in Calls, call[c].pc = "read", call[c].req.op \in CredOps
  PROVE  /\ Stamped(call[c]) /\ Stamp(call[c]) = call[c].at /\ At(c) = call[c].at
         /\ call[c].at \in 1..clock /\ call[c].at \in Nat /\ call[c].at > 0
<1>1. IsCommand(call[c].req)
  BY ReadFacts, LockIs
<1>2. Stamped(call[c]) /\ Stamp(call[c]) = call[c].at /\ At(c) = call[c].at
  BY <1>1 DEF Stamped, Stamp, At
<1>3. clock \in Nat /\ call[c].at \in 1..clock
  BY <1>2 DEF AdminInv, StampsOK
<1> QED BY <1>2, <1>3

\* A credential with a new name.
LEMMA NewCred ==
  ASSUME AdminInv, NEW c \in Calls, call[c].pc = "read", call[c].req.op = "CreateCredential",
         \A x \in db.creds : x.name # call[c].req.name,
         NEW x \in CredRow, x.name = call[c].req.name, x.role = call[c].req.role, ~x.revoked, NEW id
  PROVE  HeldOK(call[c].req, call[c].auth, call[c].seen,
                Entry(c, "admin_credential.create", 0, 0, [name |-> call[c].req.name, role |-> call[c].req.role]),
                Changes(db, [db EXCEPT !.creds = db.creds \cup {x}]), [what |-> "ok", id |-> id])
<1> DEFINE req == call[c].req
           seen == call[c].seen
           a == "admin_credential.create"
           d == [name |-> req.name, role |-> req.role]
           r == Entry(c, a, 0, 0, d)
           ch == Changes(db, [db EXCEPT !.creds = db.creds \cup {x}])
<1>0. ReqOK(req) /\ LetIn(call[c].actor, call[c].auth)
      /\ call[c].auth \in 0..Len(log) /\ call[c].auth \in Nat /\ call[c].actor \in Names \cup {"cli"} /\ DbOK /\ LogOK /\ Linked
  BY ReadFacts
<1>1. req.op \in CredOps /\ req.op # "CreateTenant"
  BY DEF CredOps
<1>2. LockOf(req, seen) = <<"name", req.name>> /\ IsCommand(req)
  BY <1>0, <1>1, LockIs
<1>3. /\ r.at = At(c) /\ r.auth = call[c].auth /\ r.actor = call[c].actor /\ r.action = a
      /\ r.tenant = 0 /\ r.key = 0 /\ r.detail = d
  BY DEF Entry
<1>4. At(c) \in Nat /\ At(c) > 0
  BY <1>1, CommandStamp
<1>d. d \in CredName /\ d.name = req.name /\ d.role = req.role
  BY <1>0, <1>1 DEF CredName, ReqOK
<1> HIDE DEF d
<1>5. r \in AuditRow
  BY <1>0, <1>4, <1>d DEF Entry, AuditRow, CredActs
<1> HIDE DEF r
<1>6. /\ a \in CredActs /\ a \notin KeyActs /\ a \notin TenantActs /\ a \notin QuotaActs
      /\ a \notin {"key.create", "key.update", "key.revoke", "admin_credential.revoke", "tenant.create"}
      /\ a \notin {"quota.replace", "quota.upsert"} /\ a # "quota.delete" /\ a # "quota.replace" /\ a # "quota.upsert"
  BY DEF TenantActs, KeyActs, QuotaActs, CredActs
<1>7. RowOK(r)
  BY <1>3, <1>4, <1>6, <1>d DEF RowOK
<1>8. \A y \in Log : y.action \in CredActs => y.detail.name # req.name
  BY <1>0 DEF Linked
<1>9. Legal(View, r) /\ FirstOfName(Log, r)
  <2>1. d \notin Live(db.creds)
    BY <1>d DEF Live
  <2> QED BY <1>3, <1>6, <1>8, <1>d, <2>1, ViewIs DEF Legal, FirstOfName
<1>10. Deltas(r, ch)
  <2>2. /\ db.creds \ (db.creds \cup {x}) = {}
        /\ (db.creds \cup {x}) \ db.creds = {x}
    OBVIOUS
  <2>3. ch = [creds |-> [del |-> {}, ins |-> {x}], tenants |-> None, keys |-> None, quotas |-> None]
    BY <1>0, <2>2, ChangesOf
  <2>4. Adds(r) = {} /\ {q \in db.quotas : Clears(r, q)} = {}
    BY <1>3, <1>6 DEF Adds, Clears
  <2> HIDE DEF ch
  <2> QED BY <1>3, <1>6, <1>d, <2>3, <2>4 DEF Deltas, None
<1>11. LockFits(req, seen, r)
  BY <1>2, <1>3, <1>6, <1>d DEF LockFits
<1>12. \A y \in Log : Follows(y, r)
  BY <1>3, <1>6, <1>8, <1>d DEF Follows, Same, CredActs
<1> HIDE DEF ch
<1>13. HeldOK(req, call[c].auth, seen, r, ch, [what |-> "ok", id |-> id])
  BY <1>0, <1>1, <1>3, <1>5, <1>7, <1>9, <1>10, <1>11, <1>12 DEF HeldOK
<1> QED BY <1>13 DEF r, ch, d

\* A credential that is not revoked yet: the log has its creation, before the
\* command read it, and no revocation.
LEMMA OldCred ==
  ASSUME AdminInv, NEW c \in Calls, call[c].pc = "read", call[c].req.op = "RevokeCredential",
         NEW x \in db.creds, x.name = call[c].req.name, ~x.revoked, NEW id
  PROVE  HeldOK(call[c].req, call[c].auth, call[c].seen,
                Entry(c, "admin_credential.revoke", 0, 0, [name |-> call[c].req.name, role |-> call[c].seen.role]),
                Changes(db, [db EXCEPT !.creds = (db.creds \ {x}) \cup {[x EXCEPT !.revoked = TRUE]}]), [what |-> "ok", id |-> id])
<1> DEFINE req == call[c].req
           seen == call[c].seen
           a == "admin_credential.revoke"
           d == [name |-> req.name, role |-> seen.role]
           u == [x EXCEPT !.revoked = TRUE]
           r == Entry(c, a, 0, 0, d)
           ch == Changes(db, [db EXCEPT !.creds = (db.creds \ {x}) \cup {u}])
<1>0. ReqOK(req) /\ LetIn(call[c].actor, call[c].auth) /\ ReadOK(req, call[c].actor, call[c].auth, seen, call[c].at)
      /\ call[c].auth \in 0..Len(log) /\ call[c].auth \in Nat /\ call[c].actor \in Names \cup {"cli"} /\ DbOK /\ LogOK /\ Linked
  BY ReadFacts
<1>1. req.op \in CredOps /\ req.op # "CreateTenant"
  BY DEF CredOps
<1>2. LockOf(req, seen) = <<"name", req.name>> /\ IsCommand(req)
  BY <1>0, <1>1, LockIs
<1>3. /\ r.at = At(c) /\ r.auth = call[c].auth /\ r.actor = call[c].actor /\ r.action = a
      /\ r.tenant = 0 /\ r.key = 0 /\ r.detail = d
  BY DEF Entry
<1>4. At(c) = call[c].at /\ At(c) \in Nat /\ At(c) > 0
  BY <1>1, CommandStamp
<1>x. seen.role = x.role /\ x \in CredRow
  BY <1>0 DEF ReadOK, DbOK
<1>d. d \in CredName /\ d.name = x.name /\ d.role = x.role
  BY <1>x DEF CredName, CredRow
<1>u. u \notin db.creds /\ u # x
  <2>1. u.name = x.name /\ u # x
    BY <1>x DEF CredRow
  <2> QED BY <2>1, <1>0 DEF DbOK
<1>l. d \in Live(db.creds)
  BY <1>x DEF Live
<1> HIDE DEF d
<1>5. r \in AuditRow
  BY <1>0, <1>4, <1>d DEF Entry, AuditRow, CredActs
<1> HIDE DEF r
<1>6. /\ a \in CredActs /\ a \notin KeyActs /\ a \notin TenantActs /\ a \notin QuotaActs
      /\ a \notin {"key.create", "key.update", "key.revoke", "admin_credential.create", "tenant.create"}
      /\ a \notin {"quota.replace", "quota.upsert"} /\ a # "quota.delete" /\ a # "quota.replace" /\ a # "quota.upsert"
  BY DEF TenantActs, KeyActs, QuotaActs, CredActs
<1>7. RowOK(r)
  BY <1>3, <1>4, <1>6, <1>d DEF RowOK
<1>9. Legal(View, r) /\ FirstOfName(Log, r)
  BY <1>3, <1>6, <1>d, <1>l, ViewIs DEF Legal, FirstOfName
<1>10. Deltas(r, ch)
  <2>2. /\ db.creds \ ((db.creds \ {x}) \cup {u}) = {x}
        /\ ((db.creds \ {x}) \cup {u}) \ db.creds = {u}
    BY <1>u
  <2>3. ch = [creds |-> [del |-> {x}, ins |-> {u}], tenants |-> None, keys |-> None, quotas |-> None]
    BY <1>0, <2>2, ChangesOf
  <2>4. Adds(r) = {} /\ {q \in db.quotas : Clears(r, q)} = {}
    BY <1>3, <1>6 DEF Adds, Clears
  <2> HIDE DEF ch
  <2> QED BY <1>3, <1>6, <1>d, <2>3, <2>4 DEF Deltas, None
<1>11. LockFits(req, seen, r)
  BY <1>2, <1>3, <1>6, <1>d DEF LockFits
<1>12. ASSUME NEW y \in Log PROVE Follows(y, r)
  <2>1. y.action = "admin_credential.create" /\ y.detail.name = req.name => y.at < call[c].at
    BY <1>0 DEF ReadOK
  <2>2. ~(y.action = "admin_credential.revoke" /\ y.detail.name = req.name)
    <3> SUFFICES ASSUME y.action = "admin_credential.revoke", y.detail.name = req.name PROVE FALSE
      OBVIOUS
    <3>1. y.action \in CredActs /\ y.detail \in CredName
      BY <1>0 DEF LogOK, RowOK, CredActs
    <3>2. PICK z \in db.creds : z.name = y.detail.name /\ z.role = y.detail.role
      BY <1>0, <3>1 DEF Linked
    <3>3. z = x
      BY <1>0, <3>2 DEF DbOK
    <3>4. y.detail = d
      BY <3>1, <3>2, <3>3, <1>d DEF CredName
    <3>5. d \in CredsOf(Log)
      BY <1>l, ViewIs
    <3> QED BY <3>4, <3>5 DEF CredsOf
  <2> QED BY <1>3, <1>4, <1>6, <1>d, <2>1, <2>2 DEF Follows, Same, CredActs
<1> HIDE DEF ch, u
<1>13. HeldOK(req, call[c].auth, seen, r, ch, [what |-> "ok", id |-> id])
  BY <1>0, <1>1, <1>3, <1>5, <1>7, <1>9, <1>10, <1>11, <1>12 DEF HeldOK
<1> QED BY <1>13 DEF r, ch, d, u

\* The commands on credentials decide well.
LEMMA CredDecisions ==
  ASSUME AdminInv, NEW c \in Calls, call[c].pc = "read"
  PROVE  /\ call[c].req.op = "CreateCredential" => Good(c, CreateCredential(call[c].req, clock + 1))
         /\ call[c].req.op = "RevokeCredential" => Good(c, RevokeCredential(call[c].req, call[c].seen))
<1> DEFINE req == call[c].req
           id == clock + 1
<1>0. ReqOK(req) /\ DbOK /\ clock + 1 \in Nat
  BY ReadFacts, IdsUsed
<1>1. ASSUME req.op = "CreateCredential" PROVE Good(c, CreateCredential(req, id))
  <2> DEFINE x == [id |-> id, name |-> req.name, role |-> req.role, revoked |-> FALSE]
             res == CreateAdminCredentialRow(db, x)
             d == [name |-> req.name, role |-> req.role]
  <2>1. x \in CredRow /\ x.name = req.name /\ x.role = req.role /\ ~x.revoked
    BY <1>0, <1>1 DEF ReqOK, CredOps, CredRow
  <2>2. CASE GetAdminCredentialByRef(db, req.name) # {}
    <3>1. res = [db |-> db, rows |-> {}]
      BY <2>1, <2>2 DEF CreateAdminCredentialRow, Unchanged
    <3>2. res.rows = {}
      BY <3>1
    <3>3. CreateCredential(req, id) = Answer("conflict", 0)
      BY <3>2 DEF CreateCredential
    <3> QED BY <1>1, <3>3, PlainAnswer
  <2>3. CASE GetAdminCredentialByRef(db, req.name) = {}
    <3> DEFINE after == [db EXCEPT !.creds = db.creds \cup {x}]
    <3>1. res = [db |-> after, rows |-> {x}]
      BY <2>1, <2>3 DEF CreateAdminCredentialRow, Insert
    <3>2. res.rows = {x} /\ {x} # {}
      BY <3>1
    <3>3. CreateCredential(req, id) = found(res, "admin_credential.create", 0, 0, d, id)
      BY <3>2 DEF CreateCredential
    <3>4. \A y \in db.creds : y.name # req.name
      BY <2>3 DEF GetAdminCredentialByRef
    <3> HIDE DEF x, res, after, id
    <3>5. HeldOK(req, call[c].auth, call[c].seen, Entry(c, "admin_credential.create", 0, 0, d), Changes(db, after), [what |-> "ok", id |-> id])
      BY <1>1, <2>1, <3>4, NewCred DEF after
    <3> HIDE DEF d
    <3>6. found([db |-> after, rows |-> {x}], "admin_credential.create", 0, 0, d, id) =
            [answer |-> [what |-> "ok", id |-> id], after |-> after,
             action |-> "admin_credential.create", tenant |-> 0, key |-> 0, detail |-> d]
      BY <3>2, FoundOne
    <3>7. Good(c, found([db |-> after, rows |-> {x}], "admin_credential.create", 0, 0, d, id))
      BY <3>5, <3>6, GoodHeld
    <3> QED BY <3>1, <3>3, <3>7
  <2> QED BY <2>2, <2>3
<1>2. ASSUME req.op = "RevokeCredential" PROVE Good(c, RevokeCredential(req, call[c].seen))
  <2> DEFINE live == {y \in GetAdminCredentialByRef(db, req.name) : ~y.revoked}
             res == RevokeAdminCredentialRow(db, req.name)
             seen == call[c].seen
             d == [name |-> req.name, role |-> seen.role]
  <2>1. CASE live = {}
    <3>1. res = [db |-> [db EXCEPT !.creds = (db.creds \ live) \cup {[y EXCEPT !.revoked = TRUE] : y \in live}],
                 rows |-> {[y EXCEPT !.revoked = TRUE] : y \in live}]
      BY DEF RevokeAdminCredentialRow, Update
    <3>2. res.rows = {}
      BY <3>1, <2>1
    <3>3. RevokeCredential(req, seen) = Answer("ok", seen.id)
      BY <3>2 DEF RevokeCredential
    <3> QED BY <1>2, <3>3, PlainAnswer
  <2>2. CASE live # {}
    <3>1. PICK x \in db.creds : x.name = req.name /\ ~x.revoked
      BY <2>2 DEF GetAdminCredentialByRef
    <3>2. live = {x}
      BY <3>1, <1>0 DEF GetAdminCredentialByRef, DbOK
    <3> DEFINE u == [x EXCEPT !.revoked = TRUE]
               after == [db EXCEPT !.creds = (db.creds \ {x}) \cup {u}]
    <3>3. {[y EXCEPT !.revoked = TRUE] : y \in {x}} = {u}
      OBVIOUS
    <3>4. res = [db |-> after, rows |-> {u}]
      BY <3>2, <3>3 DEF RevokeAdminCredentialRow, Update
    <3>5. res.rows = {u} /\ {u} # {}
      BY <3>4
    <3>6. RevokeCredential(req, seen) = found(res, "admin_credential.revoke", 0, 0, d, seen.id)
      BY <3>5 DEF RevokeCredential
    <3> HIDE DEF res
    <3>7. HeldOK(req, call[c].auth, seen, Entry(c, "admin_credential.revoke", 0, 0, d), Changes(db, after), [what |-> "ok", id |-> seen.id])
      BY <1>2, <3>1, OldCred
    <3> HIDE DEF u, after, d
    <3>8. found([db |-> after, rows |-> {u}], "admin_credential.revoke", 0, 0, d, seen.id) =
            [answer |-> [what |-> "ok", id |-> seen.id], after |-> after,
             action |-> "admin_credential.revoke", tenant |-> 0, key |-> 0, detail |-> d]
      BY <3>5, FoundOne
    <3>9. Good(c, found([db |-> after, rows |-> {u}], "admin_credential.revoke", 0, 0, d, seen.id))
      BY <3>7, <3>8, GoodHeld
    <3> QED BY <3>4, <3>6, <3>9
  <2> QED BY <2>1, <2>2
<1> QED BY <1>1, <1>2

\* Every operation decides well.
LEMMA DecideGood ==
  ASSUME AdminInv, NEW c \in Calls, call[c].pc = "read"
  PROVE  Good(c, Decide(c, clock + 1))
<1> DEFINE op == call[c].req.op
           d == Decide(c, clock + 1)
<1>0. op \in {"CreateTenant"} \cup RefOps \cup KeyOps \cup CredOps
  BY ReadFacts DEF ReqOK
<1>1. CASE op = "CreateTenant"
  <2>1. d = CreateTenant(call[c].req, clock + 1)
    BY <1>1 DEF Decide
  <2> QED BY <1>1, <2>1, CreateTenantGood
<1>2. CASE op = "UpdateTenant"
  <2>1. d = UpdateTenant(lockTenant(c), call[c].req)
    BY <1>2 DEF Decide
  <2> QED BY <1>2, <2>1, TenantOps
<1>3. CASE op = "DisableTenant"
  <2>1. d = DisableTenant(lockTenant(c))
    BY <1>3 DEF Decide
  <2> QED BY <1>3, <2>1, TenantOps
<1>4. CASE op = "EnableTenant"
  <2>1. d = EnableTenant(lockTenant(c))
    BY <1>4 DEF Decide
  <2> QED BY <1>4, <2>1, TenantOps
<1>5. CASE op = "CreateAPIKey"
  <2>1. d = CreateAPIKey(lockTenant(c), call[c].req, clock + 1)
    BY <1>5 DEF Decide
  <2> QED BY <1>5, <2>1, CreateKeyGood
<1>6. CASE op = "UpdateAPIKey"
  <2>1. d = UpdateAPIKey(lockKey(c), call[c].req)
    BY <1>6 DEF Decide
  <2> QED BY <1>6, <2>1, KeyDecisions
<1>7. CASE op = "RevokeAPIKey"
  <2>1. d = RevokeAPIKey(lockKey(c))
    BY <1>7 DEF Decide
  <2> QED BY <1>7, <2>1, KeyDecisions
<1>8. CASE op = "ReplaceQuotas"
  <2>1. d = ReplaceQuotas(lockTenant(c), call[c].req)
    BY <1>8 DEF Decide
  <2> QED BY <1>8, <2>1, QuotaDecisions
<1>9. CASE op = "PutQuota"
  <2>1. d = PutQuota(lockTenant(c), call[c].req)
    BY <1>9 DEF Decide
  <2> QED BY <1>9, <2>1, QuotaDecisions
<1>10. CASE op = "DeleteQuota"
  <2>1. d = DeleteQuota(lockTenant(c), call[c].req)
    BY <1>10 DEF Decide
  <2> QED BY <1>10, <2>1, QuotaDecisions
<1>11. CASE op = "CreateCredential"
  <2>1. d = CreateCredential(call[c].req, clock + 1)
    BY <1>11 DEF Decide
  <2> QED BY <1>11, <2>1, CredDecisions
<1>12. CASE op = "RevokeCredential"
  <2>1. d = RevokeCredential(call[c].req, call[c].seen)
    BY <1>12 DEF Decide
  <2> QED BY <1>12, <2>1, CredDecisions
<1> QED
  BY <1>0, <1>1, <1>2, <1>3, <1>4, <1>5, <1>6, <1>7, <1>8, <1>9, <1>10, <1>11, <1>12 DEF RefOps, KeyOps, CredOps

\* The work under the lock, from the read to the row, keeps the invariant.
LEMMA WorkInv ==
  ASSUME AdminInv, NEW c \in Calls, Work(c)
  PROVE  AdminInv'
<1> DEFINE d == Decide(c, clock + 1)
           req == call[c].req
<1>0. call[c].pc = "read" /\ Lock(c) /\ UNCHANGED <<db, log>>
  BY DEF Work
<1>1. Good(c, d)
  BY <1>0, DecideGood
<1>2. CASE d.action = "none"
  <2>1. call' = [call EXCEPT ![c] = Finished(c, d.answer)] /\ UNCHANGED clock
    BY <1>2 DEF Work
  <2>2. DoneOK(req, call[c].auth, d.answer)
    BY <1>1, <1>2 DEF Good
  <2> HIDE DEF d
  <2> QED BY <1>0, <2>1, <2>2, AnswerInv
<1>3. CASE d.action # "none"
  <2> DEFINE row == IF IsCommand(req) THEN auditEntry(c, d) ELSE audit(c, d)
             v == [pc |-> "held", req |-> req, auth |-> call[c].auth, seen |-> call[c].seen, answer |-> d.answer,
                   row |-> row, changes |-> Changes(db, d.after)]
  <2>1. clock' = clock + 1 /\ call' = [call EXCEPT ![c] = v]
    BY <1>3 DEF Work
  <2>2. row = Entry(c, d.action, d.tenant, d.key, d.detail)
    BY <2>1 DEF auditEntry, audit, AuditEntry, Entry, At
  <2>3. clock \in Nat /\ clock' \in Nat /\ clock <= clock' /\ ReqOK(req)
    BY <1>0, <2>1, IdsUsed, ReadFacts
  <2>4. row.at = At(c)
    BY <2>2 DEF Entry
  <2>5. HeldOK(req, call[c].auth, call[c].seen, row, Changes(db, d.after), d.answer)
    BY <1>1, <1>3, <2>2 DEF Good
  <2> HIDE DEF row, d
  <2>6. /\ v.pc = "held" /\ v.req = req /\ v.auth = call[c].auth /\ v.seen = call[c].seen /\ v.row = row
        /\ v.changes = Changes(db, d.after) /\ v.answer = d.answer
    OBVIOUS
  <2> HIDE DEF v
  <2>7. CallOK(v)
    BY <2>5, <2>6 DEF CallOK
  <2>8. Stamped(v) /\ Stamp(v) = At(c)
    BY <2>4, <2>6 DEF Stamped, Stamp
  <2>9. /\ At(c) \in 1..clock'
        /\ \A r \in Log : r.at # At(c)
        /\ \A o \in Calls \ {c} : Stamped(call[o]) => Stamp(call[o]) # At(c)
    <3>1. CASE req.op \in CredOps
      BY <1>0, <2>1, <2>3, <3>1, CommandStamp DEF AdminInv, StampsOK
    <3>2. CASE req.op \notin CredOps
      <4>1. At(c) = clock + 1
        BY <2>3, <3>2, LockIs DEF At
      <4>2. \A r \in Log : r.at \in Nat /\ r.at <= clock
        BY DEF AdminInv, LogOK, RowOK
      <4>3. \A o \in Calls : Stamped(call[o]) => Stamp(call[o]) \in 1..clock
        BY DEF AdminInv, StampsOK
      <4> QED BY <2>1, <2>3, <4>1, <4>2, <4>3
    <3> QED BY <3>1, <3>2
  <2>10. \A o \in Calls \ {c} : call[o].pc = "held" => LockOf(call[o].req, call[o].seen) # LockOf(v.req, v.seen)
    BY <1>0, <2>6 DEF Lock
  <2> QED BY <1>0, <2>1, <2>3, <2>7, <2>8, <2>9, <2>10, QuietStep
<1> QED BY <1>2, <1>3

(***************************************************************************)
(* The commit.                                                             *)
(***************************************************************************)

\* What a commit of c does to the tables and the log.
Writes(c) ==
  /\ call[c].pc = "held"
  /\ db' = [table \in DOMAIN db |-> (db[table] \ call[c].changes[table].del) \cup call[c].changes[table].ins]
  /\ log' = CreateAuditEntry(log, call[c].row)
  /\ UNCHANGED clock

\* What the invariant says of a transaction about to commit.
LEMMA HeldFacts ==
  ASSUME AdminInv, NEW c \in Calls, call[c].pc = "held"
  PROVE  /\ HeldOK(call[c].req, call[c].auth, call[c].seen, call[c].row, call[c].changes, call[c].answer)
         /\ ReqOK(call[c].req) /\ call[c].auth \in 0..Len(log)
         /\ call[c].row \in AuditRow /\ RowOK(call[c].row) /\ LetIn(call[c].row.actor, call[c].row.auth)
         /\ \A x \in Log : Follows(x, call[c].row)
         /\ Legal(View, call[c].row) /\ FirstOfName(Log, call[c].row)
         /\ Deltas(call[c].row, call[c].changes)
         /\ LockFits(call[c].req, call[c].seen, call[c].row)
         /\ Stamped(call[c]) /\ Stamp(call[c]) = call[c].row.at /\ call[c].row.at \in 1..clock
         /\ \A x \in Log : x.at # call[c].row.at
<1>1. HeldOK(call[c].req, call[c].auth, call[c].seen, call[c].row, call[c].changes, call[c].answer)
  BY DEF AdminInv, CallOK
<1>2. Stamped(call[c]) /\ Stamp(call[c]) = call[c].row.at
  BY DEF Stamped, Stamp
<1>3. call[c].row.at \in 1..clock /\ \A x \in Log : x.at # call[c].row.at
  BY <1>2 DEF AdminInv, StampsOK
<1> QED BY <1>1, <1>2, <1>3 DEF HeldOK

\* What the commit makes of the tables.
LEMMA CommitTables ==
  ASSUME AdminInv, NEW c \in Calls, Writes(c)
  PROVE  LET r == call[c].row
         IN  /\ db' = [tenants |-> db'.tenants, keys |-> db'.keys, quotas |-> db'.quotas, creds |-> db'.creds]
             /\ db'.tenants = IF r.action \in TenantActs THEN Replace(db.tenants, r.tenant, r.detail) ELSE db.tenants
             /\ db'.keys = IF r.action \in KeyActs THEN Replace(db.keys, r.key, r.detail) ELSE db.keys
             /\ db'.quotas = {q \in db.quotas : ~Clears(r, q)} \cup Adds(r)
             /\ r.action \notin CredActs => db'.creds = db.creds
             /\ r.action = "admin_credential.create" =>
                  \E x \in CredRow : x.name = r.detail.name /\ x.role = r.detail.role /\ ~x.revoked /\ db'.creds = db.creds \cup {x}
             /\ r.action = "admin_credential.revoke" =>
                  \E x \in db.creds : x.name = r.detail.name /\ x.role = r.detail.role /\ ~x.revoked
                                     /\ db'.creds = (db.creds \ {x}) \cup {[x EXCEPT !.revoked = TRUE]}
<1> DEFINE r == call[c].row
           ch == call[c].changes
<1>0. Deltas(r, ch) /\ call[c].pc = "held" /\ DbOK
  BY HeldFacts DEF Writes, AdminInv
<1>1. DOMAIN db = {"tenants", "keys", "quotas", "creds"}
  BY <1>0 DEF DbOK
<1>2. db' = [table \in {"tenants", "keys", "quotas", "creds"} |-> (db[table] \ ch[table].del) \cup ch[table].ins]
  BY <1>1 DEF Writes
<1> HIDE DEF r, ch
<1>3. db' = [tenants |-> db'.tenants, keys |-> db'.keys, quotas |-> db'.quotas, creds |-> db'.creds]
  <2>1. ASSUME NEW h, h = [table \in {"tenants", "keys", "quotas", "creds"} |-> h[table]]
        PROVE  h = [tenants |-> h["tenants"], keys |-> h["keys"], quotas |-> h["quotas"], creds |-> h["creds"]]
    BY <2>1
  <2>2. db' = [table \in {"tenants", "keys", "quotas", "creds"} |-> db'[table]]
    BY <1>2
  <2> QED BY <2>1, <2>2
<1>4. /\ db'.tenants = (db.tenants \ ch.tenants.del) \cup ch.tenants.ins
      /\ db'.keys = (db.keys \ ch.keys.del) \cup ch.keys.ins
      /\ db'.quotas = (db.quotas \ ch.quotas.del) \cup ch.quotas.ins
      /\ db'.creds = (db.creds \ ch.creds.del) \cup ch.creds.ins
  BY <1>2
<1>5. db'.tenants = IF r.action \in TenantActs THEN Replace(db.tenants, r.tenant, r.detail) ELSE db.tenants
  <2>1. CASE r.action \in TenantActs
    <3>1. ch.tenants.del = {t \in db.tenants : t.id = r.tenant} /\ ch.tenants.ins = {r.detail}
      BY <1>0, <2>1 DEF Deltas
    <3> QED BY <1>4, <2>1, <3>1 DEF Replace
  <2>2. CASE r.action \notin TenantActs
    <3>1. ch.tenants.del = {} /\ ch.tenants.ins = {}
      BY <1>0, <2>2 DEF Deltas
    <3> QED BY <1>4, <2>2, <3>1
  <2> QED BY <2>1, <2>2
<1>6. db'.keys = IF r.action \in KeyActs THEN Replace(db.keys, r.key, r.detail) ELSE db.keys
  <2>1. CASE r.action \in KeyActs
    <3>1. ch.keys.del = {k \in db.keys : k.id = r.key} /\ ch.keys.ins = {r.detail}
      BY <1>0, <2>1 DEF Deltas
    <3> QED BY <1>4, <2>1, <3>1 DEF Replace
  <2>2. CASE r.action \notin KeyActs
    <3>1. ch.keys.del = {} /\ ch.keys.ins = {}
      BY <1>0, <2>2 DEF Deltas
    <3> QED BY <1>4, <2>2, <3>1
  <2> QED BY <2>1, <2>2
<1>7. db'.quotas = {q \in db.quotas : ~Clears(r, q)} \cup Adds(r)
  <2>1. /\ ch.quotas.del = {q \in db.quotas : Clears(r, q)} \ Adds(r)
        /\ ch.quotas.ins = Adds(r) \ {q \in db.quotas : Clears(r, q)}
    BY <1>0 DEF Deltas
  <2> QED BY <1>4, <2>1
<1>8. r.action \notin CredActs => db'.creds = db.creds
  <2>1. r.action \notin CredActs => ch.creds.del = {} /\ ch.creds.ins = {}
    BY <1>0 DEF Deltas
  <2> QED BY <1>4, <2>1
<1>9. r.action = "admin_credential.create" =>
        \E x \in CredRow : x.name = r.detail.name /\ x.role = r.detail.role /\ ~x.revoked /\ db'.creds = db.creds \cup {x}
  <2> SUFFICES ASSUME r.action = "admin_credential.create"
               PROVE  \E x \in CredRow : x.name = r.detail.name /\ x.role = r.detail.role /\ ~x.revoked /\ db'.creds = db.creds \cup {x}
    OBVIOUS
  <2>1. PICK x \in ch.creds.ins : x \in CredRow /\ x.name = r.detail.name /\ x.role = r.detail.role /\ ~x.revoked
                                 /\ ch.creds = [del |-> {}, ins |-> {x}]
    BY <1>0 DEF Deltas
  <2>2. ch.creds.del = {} /\ ch.creds.ins = {x}
    BY <2>1
  <2> QED BY <1>4, <2>1, <2>2
<1>10. r.action = "admin_credential.revoke" =>
         \E x \in db.creds : x.name = r.detail.name /\ x.role = r.detail.role /\ ~x.revoked
                            /\ db'.creds = (db.creds \ {x}) \cup {[x EXCEPT !.revoked = TRUE]}
  <2> SUFFICES ASSUME r.action = "admin_credential.revoke"
               PROVE  \E x \in db.creds : x.name = r.detail.name /\ x.role = r.detail.role /\ ~x.revoked
                                         /\ db'.creds = (db.creds \ {x}) \cup {[x EXCEPT !.revoked = TRUE]}
    OBVIOUS
  <2>1. PICK x \in db.creds : x.name = r.detail.name /\ x.role = r.detail.role /\ ~x.revoked
                             /\ ch.creds = [del |-> {x}, ins |-> {[x EXCEPT !.revoked = TRUE]}]
    BY <1>0 DEF Deltas
  <2>2. ch.creds.del = {x} /\ ch.creds.ins = {[x EXCEPT !.revoked = TRUE]}
    BY <2>1
  <2> QED BY <1>4, <2>1, <2>2
<1> QED BY <1>3, <1>5, <1>6, <1>7, <1>8, <1>9, <1>10 DEF r

\* What the commit makes of the log.
LEMMA CommitLog ==
  ASSUME AdminInv, NEW c \in Calls, Writes(c)
  PROVE  LET r == call[c].row
         IN  /\ log' \in Seq(AuditRow) /\ Len(log') = Len(log) + 1 /\ Len(log) \in Nat
             /\ \A i \in 1..Len(log) : log'[i] = log[i]
             /\ log'[Len(log) + 1] = r
             /\ Log' = Log \cup {r}
             /\ \A n \in 0..Len(log) : {log'[i] : i \in 1..n} = Rows(n)
<1> DEFINE r == call[c].row
<1>0. r \in AuditRow /\ log \in Seq(AuditRow) /\ log' = Append(log, r)
  BY HeldFacts DEF AdminInv, LogOK, Writes, CreateAuditEntry
<1> HIDE DEF r
<1>1. /\ log' \in Seq(AuditRow) /\ Len(log') = Len(log) + 1 /\ Len(log) \in Nat
      /\ \A i \in 1..Len(log) : log'[i] = log[i]
      /\ log'[Len(log) + 1] = r
  BY <1>0
<1>2. Log' = {log'[i] : i \in 1..(Len(log) + 1)}
  BY <1>1 DEF Log, Rows
<1>3. Log' = Log \cup {r}
  <2>1. \A i : i \in 1..(Len(log) + 1) <=> i \in 1..Len(log) \/ i = Len(log) + 1
    BY <1>1
  <2> QED BY <1>1, <1>2, <2>1 DEF Log, Rows
<1>4. \A n \in 0..Len(log) : {log'[i] : i \in 1..n} = Rows(n)
  <2> TAKE n \in 0..Len(log)
  <2>1. \A i \in 1..n : i \in 1..Len(log)
    BY <1>1
  <2> QED BY <1>1, <2>1 DEF Rows
<1> QED BY <1>1, <1>3, <1>4 DEF r

\* The tables say what the log says after the commit too.
LEMMA CommitTold ==
  ASSUME AdminInv, NEW c \in Calls, Writes(c)
  PROVE  (Told(Log) = View)'
<1> DEFINE r == call[c].row
           N == Log \cup {r}
<1>0. /\ RowOK(r) /\ (\A x \in Log : Follows(x, r)) /\ DbOK /\ \A x \in Log : RowOK(x)
  BY HeldFacts DEF AdminInv, LogOK, Writes
<1>1. /\ TenantsOf(Log) = db.tenants /\ KeysOf(Log) = db.keys /\ QuotasOf(Log) = db.quotas /\ CredsOf(Log) = Live(db.creds)
  BY ViewIs
<1>t. /\ db' = [tenants |-> db'.tenants, keys |-> db'.keys, quotas |-> db'.quotas, creds |-> db'.creds]
      /\ db'.tenants = IF r.action \in TenantActs THEN Replace(db.tenants, r.tenant, r.detail) ELSE db.tenants
      /\ db'.keys = IF r.action \in KeyActs THEN Replace(db.keys, r.key, r.detail) ELSE db.keys
      /\ db'.quotas = {q \in db.quotas : ~Clears(r, q)} \cup Adds(r)
      /\ r.action \notin CredActs => db'.creds = db.creds
      /\ r.action = "admin_credential.create" =>
           \E x \in CredRow : x.name = r.detail.name /\ x.role = r.detail.role /\ ~x.revoked /\ db'.creds = db.creds \cup {x}
      /\ r.action = "admin_credential.revoke" =>
           \E x \in db.creds : x.name = r.detail.name /\ x.role = r.detail.role /\ ~x.revoked
                              /\ db'.creds = (db.creds \ {x}) \cup {[x EXCEPT !.revoked = TRUE]}
  BY CommitTables
<1> HIDE DEF r
<1>2. TenantsOf(N) = db'.tenants
  BY <1>0, <1>1, <1>t, TenantsAdd
<1>3. KeysOf(N) = db'.keys
  BY <1>0, <1>1, <1>t, KeysAdd
<1>4. QuotasOf(N) = db'.quotas
  BY <1>0, <1>1, <1>t, QuotasAdd
<1>5. CredsOf(N) = Live(db'.creds)
  <2>0. CredsOf(N) = IF r.action = "admin_credential.create" THEN Live(db.creds) \cup {r.detail}
                     ELSE IF r.action = "admin_credential.revoke" THEN Live(db.creds) \ {r.detail}
                     ELSE Live(db.creds)
    BY <1>0, <1>1, CredsAdd
  <2>d. r.action \in CredActs => r.detail \in CredName /\ r.detail = [name |-> r.detail.name, role |-> r.detail.role]
    BY <1>0 DEF RowOK, CredName
  <2>1. CASE r.action = "admin_credential.create"
    <3>1. PICK x \in CredRow : x.name = r.detail.name /\ x.role = r.detail.role /\ ~x.revoked /\ db'.creds = db.creds \cup {x}
      BY <1>t, <2>1
    <3>2. [name |-> x.name, role |-> x.role] = r.detail
      BY <3>1, <2>1, <2>d DEF CredActs
    <3>3. Live(db.creds \cup {x}) = Live(db.creds) \cup {[name |-> x.name, role |-> x.role]}
      BY <3>1 DEF Live
    <3> QED BY <2>0, <2>1, <3>1, <3>2, <3>3
  <2>2. CASE r.action = "admin_credential.revoke"
    <3>1. PICK x \in db.creds : x.name = r.detail.name /\ x.role = r.detail.role /\ ~x.revoked
                               /\ db'.creds = (db.creds \ {x}) \cup {[x EXCEPT !.revoked = TRUE]}
      BY <1>t, <2>2
    <3>2. [name |-> x.name, role |-> x.role] = r.detail
      BY <3>1, <2>2, <2>d DEF CredActs
    <3> DEFINE u == [x EXCEPT !.revoked = TRUE]
    <3>3. u.revoked
      BY <1>0 DEF DbOK, CredRow
    <3>4. \A y \in db.creds \ {x} : [name |-> y.name, role |-> y.role] # [name |-> x.name, role |-> x.role]
      <4>1. \A y \in db.creds \ {x} : y.name # x.name
        BY <1>0 DEF DbOK
      <4> QED BY <4>1
    <3> HIDE DEF u
    <3>5. Live((db.creds \ {x}) \cup {u}) = Live(db.creds) \ {[name |-> x.name, role |-> x.role]}
      BY <3>3, <3>4 DEF Live
    <3> QED BY <2>0, <2>2, <3>1, <3>2, <3>5 DEF u
  <2>3. CASE r.action \notin CredActs
    BY <1>t, <2>0, <2>3 DEF CredActs
  <2> QED BY <2>1, <2>2, <2>3 DEF CredActs
<1>6. Log' = N
  BY CommitLog DEF r
<1>7. Told(Log)' = Told(N)
  BY <1>6 DEF Told, TenantsOf, KeysOf, QuotasOf, CredsOf, LastTenant, LastKey, LastQuota, Adds, Clears
<1>8. View' = [tenants |-> db'.tenants, keys |-> db'.keys, quotas |-> db'.quotas, creds |-> Live(db'.creds)]
  <2>1. View' = [db' EXCEPT !.creds = Live(db'.creds)]
    BY DEF View
  <2>2. ASSUME NEW a, NEW k, NEW q, NEW x, NEW y
        PROVE  [[tenants |-> a, keys |-> k, quotas |-> q, creds |-> x] EXCEPT !.creds = y] = [tenants |-> a, keys |-> k, quotas |-> q, creds |-> y]
    OBVIOUS
  <2>3. PICK a, k, q, x : db' = [tenants |-> a, keys |-> k, quotas |-> q, creds |-> x]
                          /\ a = db'.tenants /\ k = db'.keys /\ q = db'.quotas /\ x = db'.creds
    BY <1>t
  <2> QED BY <2>1, <2>2, <2>3
<1> HIDE DEF N
<1> QED BY <1>2, <1>3, <1>4, <1>5, <1>7, <1>8 DEF Told

\* Two transactions that hold their locks change different objects.
LEMMA HeldApart ==
  ASSUME AdminInv, NEW c \in Calls, NEW o \in Calls, c # o, call[c].pc = "held", call[o].pc = "held"
  PROVE  LET r == call[c].row
             s == call[o].row
         IN  /\ ~Same(r, s)
             /\ r.action \in CredActs /\ s.action \in CredActs => r.detail.name # s.detail.name
             /\ r.action = "tenant.create" /\ s.action = "tenant.create" => r.detail.ext # s.detail.ext
<1> DEFINE r == call[c].row
           s == call[o].row
           lr == LockOf(call[c].req, call[c].seen)
           ls == LockOf(call[o].req, call[o].seen)
<1>0. /\ RowOK(r) /\ Legal(View, r) /\ LockFits(call[c].req, call[c].seen, r)
      /\ RowOK(s) /\ Legal(View, s) /\ LockFits(call[o].req, call[o].seen, s)
  BY HeldFacts
<1>1. lr # ls /\ r.at # s.at /\ DbOK
  BY HeldFacts DEF AdminInv, LocksApart, StampsOK
<1>2. View.tenants = db.tenants /\ View.keys = db.keys
  BY ViewIs
<1>3. /\ r.action = "tenant.create" => lr = <<"external_id", r.detail.ext>> /\ r.tenant = r.at
      /\ s.action = "tenant.create" => ls = <<"external_id", s.detail.ext>> /\ s.tenant = s.at
      /\ r.action # "tenant.create" /\ r.tenant > 0 => lr = <<"tenant", r.tenant>>
      /\ s.action # "tenant.create" /\ s.tenant > 0 => ls = <<"tenant", s.tenant>>
      /\ r.action \in CredActs => lr = <<"name", r.detail.name>>
      /\ s.action \in CredActs => ls = <<"name", s.detail.name>>
      /\ r.action = "key.create" => r.key = r.at
      /\ s.action = "key.create" => s.key = s.at
      /\ r.action \in {"key.update", "key.revoke"} => \E k \in db.keys : k.id = r.key /\ k.tenant = r.tenant
      /\ s.action \in {"key.update", "key.revoke"} => \E k \in db.keys : k.id = s.key /\ k.tenant = s.tenant
  BY <1>0 DEF LockFits
<1>4. /\ r.tenant > 0 => (r.action = "tenant.create" <=> {x \in db.tenants : x.id = r.tenant} = {})
      /\ s.tenant > 0 => (s.action = "tenant.create" <=> {x \in db.tenants : x.id = s.tenant} = {})
      /\ r.action = "key.create" => {x \in db.keys : x.id = r.key} = {}
      /\ s.action = "key.create" => {x \in db.keys : x.id = s.key} = {}
  BY <1>0, <1>2 DEF Legal
<1>5. /\ r.key > 0 => r.action \in {"key.create", "key.update", "key.revoke"} /\ r.tenant > 0
      /\ s.key > 0 => s.action \in {"key.create", "key.update", "key.revoke"} /\ s.tenant > 0
  BY <1>0 DEF RowOK, KeyActs
<1> HIDE DEF r, s, lr, ls
<1>6. ~(r.tenant > 0 /\ r.tenant = s.tenant)
  <2> SUFFICES ASSUME r.tenant > 0, r.tenant = s.tenant PROVE FALSE
    OBVIOUS
  <2>1. r.action = "tenant.create" <=> s.action = "tenant.create"
    BY <1>4
  <2>2. CASE r.action = "tenant.create"
    BY <1>1, <1>3, <2>1, <2>2
  <2>3. CASE r.action # "tenant.create"
    BY <1>1, <1>3, <2>1, <2>3
  <2> QED BY <2>2, <2>3
<1>7. ~(r.key > 0 /\ r.key = s.key)
  <2> SUFFICES ASSUME r.key > 0, r.key = s.key PROVE FALSE
    OBVIOUS
  <2>1. /\ r.action \in {"key.create", "key.update", "key.revoke"} /\ r.tenant > 0
        /\ s.action \in {"key.create", "key.update", "key.revoke"} /\ s.tenant > 0
    BY <1>5
  <2>2. r.action = "key.create" <=> s.action = "key.create"
    BY <1>3, <1>4, <2>1
  <2>3. CASE r.action = "key.create"
    BY <1>1, <1>3, <2>2, <2>3
  <2>4. CASE r.action # "key.create"
    <3>1. PICK k \in db.keys : k.id = r.key /\ k.tenant = r.tenant
      BY <1>3, <2>1, <2>4
    <3>2. PICK l \in db.keys : l.id = s.key /\ l.tenant = s.tenant
      BY <1>3, <2>1, <2>2, <2>4
    <3>3. r.tenant = s.tenant
      BY <3>1, <3>2, <1>1 DEF DbOK
    <3> QED BY <1>6, <2>1, <3>3
  <2> QED BY <2>3, <2>4
<1>8. r.action \in CredActs /\ s.action \in CredActs => r.detail.name # s.detail.name
  BY <1>1, <1>3
<1>9. r.action = "tenant.create" /\ s.action = "tenant.create" => r.detail.ext # s.detail.ext
  BY <1>1, <1>3
<1> QED BY <1>6, <1>7, <1>8, <1>9 DEF Same, r, s

\* Nothing leaves the tables: a commit keeps each object, and its name.
LEMMA Persist ==
  ASSUME AdminInv, NEW c \in Calls, Writes(c)
  PROVE  /\ \A t \in db.tenants : \E u \in db'.tenants : u.id = t.id /\ u.ext = t.ext
         /\ \A k \in db.keys : \E u \in db'.keys : u.id = k.id /\ u.tenant = k.tenant
         /\ \A x \in db.creds : \E u \in db'.creds : u.name = x.name /\ u.role = x.role
<1> DEFINE r == call[c].row
<1>0. RowOK(r) /\ DbOK /\ Legal(View, r) /\ LockFits(call[c].req, call[c].seen, r)
  BY HeldFacts DEF AdminInv, Writes
<1>1. View.tenants = db.tenants /\ View.keys = db.keys
  BY ViewIs
<1>t. /\ db'.tenants = IF r.action \in TenantActs THEN Replace(db.tenants, r.tenant, r.detail) ELSE db.tenants
      /\ db'.keys = IF r.action \in KeyActs THEN Replace(db.keys, r.key, r.detail) ELSE db.keys
      /\ r.action \notin CredActs => db'.creds = db.creds
      /\ r.action = "admin_credential.create" =>
           \E x \in CredRow : x.name = r.detail.name /\ x.role = r.detail.role /\ ~x.revoked /\ db'.creds = db.creds \cup {x}
      /\ r.action = "admin_credential.revoke" =>
           \E x \in db.creds : x.name = r.detail.name /\ x.role = r.detail.role /\ ~x.revoked
                              /\ db'.creds = (db.creds \ {x}) \cup {[x EXCEPT !.revoked = TRUE]}
  BY CommitTables
<1> HIDE DEF r
<1>2. ASSUME NEW t \in db.tenants PROVE \E u \in db'.tenants : u.id = t.id /\ u.ext = t.ext
  <2>1. CASE r.action \in TenantActs /\ t.id = r.tenant
    <3>1. r.action # "tenant.create"
      BY <1>0, <1>1, <2>1 DEF Legal, RowOK
    <3>2. t.ext = r.detail.ext /\ r.detail.id = r.tenant
      BY <1>0, <2>1, <3>1 DEF LockFits, RowOK
    <3> QED BY <1>t, <2>1, <3>2 DEF Replace
  <2>2. CASE ~(r.action \in TenantActs /\ t.id = r.tenant)
    BY <1>t, <2>2 DEF Replace
  <2> QED BY <2>1, <2>2
<1>3. ASSUME NEW k \in db.keys PROVE \E u \in db'.keys : u.id = k.id /\ u.tenant = k.tenant
  <2>1. CASE r.action \in KeyActs /\ k.id = r.key
    <3>1. r.action # "key.create"
      BY <1>0, <1>1, <2>1 DEF Legal
    <3>2. \E l \in db.keys : l.id = r.key /\ l.tenant = r.tenant
      BY <1>0, <2>1, <3>1 DEF LockFits, KeyActs
    <3>3. k.tenant = r.detail.tenant /\ r.detail.id = r.key
      BY <1>0, <2>1, <3>2 DEF DbOK, RowOK
    <3> QED BY <1>t, <2>1, <3>3 DEF Replace
  <2>2. CASE ~(r.action \in KeyActs /\ k.id = r.key)
    BY <1>t, <2>2 DEF Replace
  <2> QED BY <2>1, <2>2
<1>4. ASSUME NEW x \in db.creds PROVE \E u \in db'.creds : u.name = x.name /\ u.role = x.role
  <2>1. CASE r.action = "admin_credential.revoke"
    <3>1. PICK y \in db.creds : db'.creds = (db.creds \ {y}) \cup {[y EXCEPT !.revoked = TRUE]}
      BY <1>t, <2>1
    <3>2. [y EXCEPT !.revoked = TRUE].name = y.name /\ [y EXCEPT !.revoked = TRUE].role = y.role
      BY <1>0 DEF DbOK, CredRow
    <3> QED BY <3>1, <3>2
  <2>2. CASE r.action = "admin_credential.create"
    BY <1>t, <2>2
  <2>3. CASE r.action \notin CredActs
    BY <1>t, <2>3
  <2> QED BY <2>1, <2>2, <2>3 DEF CredActs
<1> QED BY <1>2, <1>3, <1>4

\* A commit keeps the constraints of the tables.
LEMMA CommitDb ==
  ASSUME AdminInv, NEW c \in Calls, Writes(c)
  PROVE  DbOK'
<1> DEFINE r == call[c].row
<1>0. RowOK(r) /\ DbOK /\ Legal(View, r) /\ LockFits(call[c].req, call[c].seen, r) /\ FirstOfName(Log, r) /\ Linked
  BY HeldFacts DEF AdminInv, Writes
<1>1. View.tenants = db.tenants /\ View.keys = db.keys
  BY ViewIs
<1>t. /\ db' = [tenants |-> db'.tenants, keys |-> db'.keys, quotas |-> db'.quotas, creds |-> db'.creds]
      /\ db'.tenants = IF r.action \in TenantActs THEN Replace(db.tenants, r.tenant, r.detail) ELSE db.tenants
      /\ db'.keys = IF r.action \in KeyActs THEN Replace(db.keys, r.key, r.detail) ELSE db.keys
      /\ db'.quotas = {q \in db.quotas : ~Clears(r, q)} \cup Adds(r)
      /\ r.action \notin CredActs => db'.creds = db.creds
      /\ r.action = "admin_credential.create" =>
           \E x \in CredRow : x.name = r.detail.name /\ x.role = r.detail.role /\ ~x.revoked /\ db'.creds = db.creds \cup {x}
      /\ r.action = "admin_credential.revoke" =>
           \E x \in db.creds : x.name = r.detail.name /\ x.role = r.detail.role /\ ~x.revoked
                              /\ db'.creds = (db.creds \ {x}) \cup {[x EXCEPT !.revoked = TRUE]}
  BY CommitTables
<1>k. \A k \in db.keys : \E u \in db'.tenants : u.id = k.tenant
  <2> TAKE k \in db.keys
  <2>1. PICK t \in db.tenants : t.id = k.tenant
    BY <1>0 DEF DbOK
  <2> QED BY <2>1, Persist
<1> HIDE DEF r
<1>2. db'.tenants \in SUBSET TenantRow /\ \A a, b \in db'.tenants : a.id = b.id \/ a.ext = b.ext => a = b
  <2>1. CASE r.action \in TenantActs
    <3>1. /\ r.detail \in TenantRow /\ r.detail.id = r.tenant /\ r.tenant > 0
          /\ db'.tenants = {t \in db.tenants : t.id # r.tenant} \cup {r.detail}
      BY <1>0, <1>t, <2>1 DEF RowOK, Replace
    <3>2. \A t \in db.tenants : t.id # r.tenant => t.ext # r.detail.ext
      <4>1. CASE r.action = "tenant.create"
        BY <1>0, <1>1, <4>1 DEF Legal
      <4>2. CASE r.action # "tenant.create"
        <5>1. PICK u \in db.tenants : u.id = r.tenant
          BY <1>0, <1>1, <3>1, <4>2 DEF Legal
        <5>2. u.ext = r.detail.ext
          BY <1>0, <2>1, <4>2, <5>1 DEF LockFits
        <5> QED BY <1>0, <5>1, <5>2 DEF DbOK
      <4> QED BY <4>1, <4>2
    <3> QED BY <1>0, <3>1, <3>2 DEF DbOK
  <2>2. CASE r.action \notin TenantActs
    BY <1>0, <1>t, <2>2 DEF DbOK
  <2> QED BY <2>1, <2>2
<1>3. /\ db'.keys \in SUBSET KeyRow /\ (\A a, b \in db'.keys : a.id = b.id => a = b)
      /\ \A k \in db'.keys : \E t \in db'.tenants : t.id = k.tenant
  <2>1. CASE r.action \in KeyActs
    <3>1. /\ r.detail \in KeyRow /\ r.detail.id = r.key /\ r.detail.tenant = r.tenant /\ r.tenant > 0
          /\ db'.keys = {k \in db.keys : k.id # r.key} \cup {r.detail}
      BY <1>0, <1>t, <2>1 DEF RowOK, Replace
    <3>2. r.action \notin TenantActs /\ r.action # "tenant.create"
      BY <2>1 DEF KeyActs, TenantActs
    <3>3. \E t \in db.tenants : t.id = r.tenant
      BY <1>0, <1>1, <3>1, <3>2 DEF Legal
    <3> QED BY <1>0, <1>k, <1>t, <3>1, <3>2, <3>3 DEF DbOK
  <2>2. CASE r.action \notin KeyActs
    BY <1>0, <1>k, <1>t, <2>2 DEF DbOK
  <2> QED BY <2>1, <2>2
<1>4. db'.quotas \in SUBSET QuotaRow
  <2>1. Adds(r) \subseteq QuotaRow
    BY <1>0 DEF Adds, RowOK
  <2> QED BY <1>0, <1>t, <2>1 DEF DbOK
<1>5. db'.creds \in SUBSET CredRow /\ \A a, b \in db'.creds : a.name = b.name => a = b
  <2>1. CASE r.action = "admin_credential.create"
    <3>1. PICK x \in CredRow : x.name = r.detail.name /\ db'.creds = db.creds \cup {x}
      BY <1>t, <2>1
    <3>2. \A y \in db.creds : y.name # r.detail.name
      BY <1>0, <2>1 DEF Linked, FirstOfName, CredActs
    <3> QED BY <1>0, <3>1, <3>2 DEF DbOK
  <2>2. CASE r.action = "admin_credential.revoke"
    <3>1. PICK x \in db.creds : db'.creds = (db.creds \ {x}) \cup {[x EXCEPT !.revoked = TRUE]}
      BY <1>t, <2>2
    <3> DEFINE u == [x EXCEPT !.revoked = TRUE]
    <3>2. u \in CredRow /\ u.name = x.name
      BY <1>0 DEF DbOK, CredRow
    <3> HIDE DEF u
    <3>3. db'.creds = (db.creds \ {x}) \cup {u}
      BY <3>1 DEF u
    <3> QED BY <1>0, <3>2, <3>3 DEF DbOK
  <2>3. CASE r.action \notin CredActs
    BY <1>0, <1>t, <2>3 DEF DbOK
  <2> QED BY <2>1, <2>2, <2>3 DEF CredActs
<1>6. db' \in [tenants : SUBSET TenantRow, keys : SUBSET KeyRow, quotas : SUBSET QuotaRow, creds : SUBSET CredRow]
  BY <1>t, <1>2, <1>3, <1>4, <1>5
<1> QED BY <1>2, <1>3, <1>5, <1>6 DEF DbOK, TenantRow, KeyRow, QuotaRow, CredRow

\* A commit keeps the objects and their rows together.
LEMMA CommitLinked ==
  ASSUME AdminInv, NEW c \in Calls, Writes(c)
  PROVE  Linked'
<1> DEFINE r == call[c].row
<1>0. RowOK(r) /\ DbOK /\ Legal(View, r) /\ LockFits(call[c].req, call[c].seen, r) /\ Linked /\ \A x \in Log : RowOK(x)
  BY HeldFacts DEF AdminInv, Writes, LogOK
<1>1. View.tenants = db.tenants /\ View.keys = db.keys /\ View.creds = Live(db.creds)
  BY ViewIs
<1>t. /\ db' = [tenants |-> db'.tenants, keys |-> db'.keys, quotas |-> db'.quotas, creds |-> db'.creds]
      /\ db'.tenants = IF r.action \in TenantActs THEN Replace(db.tenants, r.tenant, r.detail) ELSE db.tenants
      /\ db'.keys = IF r.action \in KeyActs THEN Replace(db.keys, r.key, r.detail) ELSE db.keys
      /\ db'.quotas = {q \in db.quotas : ~Clears(r, q)} \cup Adds(r)
      /\ r.action \notin CredActs => db'.creds = db.creds
      /\ r.action = "admin_credential.create" =>
           \E x \in CredRow : x.name = r.detail.name /\ x.role = r.detail.role /\ ~x.revoked /\ db'.creds = db.creds \cup {x}
      /\ r.action = "admin_credential.revoke" =>
           \E x \in db.creds : x.name = r.detail.name /\ x.role = r.detail.role /\ ~x.revoked
                              /\ db'.creds = (db.creds \ {x}) \cup {[x EXCEPT !.revoked = TRUE]}
  BY CommitTables
<1>l. Log' = Log \cup {r}
  BY CommitLog
<1>p. /\ \A t \in db.tenants : \E u \in db'.tenants : u.id = t.id /\ u.ext = t.ext
      /\ \A k \in db.keys : \E u \in db'.keys : u.id = k.id /\ u.tenant = k.tenant
      /\ \A x \in db.creds : \E u \in db'.creds : u.name = x.name /\ u.role = x.role
  BY Persist
<1> HIDE DEF r
<1>2. \A x \in Log' : x.tenant > 0 => \E t \in db'.tenants : t.id = x.tenant /\ (x.action \in TenantActs => t.ext = x.detail.ext)
  <2>1. ASSUME NEW x \in Log, x.tenant > 0 PROVE \E t \in db'.tenants : t.id = x.tenant /\ (x.action \in TenantActs => t.ext = x.detail.ext)
    <3>1. PICK t \in db.tenants : t.id = x.tenant /\ (x.action \in TenantActs => t.ext = x.detail.ext)
      BY <1>0, <2>1 DEF Linked
    <3>2. PICK u \in db'.tenants : u.id = t.id /\ u.ext = t.ext
      BY <1>p
    <3> QED BY <3>1, <3>2
  <2>2. ASSUME r.tenant > 0 PROVE \E t \in db'.tenants : t.id = r.tenant /\ (r.action \in TenantActs => t.ext = r.detail.ext)
    <3>1. CASE r.action \in TenantActs
      BY <1>0, <1>t, <3>1 DEF RowOK, Replace
    <3>2. CASE r.action \notin TenantActs
      BY <1>0, <1>1, <1>t, <2>2, <3>2 DEF Legal, TenantActs
    <3> QED BY <3>1, <3>2
  <2> QED BY <1>l, <2>1, <2>2
<1>3. \A x \in Log' : x.action \in KeyActs => \E k \in db'.keys : k.id = x.key /\ k.tenant = x.tenant
  <2>1. ASSUME NEW x \in Log, x.action \in KeyActs PROVE \E k \in db'.keys : k.id = x.key /\ k.tenant = x.tenant
    <3>1. PICK k \in db.keys : k.id = x.key /\ k.tenant = x.tenant
      BY <1>0, <2>1 DEF Linked
    <3>2. PICK u \in db'.keys : u.id = k.id /\ u.tenant = k.tenant
      BY <1>p
    <3> QED BY <3>1, <3>2
  <2>2. ASSUME r.action \in KeyActs PROVE \E k \in db'.keys : k.id = r.key /\ k.tenant = r.tenant
    BY <1>0, <1>t, <2>2 DEF RowOK, Replace
  <2> QED BY <1>l, <2>1, <2>2
<1>4. \A x \in Log' : x.action \in CredActs => \E y \in db'.creds : y.name = x.detail.name /\ y.role = x.detail.role
  <2>1. ASSUME NEW x \in Log, x.action \in CredActs PROVE \E y \in db'.creds : y.name = x.detail.name /\ y.role = x.detail.role
    <3>1. PICK y \in db.creds : y.name = x.detail.name /\ y.role = x.detail.role
      BY <1>0, <2>1 DEF Linked
    <3>2. PICK u \in db'.creds : u.name = y.name /\ u.role = y.role
      BY <1>p
    <3> QED BY <3>1, <3>2
  <2>2. CASE r.action = "admin_credential.create"
    BY <1>l, <1>t, <2>1, <2>2
  <2>3. CASE r.action = "admin_credential.revoke"
    <3>1. PICK x \in db.creds : x.name = r.detail.name /\ x.role = r.detail.role
      BY <1>t, <2>3
    <3>2. PICK u \in db'.creds : u.name = x.name /\ u.role = x.role
      BY <1>p
    <3> QED BY <1>l, <2>1, <3>1, <3>2
  <2>4. CASE r.action \notin CredActs
    BY <1>l, <2>1, <2>4
  <2> QED BY <2>2, <2>3, <2>4 DEF CredActs
<1>5. \A t \in db'.tenants : \E x \in Log' : x.action = "tenant.create" /\ x.tenant = t.id /\ x.detail.ext = t.ext
  <2>1. \A t \in db.tenants : \E x \in Log' : x.action = "tenant.create" /\ x.tenant = t.id /\ x.detail.ext = t.ext
    BY <1>0, <1>l DEF Linked
  <2>2. CASE r.action = "tenant.create"
    <3>1. r.detail.id = r.tenant
      BY <1>0, <2>2 DEF RowOK, TenantActs
    <3> QED BY <1>l, <1>t, <2>1, <2>2, <3>1 DEF Replace, TenantActs
  <2>3. CASE r.action \in TenantActs \ {"tenant.create"}
    <3>1. PICK t \in db.tenants : t.id = r.tenant
      BY <1>0, <1>1, <2>3 DEF Legal, RowOK
    <3>2. r.detail.id = t.id /\ r.detail.ext = t.ext
      BY <1>0, <2>3, <3>1 DEF RowOK, LockFits
    <3> QED BY <1>t, <2>1, <2>3, <3>1, <3>2 DEF Replace
  <2>4. CASE r.action \notin TenantActs
    BY <1>t, <2>1, <2>4
  <2> QED BY <2>2, <2>3, <2>4
<1>6. \A t \in db'.tenants : \E x \in Log' : x.action \in {"tenant.create", "tenant.update"} /\ x.detail.ext = t.ext /\ x.detail.doc = t.doc
  <2>1. \A t \in db.tenants : \E x \in Log' : x.action \in {"tenant.create", "tenant.update"} /\ x.detail.ext = t.ext /\ x.detail.doc = t.doc
    BY <1>0, <1>l DEF Linked
  <2>2. CASE r.action \in {"tenant.create", "tenant.update"}
    BY <1>l, <1>t, <2>1, <2>2 DEF Replace, TenantActs
  <2>3. CASE r.action \in TenantActs \ {"tenant.create", "tenant.update"}
    <3>1. PICK t \in db.tenants : t.id = r.tenant
      BY <1>0, <1>1, <2>3 DEF Legal, RowOK
    <3>2. r.detail.doc = t.doc /\ r.detail.ext = t.ext
      BY <1>0, <2>3, <3>1 DEF RowOK, LockFits
    <3> QED BY <1>t, <2>1, <2>3, <3>1, <3>2 DEF Replace
  <2>4. CASE r.action \notin TenantActs
    BY <1>t, <2>1, <2>4
  <2> QED BY <2>2, <2>3, <2>4
<1>7. \A k \in db'.keys : \E x \in Log' : x.action = "key.create" /\ x.key = k.id
  <2>1. \A k \in db.keys : \E x \in Log' : x.action = "key.create" /\ x.key = k.id
    BY <1>0, <1>l DEF Linked
  <2>2. CASE r.action = "key.create"
    BY <1>0, <1>l, <1>t, <2>1, <2>2 DEF Replace, KeyActs, RowOK
  <2>3. CASE r.action \in KeyActs \ {"key.create"}
    <3>1. PICK k \in db.keys : k.id = r.key
      BY <1>0, <2>3 DEF LockFits, KeyActs
    <3>2. r.detail.id = k.id
      BY <1>0, <2>3, <3>1 DEF RowOK
    <3> QED BY <1>t, <2>1, <2>3, <3>1, <3>2 DEF Replace
  <2>4. CASE r.action \notin KeyActs
    BY <1>t, <2>1, <2>4
  <2> QED BY <2>2, <2>3, <2>4
<1>8. \A y \in db'.creds : \E x \in Log' : x.action = "admin_credential.create" /\ x.detail.name = y.name
  <2>1. \A y \in db.creds : \E x \in Log' : x.action = "admin_credential.create" /\ x.detail.name = y.name
    BY <1>0, <1>l DEF Linked
  <2>2. CASE r.action = "admin_credential.create"
    BY <1>l, <1>t, <2>1, <2>2
  <2>3. CASE r.action = "admin_credential.revoke"
    <3>1. PICK x \in db.creds : db'.creds = (db.creds \ {x}) \cup {[x EXCEPT !.revoked = TRUE]}
      BY <1>t, <2>3
    <3> DEFINE u == [x EXCEPT !.revoked = TRUE]
    <3>2. u.name = x.name
      BY <1>0 DEF DbOK, CredRow
    <3>3. db'.creds = (db.creds \ {x}) \cup {u}
      BY <3>1
    <3> HIDE DEF u
    <3> QED BY <2>1, <3>2, <3>3
  <2>4. CASE r.action \notin CredActs
    BY <1>t, <2>1, <2>4
  <2> QED BY <2>2, <2>3, <2>4 DEF CredActs
<1>9. \A x \in Log' : (x.action = "tenant.create" => x.tenant = x.at) /\ (x.action = "key.create" => x.key = x.at)
  BY <1>0, <1>l DEF Linked, LockFits
<1> QED BY <1>2, <1>3, <1>4, <1>5, <1>6, <1>7, <1>8, <1>9 DEF Linked, TenantActs, KeyActs, CredActs

\* A commit keeps the log in order: the lock kept every other row of its object out.
LEMMA CommitLogOK ==
  ASSUME AdminInv, NEW c \in Calls, Writes(c)
  PROVE  LogOK'
<1> DEFINE r == call[c].row
           n == Len(log)
<1>0. /\ LogOK /\ RowOK(r) /\ r \in AuditRow /\ LetIn(r.actor, r.auth) /\ (\A x \in Log : Follows(x, r))
      /\ Legal(View, r) /\ FirstOfName(Log, r) /\ r.at \in 1..clock /\ (\A x \in Log : x.at # r.at)
      /\ Told(Log) = View /\ clock \in Nat /\ clock' = clock
  BY HeldFacts DEF AdminInv, Writes, StampsOK
<1>l. /\ log' \in Seq(AuditRow) /\ Len(log') = n + 1 /\ n \in Nat
      /\ \A i \in 1..n : log'[i] = log[i]
      /\ log'[n + 1] = r
      /\ Log' = Log \cup {r}
      /\ \A m \in 0..n : {log'[i] : i \in 1..m} = Rows(m)
  BY CommitLog
<1>r. \A m \in 0..n : Rows(m)' = Rows(m)
  BY <1>l DEF Rows
<1>s. \A i \in 1..n : log[i] \in Log
  BY <1>0, RowsOfLog
<1>w. Rows(n) = Log
  BY DEF Log
<1> HIDE DEF r, n
<1>1. \A x \in Log' : RowOK(x) /\ x.at <= clock /\ x.auth <= n + 1
  <2>1. \A x \in Log : RowOK(x) /\ x.at <= clock /\ x.auth <= n /\ x.auth \in Nat
    <3>1. \A x \in Log : x \in AuditRow
      BY <1>0, RowsOfLog
    <3> QED BY <1>0, <3>1 DEF LogOK, n, AuditRow
  <2>2. RowOK(r) /\ r.at <= clock /\ r.auth \in 0..n
    BY <1>0 DEF LetIn, n
  <2> QED BY <1>l, <2>1, <2>2
<1>2. \A i, j \in 1..(n + 1) : i < j => log'[i].at # log'[j].at /\ Follows(log'[i], log'[j])
  <2> SUFFICES ASSUME NEW i \in 1..(n + 1), NEW j \in 1..(n + 1), i < j PROVE log'[i].at # log'[j].at /\ Follows(log'[i], log'[j])
    OBVIOUS
  <2>1. i \in 1..n /\ log'[i] = log[i] /\ log[i] \in Log
    BY <1>l, <1>s
  <2>2. CASE j = n + 1
    BY <1>0, <1>l, <2>1, <2>2
  <2>3. CASE j # n + 1
    <3>1. j \in 1..n /\ log'[j] = log[j]
      BY <1>l, <2>3
    <3> QED BY <1>0, <2>1, <3>1 DEF LogOK, n
  <2> QED BY <2>2, <2>3
<1>3. \A i \in 1..(n + 1) : Legal(Told(Rows(i - 1)'), log'[i]) /\ FirstOfName(Rows(i - 1)', log'[i])
  <2> TAKE i \in 1..(n + 1)
  <2>1. i - 1 \in 0..n /\ Rows(i - 1)' = Rows(i - 1)
    BY <1>l, <1>r
  <2>2. CASE i = n + 1
    <3>1. i - 1 = n /\ Rows(i - 1) = Log
      BY <1>l, <1>w, <2>2
    <3> QED BY <1>0, <1>l, <2>1, <2>2, <3>1
  <2>3. CASE i # n + 1
    <3>1. i \in 1..n /\ log'[i] = log[i]
      BY <1>l, <2>3
    <3> QED BY <1>0, <2>1, <3>1 DEF LogOK, n
  <2> QED BY <2>2, <2>3
<1>4. \A x \in Log' : x.actor # "cli" => [name |-> x.actor, role |-> "admin"] \in CredsOf(Rows(x.auth)')
  <2>1. ASSUME NEW x \in Log, x.actor # "cli" PROVE [name |-> x.actor, role |-> "admin"] \in CredsOf(Rows(x.auth)')
    <3>1. x \in AuditRow
      BY <1>0, RowsOfLog
    <3>2. x.auth \in 0..n
      BY <1>0, <1>l, <3>1 DEF LogOK, n, AuditRow
    <3> QED BY <1>0, <1>r, <2>1, <3>2 DEF LogOK
  <2>2. ASSUME NEW x, x = r, x.actor # "cli" PROVE [name |-> x.actor, role |-> "admin"] \in CredsOf(Rows(x.auth)')
    <3>1. LetIn(x.actor, x.auth)
      BY <1>0, <2>2
    <3>2. x.auth \in 0..n /\ [name |-> x.actor, role |-> "admin"] \in CredsOf(Rows(x.auth))
      BY <2>2, <3>1 DEF LetIn, n
    <3>3. Rows(x.auth)' = Rows(x.auth)
      BY <1>r, <3>2
    <3> QED BY <3>2, <3>3
  <2> QED BY <1>l, <2>1, <2>2
<1> QED BY <1>0, <1>l, <1>1, <1>2, <1>3, <1>4 DEF LogOK, n

\* Another transaction that holds its lock is as good as it was: the commit changed
\* neither its object nor what makes its change legal.
LEMMA CommitHeld ==
  ASSUME AdminInv, NEW c \in Calls, Writes(c), NEW o \in Calls, o # c, call[o].pc = "held", NEW w, w = call[o]
  PROVE  HeldOK(w.req, w.auth, w.seen, w.row, w.changes, w.answer)'
<1> DEFINE r == call[c].row
           s == w.row
<1>0. /\ RowOK(r) /\ Legal(View, r) /\ LockFits(call[c].req, call[c].seen, r)
      /\ DbOK /\ LogOK /\ Linked /\ Told(Log) = View /\ (Told(Log) = View)' /\ call[c].pc = "held"
  BY HeldFacts, CommitTold DEF AdminInv, Writes
<1>h. /\ HeldOK(w.req, w.auth, w.seen, s, w.changes, w.answer)
      /\ ReqOK(w.req) /\ w.auth \in 0..Len(log)
      /\ s \in AuditRow /\ RowOK(s) /\ LetIn(s.actor, s.auth)
      /\ \A x \in Log : Follows(x, s)
      /\ Legal(View, s) /\ FirstOfName(Log, s)
      /\ Deltas(s, w.changes)
      /\ LockFits(w.req, w.seen, s)
  BY HeldFacts
<1>a. /\ ~Same(r, s) /\ ~Same(s, r)
      /\ r.action \in CredActs /\ s.action \in CredActs => r.detail.name # s.detail.name
      /\ r.action = "tenant.create" /\ s.action = "tenant.create" => r.detail.ext # s.detail.ext
  BY <1>0, HeldApart, SameSym
<1>v. View.tenants = db.tenants /\ View.keys = db.keys
  BY ViewIs
<1>t. /\ db'.tenants = IF r.action \in TenantActs THEN Replace(db.tenants, r.tenant, r.detail) ELSE db.tenants
      /\ db'.keys = IF r.action \in KeyActs THEN Replace(db.keys, r.key, r.detail) ELSE db.keys
      /\ db'.quotas = {q \in db.quotas : ~Clears(r, q)} \cup Adds(r)
      /\ r.action \notin CredActs => db'.creds = db.creds
      /\ r.action = "admin_credential.create" =>
           \E x \in CredRow : x.name = r.detail.name /\ x.role = r.detail.role /\ ~x.revoked /\ db'.creds = db.creds \cup {x}
      /\ r.action = "admin_credential.revoke" =>
           \E x \in db.creds : x.name = r.detail.name /\ x.role = r.detail.role /\ ~x.revoked
                              /\ db'.creds = (db.creds \ {x}) \cup {[x EXCEPT !.revoked = TRUE]}
  BY CommitTables
<1>l. /\ Log' = Log \cup {r} /\ Len(log') = Len(log) + 1 /\ Len(log) \in Nat
      /\ \A n \in 0..Len(log) : Rows(n)' = Rows(n)
  BY CommitLog DEF Rows
<1> HIDE DEF r
<1>1. (w.auth \in 0..Len(log))' /\ LetIn(s.actor, s.auth)'
  <2>1. s.auth \in 0..Len(log) /\ (s.actor # "cli" => [name |-> s.actor, role |-> "admin"] \in CredsOf(Rows(s.auth)))
    BY <1>h DEF LetIn
  <2>2. s.auth \in 0..(Len(log) + 1) /\ w.auth \in 0..(Len(log) + 1)
    BY <1>h, <1>l, <2>1
  <2>3. CredsOf(Rows(s.auth))' = CredsOf(Rows(s.auth))
    BY <1>l, <2>1 DEF CredsOf
  <2> QED BY <1>h, <1>l, <2>1, <2>2, <2>3 DEF LetIn
<1>2. \A x \in Log' : Follows(x, s)
  BY <1>a, <1>h, <1>l DEF Follows, CredActs
<1>3. FirstOfName(Log', s)
  BY <1>a, <1>h, <1>l DEF FirstOfName, CredActs
<1>e. s.action = "tenant.create" => \A x \in Log' : x.action \in TenantActs => x.detail.ext # s.detail.ext
  <2> SUFFICES ASSUME s.action = "tenant.create" PROVE \A x \in Log' : x.action \in TenantActs => x.detail.ext # s.detail.ext
    OBVIOUS
  <2>1. \A t \in db.tenants : t.ext # s.detail.ext
    BY <1>h, <1>v DEF Legal
  <2>2. \A x \in Log : x.action \in TenantActs => x.detail.ext # s.detail.ext
    <3>1. \A x \in Log : x.action \in TenantActs => x.tenant > 0
      BY <1>0 DEF LogOK, RowOK
    <3> QED BY <1>0, <2>1, <3>1 DEF Linked
  <2>3. r.action \in TenantActs => r.detail.ext # s.detail.ext
    <3>1. CASE r.action \in TenantActs \ {"tenant.create"}
      <4>1. PICK t \in db.tenants : t.id = r.tenant
        BY <1>0, <1>v, <3>1 DEF Legal, RowOK
      <4>2. t.ext = r.detail.ext
        BY <1>0, <3>1, <4>1 DEF LockFits
      <4> QED BY <2>1, <4>2
    <3>2. CASE r.action = "tenant.create"
      BY <1>a, <3>2
    <3> QED BY <3>1, <3>2
  <2> QED BY <1>l, <2>2, <2>3
<1>4. Legal(View', s)
  <2>1. Legal(Told(Log), s) /\ (\A x \in Log : RowOK(x)) /\ (\A x \in Log' : RowOK(x))
    BY <1>0, <1>h, <1>l DEF LogOK
  <2>2. /\ \A x \in Log : Same(x, s) => x \in Log'
        /\ \A x \in Log' : Same(x, s) => x \in Log
    BY <1>a, <1>l
  <2>3. Legal(Told(Log'), s)
    BY <1>e, <1>h, <2>1, <2>2, LegalLocal
  <2>4. Told(Log') = View'
    BY <1>0
  <2> QED BY <2>3, <2>4
<1>ten. s.tenant > 0 => {t \in db'.tenants : t.id = s.tenant} = {t \in db.tenants : t.id = s.tenant}
  <2>1. s.tenant > 0 => r.tenant # s.tenant
    BY <1>a DEF Same
  <2>2. r.action \in TenantActs => r.detail.id = r.tenant
    BY <1>0 DEF RowOK
  <2> QED BY <1>t, <2>1, <2>2 DEF Replace
<1>key. s.key > 0 => {k \in db'.keys : k.id = s.key} = {k \in db.keys : k.id = s.key}
  <2>1. s.key > 0 => r.key # s.key
    BY <1>a DEF Same
  <2>2. r.action \in KeyActs => r.detail.id = r.key
    BY <1>0 DEF RowOK
  <2> QED BY <1>t, <2>1, <2>2 DEF Replace
<1>quo. {q \in db'.quotas : Clears(s, q)} = {q \in db.quotas : Clears(s, q)}
  <2>1. \A q : Clears(s, q) => q.tenant = s.tenant /\ s.tenant > 0
    BY <1>h DEF Clears, RowOK, QuotaActs
  <2>2. \A q : Clears(r, q) \/ q \in Adds(r) => q.tenant = r.tenant
    BY <1>0 DEF Clears, Adds, RowOK
  <2>3. s.tenant > 0 => r.tenant # s.tenant
    BY <1>a DEF Same
  <2> QED BY <1>t, <2>1, <2>2, <2>3
<1>cre. ASSUME s.action \in CredActs, NEW x \in db.creds, x.name = s.detail.name PROVE x \in db'.creds
  <2>1. CASE r.action = "admin_credential.revoke"
    <3>1. PICK y \in db.creds : y.name = r.detail.name /\ db'.creds = (db.creds \ {y}) \cup {[y EXCEPT !.revoked = TRUE]}
      BY <1>t, <2>1
    <3>2. y # x
      BY <1>a, <1>cre, <2>1, <3>1 DEF CredActs
    <3> QED BY <3>1, <3>2
  <2>2. CASE r.action = "admin_credential.create"
    BY <1>t, <2>2
  <2>3. CASE r.action \notin CredActs
    BY <1>t, <2>3
  <2> QED BY <2>1, <2>2, <2>3 DEF CredActs
<1>pos. (s.action \in TenantActs => s.tenant > 0) /\ (s.action \in KeyActs => s.key > 0)
  BY <1>h DEF RowOK
<1>5. Deltas(s, w.changes)'
  <2>1. s.action \in TenantActs => {t \in db'.tenants : t.id = s.tenant} = {t \in db.tenants : t.id = s.tenant}
    BY <1>ten, <1>pos
  <2>2. s.action \in KeyActs => {k \in db'.keys : k.id = s.key} = {k \in db.keys : k.id = s.key}
    BY <1>key, <1>pos
  <2> DEFINE ch == w.changes
             T == {t \in db.tenants : t.id = s.tenant}
             K == {k \in db.keys : k.id = s.key}
             Q == {q \in db.quotas : Clears(s, q)}
  <2>3. /\ ch.tenants = IF s.action \in TenantActs THEN [del |-> {t \in db'.tenants : t.id = s.tenant}, ins |-> {s.detail}]
                        ELSE [del |-> {}, ins |-> {}]
        /\ ch.keys = IF s.action \in KeyActs THEN [del |-> {k \in db'.keys : k.id = s.key}, ins |-> {s.detail}]
                     ELSE [del |-> {}, ins |-> {}]
    BY <1>h, <2>1, <2>2 DEF Deltas
  <2>4. ch.quotas = [del |-> {q \in db'.quotas : Clears(s, q)} \ Adds(s), ins |-> Adds(s) \ {q \in db'.quotas : Clears(s, q)}]
    BY <1>h, <1>quo DEF Deltas
  <2>5. /\ s.action \notin CredActs => ch.creds = [del |-> {}, ins |-> {}]
        /\ s.action = "admin_credential.create" =>
             \E x \in ch.creds.ins : x \in CredRow /\ x.name = s.detail.name /\ x.role = s.detail.role /\ ~x.revoked /\ ch.creds = [del |-> {}, ins |-> {x}]
    BY <1>h DEF Deltas
  <2>6. s.action = "admin_credential.revoke" =>
          \E x \in db'.creds : x.name = s.detail.name /\ x.role = s.detail.role /\ ~x.revoked
                              /\ ch.creds = [del |-> {x}, ins |-> {[x EXCEPT !.revoked = TRUE]}]
    <3> SUFFICES ASSUME s.action = "admin_credential.revoke"
                 PROVE  \E x \in db'.creds : x.name = s.detail.name /\ x.role = s.detail.role /\ ~x.revoked
                                            /\ ch.creds = [del |-> {x}, ins |-> {[x EXCEPT !.revoked = TRUE]}]
      OBVIOUS
    <3>1. PICK x \in db.creds : x.name = s.detail.name /\ x.role = s.detail.role /\ ~x.revoked
                               /\ ch.creds = [del |-> {x}, ins |-> {[x EXCEPT !.revoked = TRUE]}]
      BY <1>h DEF Deltas
    <3>2. x \in db'.creds
      BY <1>cre, <3>1 DEF CredActs
    <3> QED BY <3>1, <3>2
  <2> QED BY <2>3, <2>4, <2>5, <2>6 DEF Deltas, TenantActs, KeyActs, CredActs, Clears, Adds, CredRow
<1>6. LockFits(w.req, w.seen, s)'
  <2>1. s.action \in {"key.update", "key.revoke"} => \E k \in db'.keys : k.id = s.key /\ k.tenant = s.tenant
    <3> SUFFICES ASSUME s.action \in {"key.update", "key.revoke"} PROVE \E k \in db'.keys : k.id = s.key /\ k.tenant = s.tenant
      OBVIOUS
    <3>1. PICK k \in db.keys : k.id = s.key /\ k.tenant = s.tenant
      BY <1>h DEF LockFits
    <3>2. \E u \in db'.keys : u.id = k.id /\ u.tenant = k.tenant
      BY Persist
    <3> QED BY <3>1, <3>2
  <2>2. s.action \in TenantActs \ {"tenant.create"} =>
           \A t \in db'.tenants : t.id = s.tenant => t.ext = s.detail.ext /\ (s.action # "tenant.update" => t.doc = s.detail.doc)
    BY <1>h, <1>ten, <1>pos DEF LockFits
  <2>3. /\ s.action = "tenant.create" => LockOf(w.req, w.seen) = <<"external_id", s.detail.ext>> /\ s.tenant = s.at
        /\ s.action # "tenant.create" /\ s.tenant > 0 => LockOf(w.req, w.seen) = <<"tenant", s.tenant>>
        /\ s.action \in CredActs => LockOf(w.req, w.seen) = <<"name", s.detail.name>>
        /\ s.action = "key.create" => s.key = s.at
    BY <1>h DEF LockFits
  <2> QED BY <2>1, <2>2, <2>3 DEF LockFits, TenantActs, CredActs, LockOf, IsCommand
<1>7. w.answer.what = "ok" /\ (w.req.op = "CreateTenant" => s.action = "tenant.create" /\ s.detail.ext = w.req.ext /\ w.answer.id = s.tenant)
  BY <1>h DEF HeldOK
<1> QED
  <2>1. ReqOK(w.req)' /\ (s \in AuditRow)' /\ RowOK(s)'
    BY <1>h
  <2>2. (\A x \in Log : Follows(x, s))' /\ FirstOfName(Log, s)' /\ Legal(View, s)'
    BY <1>2, <1>3, <1>4
  <2> QED BY <1>1, <1>5, <1>6, <1>7, <2>1, <2>2 DEF HeldOK

\* A commit leaves the other calls true: what they read, hold or answered still stands.
LEMMA CommitOther ==
  ASSUME AdminInv, NEW c \in Calls, Writes(c), NEW o \in Calls, o # c, NEW w, w = call[o]
  PROVE  CallOK(w)'
<1> DEFINE r == call[c].row
<1>0. CallOK(w) /\ LogOK /\ Linked /\ call[c].pc = "held" /\ FirstOfName(Log, r)
  BY HeldFacts DEF AdminInv, Writes
<1>l. /\ Log' = Log \cup {r} /\ Len(log') = Len(log) + 1 /\ Len(log) \in Nat
      /\ \A n \in 0..Len(log) : Rows(n)' = Rows(n)
  BY CommitLog DEF Rows
<1>p. /\ \A t \in db.tenants : \E u \in db'.tenants : u.id = t.id /\ u.ext = t.ext
      /\ \A k \in db.keys : \E u \in db'.keys : u.id = k.id /\ u.tenant = k.tenant
      /\ \A x \in db.creds : \E u \in db'.creds : u.name = x.name /\ u.role = x.role
  BY Persist
<1> HIDE DEF r
<1>1. ASSUME NEW a, NEW n, LetIn(a, n) PROVE LetIn(a, n)'
  <2>1. n \in 0..Len(log) /\ n \in 0..(Len(log) + 1)
    BY <1>1, <1>l DEF LetIn
  <2>2. CredsOf(Rows(n))' = CredsOf(Rows(n))
    BY <1>l, <2>1 DEF CredsOf
  <2> QED BY <1>1, <1>l, <2>1, <2>2 DEF LetIn
<1>2. w.pc = "begun" => BegunOK(w.req, w.actor, w.auth)'
  BY <1>0, <1>1 DEF CallOK, BegunOK
<1>3. w.pc = "read" => ReadOK(w.req, w.actor, w.auth, w.seen, w.at)'
  <2> SUFFICES ASSUME w.pc = "read" PROVE ReadOK(w.req, w.actor, w.auth, w.seen, w.at)'
    OBVIOUS
  <2>0. ReadOK(w.req, w.actor, w.auth, w.seen, w.at)
    BY <1>0 DEF CallOK
  <2>1. ReqOK(w.req)' /\ LetIn(w.actor, w.auth)'
    BY <2>0, <1>1 DEF ReadOK
  <2>2. w.req.op \in RefOps => \E t \in db'.tenants : t.id = w.seen.id
    <3> SUFFICES ASSUME w.req.op \in RefOps PROVE \E t \in db'.tenants : t.id = w.seen.id
      OBVIOUS
    <3>1. PICK t \in db.tenants : t.id = w.seen.id
      BY <2>0 DEF ReadOK
    <3> QED BY <1>p, <3>1
  <2>3. w.req.op \in KeyOps => \E k \in db'.keys : k.id = w.seen.id /\ k.tenant = w.seen.tenant
    <3> SUFFICES ASSUME w.req.op \in KeyOps PROVE \E k \in db'.keys : k.id = w.seen.id /\ k.tenant = w.seen.tenant
      OBVIOUS
    <3>1. PICK k \in db.keys : k.id = w.seen.id /\ k.tenant = w.seen.tenant
      BY <2>0 DEF ReadOK
    <3>2. PICK u \in db'.keys : u.id = k.id /\ u.tenant = k.tenant
      BY <1>p
    <3> QED BY <3>1, <3>2
  <2>4. w.req.op = "RevokeCredential" =>
          /\ \E x \in db'.creds : x.name = w.req.name /\ x.role = w.seen.role
          /\ \A x \in Log' : x.action = "admin_credential.create" /\ x.detail.name = w.req.name => x.at < w.at
    <3> SUFFICES ASSUME w.req.op = "RevokeCredential"
                 PROVE  /\ \E x \in db'.creds : x.name = w.req.name /\ x.role = w.seen.role
                        /\ \A x \in Log' : x.action = "admin_credential.create" /\ x.detail.name = w.req.name => x.at < w.at
      OBVIOUS
    <3>1. PICK x \in db.creds : x.name = w.req.name /\ x.role = w.seen.role
      BY <2>0 DEF ReadOK
    <3>2. PICK u \in db'.creds : u.name = x.name /\ u.role = x.role
      BY <1>p
    <3>3. PICK y \in Log : y.action = "admin_credential.create" /\ y.detail.name = x.name
      BY <1>0 DEF Linked
    <3>4. r.action = "admin_credential.create" => r.detail.name # w.req.name
      BY <1>0, <3>1, <3>3 DEF FirstOfName, CredActs
    <3>5. \A z \in Log : z.action = "admin_credential.create" /\ z.detail.name = w.req.name => z.at < w.at
      BY <2>0 DEF ReadOK
    <3> QED BY <1>l, <3>1, <3>2, <3>4, <3>5
  <2> QED BY <2>1, <2>2, <2>3, <2>4 DEF ReadOK, RefOps, KeyOps
<1>4. w.pc = "held" => HeldOK(w.req, w.auth, w.seen, w.row, w.changes, w.answer)'
  BY CommitHeld
<1>5. w.pc = "done" => DoneOK(w.req, w.auth, w.answer)'
  <2> SUFFICES ASSUME w.pc = "done" PROVE DoneOK(w.req, w.auth, w.answer)'
    OBVIOUS
  <2>0. DoneOK(w.req, w.auth, w.answer)
    BY <1>0 DEF CallOK
  <2>1. ReqOK(w.req)' /\ w.auth \in 0..Len(log) /\ w.auth \in 0..Len(log') /\ Rows(w.auth)' = Rows(w.auth)
    BY <1>l, <2>0 DEF DoneOK
  <2>2. w.req.op = "CreateTenant" /\ w.answer.what = "ok" => \E t \in db'.tenants : t.ext = w.req.ext /\ t.id = w.answer.id
    <3> SUFFICES ASSUME w.req.op = "CreateTenant", w.answer.what = "ok" PROVE \E t \in db'.tenants : t.ext = w.req.ext /\ t.id = w.answer.id
      OBVIOUS
    <3>1. PICK t \in db.tenants : t.ext = w.req.ext /\ t.id = w.answer.id
      BY <2>0 DEF DoneOK
    <3>2. PICK u \in db'.tenants : u.id = t.id /\ u.ext = t.ext
      BY <1>p
    <3> QED BY <3>1, <3>2
  <2>3. w.req.op = "CreateTenant" /\ w.answer.what = "conflict" =>
          \E x \in Log' : x.action \in {"tenant.create", "tenant.update"} /\ x.detail.ext = w.req.ext /\ x.detail.doc # w.req.doc
    BY <1>l, <2>0 DEF DoneOK
  <2>4. w.answer.what = "notfound" =>
          /\ w.req.op \in RefOps \cup KeyOps \cup {"RevokeCredential"}
          /\ w.req.op \in RefOps => \A x \in Rows(w.auth) : x.action \in TenantActs => x.detail.ext # w.req.ref
          /\ w.req.op \in KeyOps => \A x \in Rows(w.auth) : x.action \in KeyActs => x.key # w.req.key
          /\ w.req.op = "RevokeCredential" => \A x \in Rows(w.auth) : x.action \in CredActs => x.detail.name # w.req.name
    BY <2>0 DEF DoneOK
  <2> QED BY <2>1, <2>2, <2>3, <2>4 DEF DoneOK, RefOps, KeyOps, TenantActs, KeyActs, CredActs
<1>6. w.pc \in {"idle", "begun", "read", "held", "done"}
  BY <1>0 DEF CallOK
<1> QED BY <1>2, <1>3, <1>4, <1>5, <1>6 DEF CallOK

\* The answer to a change that was committed.
LEMMA CommitAnswer ==
  ASSUME AdminInv, NEW c \in Calls, Writes(c), NEW w, w = call[c]
  PROVE  DoneOK(w.req, w.auth, w.answer)'
<1> DEFINE r == w.row
<1>0. HeldOK(w.req, w.auth, w.seen, r, w.changes, w.answer) /\ RowOK(r)
  BY HeldFacts DEF Writes
<1>1. ReqOK(w.req)' /\ w.auth \in 0..Len(log')
  <2>1. w.auth \in 0..Len(log) /\ ReqOK(w.req)
    BY <1>0 DEF HeldOK
  <2> QED BY <2>1, CommitLog
<1>2. w.answer.what = "ok"
  BY <1>0 DEF HeldOK
<1>3. w.req.op = "CreateTenant" => \E t \in db'.tenants : t.ext = w.req.ext /\ t.id = w.answer.id
  <2> SUFFICES ASSUME w.req.op = "CreateTenant" PROVE \E t \in db'.tenants : t.ext = w.req.ext /\ t.id = w.answer.id
    OBVIOUS
  <2>1. r.action = "tenant.create" /\ r.detail.ext = w.req.ext /\ w.answer.id = r.tenant
    BY <1>0 DEF HeldOK
  <2>2. r.action \in TenantActs /\ r.detail.id = r.tenant
    BY <1>0, <2>1 DEF RowOK, TenantActs
  <2>3. db'.tenants = Replace(db.tenants, r.tenant, r.detail)
    BY <2>2, CommitTables
  <2> QED BY <2>1, <2>2, <2>3 DEF Replace
<1> QED BY <1>1, <1>2, <1>3 DEF DoneOK

\* A commit keeps the invariant: the log with the new row tells the new tables.
LEMMA CommitInv ==
  ASSUME AdminInv, NEW c \in Calls, Commit(c)
  PROVE  AdminInv'
<1> DEFINE r == call[c].row
<1>0. Writes(c) /\ call[c].pc = "held"
  BY DEF Commit, Writes
<1>1. PICK v : /\ call' = [call EXCEPT ![c] = v] /\ v \in {Finished(c, call[c].answer), NoCall}
  BY DEF Commit, Failed
<1>2. /\ call'[c] = v /\ (\A o \in Calls \ {c} : call'[o] = call[o])
      /\ call' = [o \in Calls |-> call'[o]]
  BY <1>1 DEF AdminInv
<1>3. DbOK' /\ LogOK' /\ Linked' /\ (Told(Log) = View)'
  BY <1>0, CommitDb, CommitLogOK, CommitLinked, CommitTold
<1>4. v.pc \in {"idle", "done"}
  BY <1>1 DEF Finished, NoCall
<1>5. CallOK(v)'
  <2>1. CASE v = NoCall
    BY <2>1 DEF CallOK, NoCall
  <2>2. CASE v = Finished(c, call[c].answer)
    <3>1. PICK w : w = call[c]
      OBVIOUS
    <3>2. v.pc = "done" /\ v.req = w.req /\ v.auth = w.auth /\ v.answer = w.answer
      BY <2>2, <3>1 DEF Finished
    <3>3. DoneOK(w.req, w.auth, w.answer)'
      BY <1>0, <3>1, CommitAnswer
    <3> QED BY <3>2, <3>3 DEF CallOK
  <2> QED BY <1>1, <2>1, <2>2
<1>6. \A o \in Calls : CallOK(call[o])'
  <2> TAKE o \in Calls
  <2>1. CASE o = c
    <3>1. call[o]' = v
      BY <1>2, <2>1
    <3> QED BY <1>5, <3>1 DEF CallOK
  <2>2. CASE o # c
    <3>1. PICK w : w = call[o]
      OBVIOUS
    <3>2. CallOK(w)' /\ call[o]' = w
      BY <1>0, <1>2, <2>2, <3>1, CommitOther
    <3> QED BY <3>2 DEF CallOK
  <2> QED BY <2>1, <2>2
<1>7. StampsOK'
  <2>1. \A o \in Calls \ {c} : (Stamped(call[o])' <=> Stamped(call[o])) /\ Stamp(call[o])' = Stamp(call[o])
    BY <1>2 DEF Stamped, Stamp
  <2>2. ~Stamped(call[c])'
    BY <1>2, <1>4 DEF Stamped
  <2>3. StampsOK /\ Stamped(call[c]) /\ Stamp(call[c]) = r.at
    BY <1>0, HeldFacts DEF AdminInv
  <2>4. Log' = Log \cup {r} /\ clock' = clock
    BY <1>0, CommitLog DEF Writes
  <2> HIDE DEF r
  <2>5. \A o \in Calls : Stamped(call[o])' => Stamp(call[o])' \in 1..clock' /\ \A x \in Log' : x.at # Stamp(call[o])'
    BY <2>1, <2>2, <2>3, <2>4 DEF StampsOK
  <2>6. \A a, b \in Calls : a # b /\ Stamped(call[a])' /\ Stamped(call[b])' => Stamp(call[a])' # Stamp(call[b])'
    BY <2>1, <2>2, <2>3 DEF StampsOK
  <2>7. clock' \in Nat
    BY <2>3, <2>4 DEF StampsOK
  <2> QED BY <2>5, <2>6, <2>7 DEF StampsOK
<1>8. LocksApart'
  BY <1>2, <1>4 DEF AdminInv, LocksApart
<1> QED BY <1>2, <1>3, <1>6, <1>7, <1>8 DEF AdminInv

\* A step that changes nothing keeps the invariant.
LEMMA StutterInv ==
  ASSUME AdminInv, UNCHANGED vars
  PROVE  AdminInv'
<1>1. db' = db /\ log' = log /\ call' = call /\ clock' = clock
  BY DEF vars
<1>2. CASE Calls = {}
  <2>1. Log' = Log /\ View' = View /\ (\A n : Rows(n)' = Rows(n))
    BY <1>1 DEF Log, Rows, View
  <2>2. DbOK' /\ Linked' /\ LogOK'
    BY <1>1, <2>1 DEF AdminInv, DbOK, Linked, LogOK
  <2>3. StampsOK' /\ LocksApart'
    BY <1>1, <1>2 DEF AdminInv, StampsOK, LocksApart
  <2> QED BY <1>1, <1>2, <2>1, <2>2, <2>3 DEF AdminInv
<1>3. CASE Calls # {}
  <2>1. PICK c \in Calls : TRUE
    BY <1>3
  <2>2. PICK v : v = call[c]
    OBVIOUS
  <2>3. call' = [call EXCEPT ![c] = v]
    BY <1>1, <2>2 DEF AdminInv
  <2>4. CallOK(v) /\ clock' \in Nat /\ clock <= clock'
    BY <1>1, <2>2 DEF AdminInv, StampsOK
  <2>5. Stamped(v) => /\ Stamp(v) \in 1..clock'
                      /\ \A r \in Log : r.at # Stamp(v)
                      /\ \A o \in Calls \ {c} : Stamped(call[o]) => Stamp(call[o]) # Stamp(v)
    BY <1>1, <2>2 DEF AdminInv, StampsOK
  <2>6. v.pc = "held" => \A o \in Calls \ {c} : call[o].pc = "held" => LockOf(call[o].req, call[o].seen) # LockOf(v.req, v.seen)
    BY <2>2 DEF AdminInv, LocksApart
  <2> QED BY <1>1, <2>3, <2>4, <2>5, <2>6, QuietStep
<1> QED BY <1>2, <1>3

\* The admin service keeps its invariant, for any number of calls in flight and any
\* failures between their steps.
THEOREM AdminInvariant == Spec => []AdminInv
<1>1. Init => AdminInv
  BY InitInv
<1>2. AdminInv /\ [Next]_vars => AdminInv'
  <2> SUFFICES ASSUME AdminInv, [Next]_vars PROVE AdminInv'
    OBVIOUS
  <2>1. CASE UNCHANGED vars
    BY <2>1, StutterInv
  <2>2. CASE Next
    <3>1. PICK c \in Calls : Step(c)
      BY <2>2 DEF Next
    <3> QED BY <3>1, BeginInv, ResolveInv, WorkInv, CommitInv, FailInv DEF Step
  <2> QED BY <2>1, <2>2
<1> QED BY <1>1, <1>2, PTL DEF Spec

\* Replaying audit_log in the order of its times always gives the tables as committed, for
\* any number of concurrent transactions.
THEOREM AuditReplaysAlways == Spec => []AuditReplays
<1>1. AdminInv => AuditReplays
  BY InvReplays
<1> QED BY <1>1, AdminInvariant, PTL

\* Read in the order of its times, no row of audit_log reports a change that was not one or
\* was not allowed after those before it.
THEOREM AuditLegalAlways == Spec => []AuditLegal
<1>1. AdminInv => AuditLegal
  BY InvLegal
<1> QED BY <1>1, AdminInvariant, PTL

\* Every answer of the admin service is explained by the log as it was while the call ran.
THEOREM AnswersExplainedAlways == Spec => []AnswersExplained
<1>1. AdminInv => AnswersExplained
  BY InvAnswers
<1> QED BY <1>1, AdminInvariant, PTL

\* Every change was made by an administrator whose credential was live when the call was
\* let in.
THEOREM AccessExplainedAlways == Spec => []AccessExplained
<1>1. AdminInv => AccessExplained
  BY InvAccess
<1> QED BY <1>1, AdminInvariant, PTL
=============================================================================
