------------------------------ MODULE AdminTx ------------------------------
(***************************************************************************)
(* The mutations of the admin API and of the token commands: tenants, API  *)
(* keys, quotas and machine credentials.  Each runs in a transaction of    *)
(* Postgres at READ COMMITTED that writes the change and its audit row.    *)
(* All that belongs to a tenant is changed under a lock of the tenant's    *)
(* row; a new tenant or credential is serialised by its unique index.      *)
(*                                                                         *)
(* A call goes through Begin (the HTTP guard), Resolve (the reads before   *)
(* any lock), Work (lock, read again, decide, write) and Commit.  Nobody   *)
(* else can change what a lock protects, so the statements under it are    *)
(* one step.                                                               *)
(***************************************************************************)
EXTENDS AdminStore

CONSTANTS
  Calls,      \* goroutines and commands, each making one call after another
  Exts,       \* external ids: numbers that are not the id of a row
  Docs,       \* names and metadata of tenants
  Allows,     \* model allowlists
  Kinds,      \* window kinds
  Limits,     \* caps
  Names,      \* names of machine credentials
  MaxCalls    \* bound: calls started

ASSUME AdminAssumption ==
  /\ IsFiniteSet(Calls) /\ MaxCalls \in Nat
  /\ Exts \subseteq Nat

VARIABLES
  db,        \* the tables, as committed
  log,       \* audit_log, in the order of commits
  call,      \* the calls, by goroutine
  clock,     \* what s.now() and uuid.NewV7 last gave: both only go up
  started    \* calls started

vars == <<db, log, call, clock, started>>

Roles == {"admin", "readonly"}

(***************************************************************************)
(* What a call asks.                                                       *)
(***************************************************************************)

TenantRequests ==
  [op : {"CreateTenant"}, ext : Exts, doc : Docs]
    \cup [op : {"UpdateTenant"}, ref : Exts, doc : Docs]
    \cup [op : {"DisableTenant", "EnableTenant"}, ref : Exts]

KeyRequests ==
  LET ids == {k.id : k \in db.keys}
  IN  [op : {"CreateAPIKey"}, ref : Exts, allow : Allows]
        \cup [op : {"UpdateAPIKey"}, key : ids, allow : Allows]
        \cup [op : {"RevokeAPIKey"}, key : ids]

QuotaRequests ==
  [op : {"ReplaceQuotas"}, ref : Exts, set : UNION {[ks -> Limits] : ks \in SUBSET Kinds}]
    \cup [op : {"PutQuota"}, ref : Exts, kind : Kinds, limit : Limits]
    \cup [op : {"DeleteQuota"}, ref : Exts, kind : Kinds]

Requests == TenantRequests \cup KeyRequests \cup QuotaRequests

\* go-route-admin create-token and revoke-token.
CreateTokens == [op : {"CreateCredential"}, name : Names, role : Roles]
RevokeTokens == [op : {"RevokeCredential"}, name : Names]

(***************************************************************************)
(* What a mutation decides: an answer and nothing else, or a change with   *)
(* its audit row.                                                          *)
(***************************************************************************)

Answer(what, id) == [answer |-> [what |-> what, id |-> id], after |-> db, action |-> "none"]

\* An UPDATE that matched no row is reported as a missing row.
found(res, action, tenant, key, detail, id) ==
  IF res.rows = {} THEN Answer("notfound", 0)
  ELSE [answer |-> [what |-> "ok", id |-> id], after |-> res.db,
        action |-> action, tenant |-> tenant, key |-> key, detail |-> detail]

\* The new row, or the one that has the external id already.
TenantRepoCreate(t) ==
  LET res == CreateTenantRow(db, t)
  IN  IF res.rows # {} THEN [db |-> res.db, rows |-> res.rows, created |-> TRUE]
      ELSE [db |-> db, rows |-> GetTenantByExternalID(db, t.ext), created |-> FALSE]

CreateTenant(req, id) ==
  LET res == TenantRepoCreate([id |-> id, ext |-> req.ext, doc |-> req.doc, disabled |-> FALSE])
      t   == The(res.rows)
  IN  IF res.created THEN found(res, "tenant.create", id, 0, t, id)
      ELSE IF t.doc # req.doc THEN Answer("conflict", 0)
      ELSE Answer("ok", t.id)

UpdateTenant(t, req) ==
  LET res == UpdateTenantRow(db, t.id, req.doc)
  IN  IF t.doc = req.doc THEN Answer("ok", t.id)
      ELSE found(res, "tenant.update", t.id, 0, The(res.rows), t.id)

DisableTenant(t) ==
  LET res == DisableTenantRow(db, t.id)
  IN  IF t.disabled THEN Answer("ok", t.id)
      ELSE found(res, "tenant.disable", t.id, 0, The(res.rows), t.id)

EnableTenant(t) ==
  LET res == EnableTenantRow(db, t.id)
  IN  IF ~t.disabled THEN Answer("ok", t.id)
      ELSE found(res, "tenant.enable", t.id, 0, The(res.rows), t.id)

CreateAPIKey(t, req, id) ==
  LET res == CreateAPIKeyRow(db, [id |-> id, tenant |-> t.id, allow |-> req.allow, revoked |-> FALSE])
  IN  IF t.disabled THEN Answer("conflict", 0)
      ELSE found(res, "key.create", t.id, id, The(res.rows), id)

UpdateAPIKey(k, req) ==
  LET res == UpdateAPIKeyAllowlist(db, k.id, req.allow)
  IN  IF k.revoked THEN Answer("conflict", 0)
      ELSE IF k.allow = req.allow THEN Answer("ok", k.id)
      ELSE found(res, "key.update", k.tenant, k.id, The(res.rows), k.id)

RevokeAPIKey(k) ==
  LET res == RevokeAPIKeyRow(db, k.id)
  IN  IF k.revoked THEN Answer("ok", k.id)
      ELSE found(res, "key.revoke", k.tenant, k.id, The(res.rows), k.id)

quotaOf(t, kind, limit) == [tenant |-> t.id, kind |-> kind, limit |-> limit]

sameQuotaSet(current, desired) == current = desired

\* The upserts meet no row: the tenant's are gone, and the set has one of a kind.
ReplaceQuotas(t, req) ==
  LET set   == {quotaOf(t, k, req.set[k]) : k \in DOMAIN req.set}
      after == [DeleteQuotasForTenant(db, t.id).db EXCEPT !.quotas = @ \cup set]
  IN  IF sameQuotaSet(ListQuotas(db, t.id), set) THEN Answer("ok", t.id)
      ELSE found([db |-> after, rows |-> {t}], "quota.replace", t.id, 0, set, t.id)

PutQuota(t, req) ==
  LET q == quotaOf(t, req.kind, req.limit)
  IN  IF GetQuota(db, t.id, req.kind) = {q} THEN Answer("ok", t.id)
      ELSE found(UpsertQuota(db, q), "quota.upsert", t.id, 0, {q}, t.id)

DeleteQuota(t, req) ==
  LET res == DeleteQuotaRow(db, t.id, req.kind)
  IN  IF res.rows = {} THEN Answer("ok", t.id)
      ELSE found(res, "quota.delete", t.id, 0, req.kind, t.id)

CreateCredential(req, id) ==
  LET res == CreateAdminCredentialRow(db, [id |-> id, name |-> req.name, role |-> req.role, revoked |-> FALSE])
  IN  IF res.rows = {} THEN Answer("conflict", 0)
      ELSE found(res, "admin_credential.create", 0, 0, [name |-> req.name, role |-> req.role], id)

\* The UPDATE matches nothing when the credential was revoked since it was read.
RevokeCredential(req, seen) ==
  LET res == RevokeAdminCredentialRow(db, req.name)
  IN  IF res.rows = {} THEN Answer("ok", seen.id)
      ELSE found(res, "admin_credential.revoke", 0, 0, [name |-> req.name, role |-> seen.role], seen.id)

(***************************************************************************)
(* The guard of the HTTP server.                                           *)
(***************************************************************************)

authenticateMachine(name) == {c \in GetAdminCredentialByTokenHash(db, name) : ~c.revoked}

API == INSTANCE AdminAPI

Guard(name, req) ==
  \E c \in authenticateMachine(name) : API!RoleAllows(c.role, API!permissionFor(API!HandlerWithOptions[req.op].method))

(***************************************************************************)
(* The calls.                                                              *)
(***************************************************************************)

NoCall == [pc |-> "idle"]
Finished(c, answer) == [pc |-> "done", req |-> call[c].req, auth |-> call[c].auth, answer |-> answer]

\* A caller that gets an error knows nothing, and may call again.
Failed(c) == NoCall

Start(c, req, actor) ==
  /\ call[c].pc \in {"idle", "done"}
  /\ started < MaxCalls
  /\ started' = started + 1
  /\ call' = [call EXCEPT ![c] = [pc |-> "begun", req |-> req, actor |-> actor, auth |-> Len(log)]]
  /\ UNCHANGED <<db, log, clock>>

Begin(c) == \E req \in Requests, name \in Names : Guard(name, req) /\ Start(c, req, name)

BeginCommand(c) == \E req \in CreateTokens \cup RevokeTokens : Start(c, req, "cli")

\* A tenant is tried by our id first, then by its external id.
resolveTenant(ref) ==
  IF GetTenant(db, ref) # {} THEN GetTenant(db, ref) ELSE GetTenantByExternalID(db, ref)

\* The reads a call makes before it holds a lock.
Seen(req) ==
  CASE "ref" \in DOMAIN req -> resolveTenant(req.ref)
    [] "key" \in DOMAIN req -> GetAPIKey(db, req.key)
    [] req.op = "RevokeCredential" -> GetAdminCredentialByRef(db, req.name)
    [] OTHER -> {NoCall}

IsCommand(req) == req.op \in {"CreateCredential", "RevokeCredential"}

Resolve(c) ==
  LET req  == call[c].req
      seen == Seen(req)
  IN  /\ call[c].pc = "begun"
      /\ IF seen = {} THEN call' = [call EXCEPT ![c] = Finished(c, [what |-> "notfound", id |-> 0])] /\ UNCHANGED clock
         ELSE IF req.op = "RevokeCredential" /\ The(seen).revoked
         THEN call' = [call EXCEPT ![c] = Finished(c, [what |-> "ok", id |-> The(seen).id])] /\ UNCHANGED clock
         ELSE /\ clock' = IF IsCommand(req) THEN clock + 1 ELSE clock
              /\ call' = [call EXCEPT ![c] =
                   [pc |-> "read", req |-> req, actor |-> @.actor, auth |-> @.auth, seen |-> The(seen), at |-> clock']]
      /\ UNCHANGED <<db, log, started>>

\* What the transaction waits for: the tenant's row, or the entry of a unique index.
LockOf(req, seen) ==
  CASE req.op = "CreateTenant" -> <<"external_id", req.ext>>
    [] IsCommand(req) -> <<"name", req.name>>
    [] "key" \in DOMAIN req -> <<"tenant", seen.tenant>>
    [] OTHER -> <<"tenant", seen.id>>

\* Mutation: the tenant is not locked.
LockNothing(c) == TRUE

Lock(c) ==
  \A o \in Calls \ {c} :
    call[o].pc = "held" => LockOf(call[o].req, call[o].seen) # LockOf(call[c].req, call[c].seen)

\* Mutation: the key is acted on as it was read before the lock.
lockKeyOnce(c) == call[c].seen

\* Under the lock the row is read again.
lockKey(c) == The(GetAPIKey(db, call[c].seen.id))

lockTenant(c) == The(LockTenant(db, call[c].seen.id))

Decide(c, id) ==
  LET req == call[c].req
  IN  CASE req.op = "CreateTenant"     -> CreateTenant(req, id)
        [] req.op = "UpdateTenant"     -> UpdateTenant(lockTenant(c), req)
        [] req.op = "DisableTenant"    -> DisableTenant(lockTenant(c))
        [] req.op = "EnableTenant"     -> EnableTenant(lockTenant(c))
        [] req.op = "CreateAPIKey"     -> CreateAPIKey(lockTenant(c), req, id)
        [] req.op = "UpdateAPIKey"     -> UpdateAPIKey(lockKey(c), req)
        [] req.op = "RevokeAPIKey"     -> RevokeAPIKey(lockKey(c))
        [] req.op = "ReplaceQuotas"    -> ReplaceQuotas(lockTenant(c), req)
        [] req.op = "PutQuota"         -> PutQuota(lockTenant(c), req)
        [] req.op = "DeleteQuota"      -> DeleteQuota(lockTenant(c), req)
        [] req.op = "CreateCredential" -> CreateCredential(req, id)
        [] req.op = "RevokeCredential" -> RevokeCredential(req, call[c].seen)

\* The rows the statements of a transaction removed and added.
Changes(before, after) ==
  [table \in DOMAIN before |-> [del |-> before[table] \ after[table], ins |-> after[table] \ before[table]]]

AuditEntry(c, d, at) ==
  [at |-> at, auth |-> call[c].auth, actor |-> call[c].actor,
   action |-> d.action, tenant |-> d.tenant, key |-> d.key, detail |-> d.detail]

\* The API stamps the row under the lock, the token commands before they had it.
audit(c, d) == AuditEntry(c, d, clock')
auditEntry(c, d) == AuditEntry(c, d, call[c].at)

Work(c) ==
  /\ call[c].pc = "read"
  /\ Lock(c)
  /\ LET d == Decide(c, clock + 1)
     IN  IF d.action = "none"
         THEN /\ call' = [call EXCEPT ![c] = Finished(c, d.answer)]
              /\ UNCHANGED clock
         ELSE /\ clock' = clock + 1
              /\ call' = [call EXCEPT ![c] =
                   [pc |-> "held", req |-> @.req, auth |-> @.auth, seen |-> @.seen, answer |-> d.answer,
                    row |-> IF IsCommand(@.req) THEN auditEntry(c, d) ELSE audit(c, d), changes |-> Changes(db, d.after)]]
  /\ UNCHANGED <<db, log, started>>

\* The transaction commits; the caller may not learn that it did.
Commit(c) ==
  /\ call[c].pc = "held"
  /\ db' = [table \in DOMAIN db |-> (db[table] \ call[c].changes[table].del) \cup call[c].changes[table].ins]
  /\ log' = CreateAuditEntry(log, call[c].row)
  /\ \/ call' = [call EXCEPT ![c] = Finished(c, @.answer)]
     \/ call' = [call EXCEPT ![c] = Failed(c)]
  /\ UNCHANGED <<clock, started>>

\* The database fails, or the request times out, before the commit: a rollback.
Fail(c) ==
  /\ call[c].pc \in {"begun", "read", "held"}
  /\ call' = [call EXCEPT ![c] = Failed(c)]
  /\ UNCHANGED <<db, log, clock, started>>

\* Mutation: a disabled tenant's keys are admitted.
AuthenticateKeyOnly(id) == {r \in GetAPIKeyByHash(db, id) : ~r.key.revoked}

\* Who a request that presents the key acts as: nobody, or a key of a tenant.
Authenticate(id) == {r \in GetAPIKeyByHash(db, id) : ~r.key.revoked /\ ~r.tenant.disabled}

-----------------------------------------------------------------------------

Empty == [tenants |-> {}, keys |-> {}, quotas |-> {}, creds |-> {}]

Init ==
  /\ db = Empty
  /\ log = <<>>
  /\ call = [c \in Calls |-> NoCall]
  /\ clock = 0
  /\ started = 0

Step(c) == Begin(c) \/ BeginCommand(c) \/ Resolve(c) \/ Work(c) \/ Commit(c) \/ Fail(c)

Next == \E c \in Calls : Step(c)

Spec == Init /\ [][Next]_vars

(***************************************************************************)
(* The audit log as an auditor reads it.                                   *)
(***************************************************************************)

\* The rows of the first n commits.
Rows(n) == {log[i] : i \in 1..n}

Replace(rows, old, row) == (rows \ {r \in rows : r.id = old}) \cup {row}

Replayed(s, r) ==
  CASE r.action \in {"tenant.create", "tenant.update", "tenant.disable", "tenant.enable"} ->
         [s EXCEPT !.tenants = Replace(@, r.tenant, r.detail)]
    [] r.action \in {"key.create", "key.update", "key.revoke"} -> [s EXCEPT !.keys = Replace(@, r.key, r.detail)]
    [] r.action = "quota.replace" -> [s EXCEPT !.quotas = {q \in @ : q.tenant # r.tenant} \cup r.detail]
    [] r.action = "quota.upsert" ->
         [s EXCEPT !.quotas = {q \in @ : \A n \in r.detail : q.tenant # n.tenant \/ q.kind # n.kind} \cup r.detail]
    [] r.action = "quota.delete" -> [s EXCEPT !.quotas = {q \in @ : q.tenant # r.tenant \/ q.kind # r.detail}]
    [] r.action = "admin_credential.create" -> [s EXCEPT !.creds = @ \cup {r.detail}]
    [] r.action = "admin_credential.revoke" -> [s EXCEPT !.creds = @ \ {r.detail}]

\* The state after each instant, when the rows take effect at their times.
States(rows) ==
  LET s[t \in 0..clock] ==
        IF t = 0 THEN Empty
        ELSE LET now == {r \in rows : r.at = t}
             IN  IF now = {} THEN s[t - 1] ELSE Replayed(s[t - 1], The(now))
  IN  s

Replay(rows) == States(rows)[clock]

Live(creds) == {[name |-> c.name, role |-> c.role] : c \in {x \in creds : ~x.revoked}}

\* Whatever calls ran at once, failed or were repeated, replaying the audit log by
\* the times of its rows gives the tables: no change without its row, no row without
\* its change, and no two rows in the wrong order.
AuditReplays == Replay(Rows(Len(log))) = [db EXCEPT !.creds = Live(db.creds)]

\* Every row tells of a change the state before it allowed: nothing is created
\* twice, no key is issued to a disabled tenant, nothing revoked changes again,
\* and a repeated call that changed nothing left no row.
AuditLegal ==
  LET rows == Rows(Len(log))
      states == States(rows)
  IN \A r \in rows :
    LET s == states[r.at - 1]
        t == {x \in s.tenants : x.id = r.tenant}
        k == {x \in s.keys : x.id = r.key}
    IN  /\ Replayed(s, r) # s
        /\ CASE r.action = "tenant.create" -> \A x \in s.tenants : x.ext # r.detail.ext
             [] r.action = "key.create" -> k = {} /\ \A x \in t : ~x.disabled
             [] r.action \in {"key.update", "key.revoke"} -> \A x \in k : ~x.revoked
             [] r.action = "admin_credential.create" ->
                  \A x \in rows : x.at < r.at /\ x.action = r.action => x.detail.name # r.detail.name
             [] OTHER -> TRUE
        /\ r.tenant # 0 => (r.action = "tenant.create" <=> t = {})

\* An answer is one the audit log explains.  A repeated signup gets the id of the
\* one tenant, and a conflict only if the tenant was ever different; a missing row
\* was missing when the call began.
AnswersExplained ==
  LET rows(a)  == {r \in Rows(Len(log)) : r.action = a}
      tenants  == {r.detail : r \in UNION {rows(a) : a \in {"tenant.create", "tenant.update"}}}
  IN  \A c \in Calls : call[c].pc = "done" =>
           LET req == call[c].req
               ans == call[c].answer
           IN  /\ (req.op = "CreateTenant" /\ ans.what = "ok") =>
                    {r.tenant : r \in {x \in rows("tenant.create") : x.detail.ext = req.ext}} = {ans.id}
               /\ (req.op = "CreateTenant" /\ ans.what = "conflict") =>
                    \E t \in tenants : t.ext = req.ext /\ t.doc # req.doc
               /\ ans.what = "notfound" =>
                    LET s == Replay(Rows(call[c].auth))
                    IN  CASE "ref" \in DOMAIN req -> \A t \in s.tenants : t.ext # req.ref
                          [] "key" \in DOMAIN req -> \A k \in s.keys : k.id # req.key
                          [] OTHER -> \A x \in s.creds : x.name # req.name

\* Who may act follows from the audit log: a change through the API was made with a
\* credential that was an admin's and not revoked when the call was let in, and a
\* key admits requests exactly while the log leaves it and its tenant in force.
AccessExplained ==
  /\ \A i \in DOMAIN log : log[i].actor # "cli" =>
       [name |-> log[i].actor, role |-> "admin"] \in Replay(Rows(log[i].auth)).creds
  /\ LET s == Replay(Rows(Len(log)))
     IN  \A k \in db.keys :
           {r.key : r \in Authenticate(k.id)} =
             {x \in s.keys : x.id = k.id /\ ~x.revoked /\ \A t \in s.tenants : t.id = x.tenant => ~t.disabled}
=============================================================================
