----------------------------- MODULE AdminStore -----------------------------
(***************************************************************************)
(* The tables of the admin service and the statements it runs on them      *)
(* (db/gen).  A table is a set of rows, a statement gives the tables it    *)
(* leaves and the rows it returns: none, where the code sees ErrNoRows.    *)
(* Names and metadata of a tenant are one value, its doc; a secret is the  *)
(* id of its key; the times of a row are whether they are set.             *)
(***************************************************************************)
EXTENDS Naturals, Sequences, FiniteSets

Unchanged(db, rows) == [db |-> db, rows |-> rows]

The(rows) == CHOOSE r \in rows : TRUE

\* UPDATE table SET ... WHERE ...: the old rows, and what becomes of each.
Update(db, table, old, Set(_)) ==
  LET rows == {Set(r) : r \in old}
  IN  [db |-> [db EXCEPT ![table] = (@ \ old) \cup rows], rows |-> rows]

Insert(db, table, row) == [db |-> [db EXCEPT ![table] = @ \cup {row}], rows |-> {row}]

Delete(db, table, old) == [db |-> [db EXCEPT ![table] = @ \ old], rows |-> old]

(***************************************************************************)
(* tenants                                                                 *)
(***************************************************************************)

GetTenant(db, id) == {t \in db.tenants : t.id = id}

GetTenantByExternalID(db, ext) == {t \in db.tenants : t.ext = ext}

\* FOR NO KEY UPDATE: who waits is AdminTx's Lock.
LockTenant(db, id) == GetTenant(db, id)

\* ON CONFLICT (external_id) DO NOTHING.
CreateTenantRow(db, t) ==
  IF GetTenantByExternalID(db, t.ext) # {} THEN Unchanged(db, {}) ELSE Insert(db, "tenants", t)

UpdateTenantRow(db, id, doc) ==
  Update(db, "tenants", GetTenant(db, id), LAMBDA t : [t EXCEPT !.doc = doc])

DisableTenantRow(db, id) ==
  Update(db, "tenants", {t \in GetTenant(db, id) : ~t.disabled}, LAMBDA t : [t EXCEPT !.disabled = TRUE])

EnableTenantRow(db, id) ==
  Update(db, "tenants", {t \in GetTenant(db, id) : t.disabled}, LAMBDA t : [t EXCEPT !.disabled = FALSE])

(***************************************************************************)
(* api_keys                                                                *)
(***************************************************************************)

GetAPIKey(db, id) == {k \in db.keys : k.id = id}

CreateAPIKeyRow(db, k) == Insert(db, "keys", k)

UpdateAPIKeyAllowlist(db, id, allow) ==
  Update(db, "keys", {k \in GetAPIKey(db, id) : ~k.revoked}, LAMBDA k : [k EXCEPT !.allow = allow])

RevokeAPIKeyRow(db, id) ==
  Update(db, "keys", {k \in GetAPIKey(db, id) : ~k.revoked}, LAMBDA k : [k EXCEPT !.revoked = TRUE])

\* The join that authenticates a request of the gateway.
GetAPIKeyByHash(db, id) ==
  {[key |-> k, tenant |-> t] : k \in GetAPIKey(db, id), t \in UNION {GetTenant(db, k.tenant) : k \in GetAPIKey(db, id)}}

(***************************************************************************)
(* quotas                                                                  *)
(***************************************************************************)

ListQuotas(db, tenant) == {q \in db.quotas : q.tenant = tenant}

GetQuota(db, tenant, kind) == {q \in ListQuotas(db, tenant) : q.kind = kind}

UpsertQuota(db, q) == Insert(Delete(db, "quotas", GetQuota(db, q.tenant, q.kind)).db, "quotas", q)

DeleteQuotaRow(db, tenant, kind) == Delete(db, "quotas", GetQuota(db, tenant, kind))

DeleteQuotasForTenant(db, tenant) == Delete(db, "quotas", ListQuotas(db, tenant))

(***************************************************************************)
(* admin_credentials                                                       *)
(***************************************************************************)

GetAdminCredentialByRef(db, name) == {c \in db.creds : c.name = name}

GetAdminCredentialByTokenHash(db, name) == {c \in db.creds : c.name = name}

CreateAdminCredentialRow(db, c) ==
  IF GetAdminCredentialByRef(db, c.name) # {} THEN Unchanged(db, {}) ELSE Insert(db, "creds", c)

\* Mutation: a credential is revoked again.
RevokeAdminCredentialAgain(db, name) ==
  Update(db, "creds", GetAdminCredentialByRef(db, name), LAMBDA c : [c EXCEPT !.revoked = TRUE])

RevokeAdminCredentialRow(db, name) ==
  Update(db, "creds", {c \in GetAdminCredentialByRef(db, name) : ~c.revoked}, LAMBDA c : [c EXCEPT !.revoked = TRUE])

(***************************************************************************)
(* audit_log                                                               *)
(***************************************************************************)

CreateAuditEntry(log, row) == Append(log, row)
=============================================================================
