----------------------------- MODULE MCAdminTx -----------------------------
(***************************************************************************)
(* AdminTx from two states: an empty database, and one in which an admin's *)
(* and a viewer's credential, a tenant, a key and a quota have been        *)
(* created, by the calls whose audit rows are in its log.                  *)
(***************************************************************************)
EXTENDS AdminTx, TLC

Tenant == [id |-> 5, ext |-> 101, doc |-> "d1", disabled |-> FALSE]
Key == [id |-> 6, tenant |-> 5, allow |-> "any", revoked |-> FALSE]
Quota == [tenant |-> 5, kind |-> "day", limit |-> 2]
Row(at, auth, actor, action, tenant, key, detail) ==
  [at |-> at, auth |-> auth, actor |-> actor, action |-> action, tenant |-> tenant, key |-> key, detail |-> detail]

Provisioned ==
  /\ db = [tenants |-> {Tenant}, keys |-> {Key}, quotas |-> {Quota},
           creds |-> {[id |-> 2, name |-> "ops", role |-> "admin", revoked |-> FALSE],
                      [id |-> 4, name |-> "viewer", role |-> "readonly", revoked |-> FALSE]}]
  /\ log = << Row(1, 0, "cli", "admin_credential.create", 0, 0, [name |-> "ops", role |-> "admin"]),
              Row(3, 1, "cli", "admin_credential.create", 0, 0, [name |-> "viewer", role |-> "readonly"]),
              Row(5, 2, "ops", "tenant.create", 5, 0, Tenant),
              Row(6, 3, "ops", "key.create", 5, 6, Key),
              Row(7, 4, "ops", "quota.upsert", 5, 0, {Quota}) >>
  /\ call = [c \in Calls |-> NoCall]
  /\ clock = 7
  /\ started = 0

MCSpec == (Init \/ Provisioned) /\ [][Next]_vars

Symmetry == Permutations(Calls)
=============================================================================
