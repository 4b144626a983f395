------------------------------ MODULE AdminAPI ------------------------------
(***************************************************************************)
(* The HTTP adapter of the admin API: what becomes of a request on its way *)
(* through the middleware, the generated wrapper and decoder, the handler  *)
(* and the service.  Each stage answers with a status or passes the        *)
(* request on.  The bodies of answers are left out.                        *)
(*                                                                         *)
(* A request says how it does at each stage: the token it carries, how its *)
(* body reads, whether it fits the OpenAPI document, which parameters do   *)
(* not bind, and how the service ends.                                     *)
(***************************************************************************)
EXTENDS Naturals, Sequences

Pass == 0

\* The first stage that does not pass the request on answers it.
FirstRefusal(stages) ==
  LET refusing == {i \in DOMAIN stages : stages[i] # Pass}
  IN  IF refusing = {} THEN Pass ELSE stages[CHOOSE i \in refusing : \A j \in refusing : i <= j]

(***************************************************************************)
(* What the handlers make of the ends of the service.                      *)
(***************************************************************************)

tenantErrors == {"notfound"}
keyErrors == {"notfound"}

\* A service that reads or writes the database may fail.
Answers(answers, errors) == [answers |-> answers, errors |-> errors \cup {"failed"}]

Login == Answers([ok |-> 200, unauthenticated |-> 401], {})
Logout == Answers([ok |-> 204], {})
Whoami == [answers |-> [ok |-> 200], errors |-> {}]
RefreshSession == Answers([ok |-> 200, unauthenticated |-> 401], {})
RevokeAPIKey == Answers([ok |-> 200], keyErrors)
GetAPIKey == Answers([ok |-> 200], keyErrors)
UpdateAPIKey == Answers([ok |-> 200], keyErrors \cup {"conflict", "invalid"})
GetRequest == Answers([ok |-> 200], {"invalid", "notfound"})
ListTenants == Answers([ok |-> 200], {"invalid"})
CreateTenant == Answers([created |-> 201, ok |-> 200], {"conflict", "invalid"})
DisableTenant == Answers([ok |-> 200], tenantErrors)
GetTenant == Answers([ok |-> 200], tenantErrors)
UpdateTenant == Answers([ok |-> 200], tenantErrors \cup {"invalid"})
ListAudit == Answers([ok |-> 200], tenantErrors \cup {"invalid"})
EnableTenant == Answers([ok |-> 200], tenantErrors)
ListAPIKeys == Answers([ok |-> 200], tenantErrors)
CreateAPIKey == Answers([ok |-> 201], tenantErrors \cup {"conflict", "invalid"})
ListQuotas == Answers([ok |-> 200], tenantErrors)
ReplaceQuotas == Answers([ok |-> 200], tenantErrors \cup {"invalid"})
DeleteQuota == Answers([ok |-> 204], tenantErrors \cup {"invalid"})
GetQuota == Answers([ok |-> 200], tenantErrors \cup {"invalid"})
PutQuota == Answers([ok |-> 200], tenantErrors \cup {"invalid"})
GetUsage == Answers([ok |-> 200], tenantErrors \cup {"invalid"})

\* An error of the service, and whether the request's context is over.
fail(end, late) ==
  CASE end = "invalid"  -> 400
    [] end = "notfound" -> 404
    [] end = "conflict" -> 409
    [] end = "failed"   -> IF late THEN 504 ELSE 500

(***************************************************************************)
(* What the generated wrappers bind from the path and the query.           *)
(***************************************************************************)

LoginWrapper == {}
LogoutWrapper == {}
WhoamiWrapper == {}
RefreshSessionWrapper == {}
RevokeAPIKeyWrapper == {"key"}
GetAPIKeyWrapper == {"key"}
UpdateAPIKeyWrapper == {"key"}
GetRequestWrapper == {"decision_id"}
ListTenantsWrapper == {"include_disabled", "limit"}
CreateTenantWrapper == {}
DisableTenantWrapper == {"tenant"}
GetTenantWrapper == {"tenant"}
UpdateTenantWrapper == {"tenant"}
ListAuditWrapper == {"tenant", "since", "until", "cursor", "limit"}
EnableTenantWrapper == {"tenant"}
ListAPIKeysWrapper == {"tenant"}
CreateAPIKeyWrapper == {"tenant"}
ListQuotasWrapper == {"tenant"}
ReplaceQuotasWrapper == {"tenant"}
DeleteQuotaWrapper == {"tenant", "window"}
GetQuotaWrapper == {"tenant", "window"}
PutQuotaWrapper == {"tenant", "window"}
GetUsageWrapper == {"tenant", "since", "until", "group_by", "meta_key", "limit"}

(***************************************************************************)
(* Whether the generated handlers decode a body.                           *)
(***************************************************************************)

LoginStrict == "required"
LogoutStrict == "required"
WhoamiStrict == "none"
RefreshSessionStrict == "required"
RevokeAPIKeyStrict == "none"
GetAPIKeyStrict == "none"
UpdateAPIKeyStrict == "required"
GetRequestStrict == "none"
ListTenantsStrict == "none"
CreateTenantStrict == "required"
DisableTenantStrict == "none"
GetTenantStrict == "none"
UpdateTenantStrict == "required"
ListAuditStrict == "none"
EnableTenantStrict == "none"
ListAPIKeysStrict == "none"
CreateAPIKeyStrict == "optional"
ListQuotasStrict == "none"
ReplaceQuotasStrict == "required"
DeleteQuotaStrict == "none"
GetQuotaStrict == "none"
PutQuotaStrict == "required"
GetUsageStrict == "none"

(***************************************************************************)
(* The statuses the contract gives an operation, by its response types.    *)
(***************************************************************************)

LoginResponse == {200, 400, 401, 413, 500, 504}
LogoutResponse == {204, 400, 401, 413, 500, 504}
WhoamiResponse == {200, 401, 500, 504}
RefreshSessionResponse == {200, 400, 401, 413, 500, 504}
RevokeAPIKeyResponse == {200, 400, 401, 403, 404, 413, 500, 504}
GetAPIKeyResponse == {200, 400, 401, 404, 500, 504}
UpdateAPIKeyResponse == {200, 400, 401, 403, 404, 409, 413, 500, 504}
GetRequestResponse == {200, 400, 401, 404, 500, 504}
ListTenantsResponse == {200, 400, 401, 500, 504}
CreateTenantResponse == {200, 201, 400, 401, 403, 409, 413, 500, 504}
DisableTenantResponse == {200, 400, 401, 403, 404, 413, 500, 504}
GetTenantResponse == {200, 400, 401, 404, 500, 504}
UpdateTenantResponse == {200, 400, 401, 403, 404, 413, 500, 504}
ListAuditResponse == {200, 400, 401, 404, 500, 504}
EnableTenantResponse == {200, 400, 401, 403, 404, 413, 500, 504}
ListAPIKeysResponse == {200, 400, 401, 404, 500, 504}
CreateAPIKeyResponse == {201, 400, 401, 403, 404, 409, 413, 500, 504}
ListQuotasResponse == {200, 400, 401, 404, 500, 504}
ReplaceQuotasResponse == {200, 400, 401, 403, 404, 413, 500, 504}
DeleteQuotaResponse == {204, 400, 401, 403, 404, 413, 500, 504}
GetQuotaResponse == {200, 400, 401, 404, 500, 504}
PutQuotaResponse == {200, 400, 401, 403, 404, 413, 500, 504}
GetUsageResponse == {200, 400, 401, 404, 500, 504}

Op(method, params, body, handler, responses) ==
  [method |-> method, params |-> params, body |-> body, handler |-> handler, responses |-> responses]

HandlerWithOptions ==
  [Login |-> Op("POST", LoginWrapper, LoginStrict, Login, LoginResponse),
   Logout |-> Op("POST", LogoutWrapper, LogoutStrict, Logout, LogoutResponse),
   Whoami |-> Op("GET", WhoamiWrapper, WhoamiStrict, Whoami, WhoamiResponse),
   RefreshSession |-> Op("POST", RefreshSessionWrapper, RefreshSessionStrict, RefreshSession, RefreshSessionResponse),
   RevokeAPIKey |-> Op("DELETE", RevokeAPIKeyWrapper, RevokeAPIKeyStrict, RevokeAPIKey, RevokeAPIKeyResponse),
   GetAPIKey |-> Op("GET", GetAPIKeyWrapper, GetAPIKeyStrict, GetAPIKey, GetAPIKeyResponse),
   UpdateAPIKey |-> Op("PATCH", UpdateAPIKeyWrapper, UpdateAPIKeyStrict, UpdateAPIKey, UpdateAPIKeyResponse),
   GetRequest |-> Op("GET", GetRequestWrapper, GetRequestStrict, GetRequest, GetRequestResponse),
   ListTenants |-> Op("GET", ListTenantsWrapper, ListTenantsStrict, ListTenants, ListTenantsResponse),
   CreateTenant |-> Op("POST", CreateTenantWrapper, CreateTenantStrict, CreateTenant, CreateTenantResponse),
   DisableTenant |-> Op("DELETE", DisableTenantWrapper, DisableTenantStrict, DisableTenant, DisableTenantResponse),
   GetTenant |-> Op("GET", GetTenantWrapper, GetTenantStrict, GetTenant, GetTenantResponse),
   UpdateTenant |-> Op("PATCH", UpdateTenantWrapper, UpdateTenantStrict, UpdateTenant, UpdateTenantResponse),
   ListAudit |-> Op("GET", ListAuditWrapper, ListAuditStrict, ListAudit, ListAuditResponse),
   EnableTenant |-> Op("POST", EnableTenantWrapper, EnableTenantStrict, EnableTenant, EnableTenantResponse),
   ListAPIKeys |-> Op("GET", ListAPIKeysWrapper, ListAPIKeysStrict, ListAPIKeys, ListAPIKeysResponse),
   CreateAPIKey |-> Op("POST", CreateAPIKeyWrapper, CreateAPIKeyStrict, CreateAPIKey, CreateAPIKeyResponse),
   ListQuotas |-> Op("GET", ListQuotasWrapper, ListQuotasStrict, ListQuotas, ListQuotasResponse),
   ReplaceQuotas |-> Op("PUT", ReplaceQuotasWrapper, ReplaceQuotasStrict, ReplaceQuotas, ReplaceQuotasResponse),
   DeleteQuota |-> Op("DELETE", DeleteQuotaWrapper, DeleteQuotaStrict, DeleteQuota, DeleteQuotaResponse),
   GetQuota |-> Op("GET", GetQuotaWrapper, GetQuotaStrict, GetQuota, GetQuotaResponse),
   PutQuota |-> Op("PUT", PutQuotaWrapper, PutQuotaStrict, PutQuota, PutQuotaResponse),
   GetUsage |-> Op("GET", GetUsageWrapper, GetUsageStrict, GetUsage, GetUsageResponse)]

Ops == DOMAIN HandlerWithOptions

(***************************************************************************)
(* The middleware.                                                         *)
(***************************************************************************)

openPaths == {"Login", "RefreshSession"}

selfServicePaths == {"Logout"}

RoleAllows(role, permission) == role = "admin" \/ (role = "readonly" /\ permission = "read")

\* Mutation: what deletes or replaces is not a write.
permissionForPost(method) == IF method = "POST" THEN "write" ELSE "read"

permissionFor(method) == IF method \in {"GET", "HEAD"} THEN "read" ELSE "write"

\* No bearer token, one with two dots (a person's), or any other (a machine's): the
\* store of its kind knows it as good or not.
authenticate(token) == token.kind \in {"user", "machine"} /\ token.good

RequireToken(r) == IF authenticate(r.token) THEN Pass ELSE 401

RequirePermission(r) ==
  IF RoleAllows(r.token.role, permissionFor(HandlerWithOptions[r.op].method)) THEN Pass ELSE 403

Guard(r) ==
  CASE r.op \in openPaths -> Pass
    [] r.op \in selfServicePaths -> RequireToken(r)
    [] OTHER -> FirstRefusal(<<RequireToken(r), RequirePermission(r)>>)

Body(r) ==
  CASE r.body = "toolarge" -> 413
    [] r.body \in {"unreadable", "notjson"} -> 400
    [] OTHER -> Pass

validationFailed(r) == IF r.fits = "error" THEN 500 ELSE 400

Validate(r) == IF r.fits = "yes" THEN Pass ELSE validationFailed(r)

NewServer(r) == <<Guard(r), Body(r), Validate(r)>>

(***************************************************************************)
(* The generated code behind it, and the whole.                            *)
(***************************************************************************)

Bind(r) == IF r.unbound \cap HandlerWithOptions[r.op].params = {} THEN Pass ELSE 400

DecodeBody(r) ==
  LET body == HandlerWithOptions[r.op].body
  IN  IF \/ r.body = "mismatch" /\ body # "none"
         \/ r.body = "empty" /\ body = "required"
      THEN 400 ELSE Pass

Refusal(r) == FirstRefusal(NewServer(r) \o <<Bind(r), DecodeBody(r)>>)

Handle(r) ==
  LET h == HandlerWithOptions[r.op].handler
  IN  IF r.end \in DOMAIN h.answers THEN h.answers[r.end] ELSE fail(r.end, r.late)

Serve(r) ==
  LET refusal == Refusal(r)
  IN  [ran |-> refusal = Pass, status |-> IF refusal = Pass THEN Handle(r) ELSE refusal]

(***************************************************************************)
(* The requests: any method may carry any body.                            *)
(***************************************************************************)

Bodies == {"empty", "json", "mismatch", "notjson", "toolarge", "unreadable"}

Tokens == [kind : {"none"}, good : {FALSE}, role : {"none"}]
            \cup [kind : {"user", "machine"}, good : BOOLEAN, role : {"admin", "readonly"}]

\* The OpenAPI document gives a GET no body to fit, and where it has no parameters
\* either there is nothing that could not fit.
AdminRequests ==
  UNION {LET d == HandlerWithOptions[op]
         IN  [op : {op}, token : Tokens, body : Bodies,
              fits : IF d.method = "GET" /\ d.params = {} THEN {"yes"} ELSE {"yes", "no", "error"},
              unbound : {{}} \cup {{p} : p \in d.params},
              end : DOMAIN d.handler.answers \cup d.handler.errors, late : BOOLEAN] : op \in Ops}

\* ports.Admin: what takes a Write.
Mutations == {"CreateTenant", "UpdateTenant", "DisableTenant", "EnableTenant", "CreateAPIKey", "UpdateAPIKey",
              "RevokeAPIKey", "ReplaceQuotas", "PutQuota", "DeleteQuota"}
=============================================================================
