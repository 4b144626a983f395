---------------------------- MODULE AdminSessions ----------------------------
(***************************************************************************)
(* One person's account on the admin API: what Users of                    *)
(* internal/usecases/admin/users.go does through AdminUserRepo, as         *)
(* concurrent calls.  A login, a refresh, a logout, a disable and a        *)
(* password change each read, decide and write in separate steps, and each *)
(* write is a READ COMMITTED transaction.  A statement that revokes the    *)
(* whole set fixes the rows it will look at when it starts, and looks at   *)
(* each again when it gets to it; a row inserted in between escapes it.    *)
(* Accounts share nothing but the throttle's map, whose keys hold the      *)
(* email, so one account is enough.                                        *)
(***************************************************************************)
EXTENDS Naturals, FiniteSets, Sequences, FiniteSetsExt

CONSTANTS
  Calls,                \* calls of Users that can be under way at once, of the API and the CLI
  Clients,              \* client addresses
  MaxLoginFailures,
  LoginFailureWindow,   \* in ticks of the clock, as the next three
  RefreshTTL,
  AccessTTL,
  Second,               \* what time.Second truncates to
  MaxClock,             \* bound: how far the clock runs
  MaxCalls              \* bound: how many calls begin

ASSUME SessionsAssumption ==
  /\ {MaxLoginFailures, LoginFailureWindow, RefreshTTL, AccessTTL, Second} \subseteq Nat \ {0}
  /\ {MaxClock, MaxCalls} \subseteq Nat

VARIABLES
  clock,
  user,       \* the row of admin_users; pw numbers the passwords it has had
  sessions,   \* the rows of admin_refresh_tokens, in the order they were inserted
  audit,      \* how many audit rows of each action there are
  counts,     \* the throttle's map; a key that is absent is NoWindow
  failed,     \* history: the failures since a key's last success, in counting order
  begun,      \* how many calls have begun
  call        \* what each call is doing

vars == <<clock, user, sessions, audit, counts, failed, begun, call>>

AuditActions == {"user.create", "user.disable", "user.password_change", "user.login",
                 "user.login_failed", "user.logout", "user.refresh_reuse"}

NoWindow == [failures |-> 0, until |-> 0]

Phases == {"idle", "looking", "verifying", "starting", "refreshing", "rotating", "reusing",
           "cutting", "ending", "disabling", "setting", "revoking"}

\* op tells "disable" from "password" in a transaction both run; pw is the
\* password presented, then the one verified; token the session presented.
Call(pc) == [pc |-> pc, op |-> "", now |-> 0, key |-> "", pw |-> 0, hash |-> 0,
             off |-> FALSE, token |-> 0, access |-> 0, cut |-> {}]

Rows == [expires : Nat, state : {"live", "rotated", "ended", "cut"}, next : Nat, gone : BOOLEAN,
         login : Nat, pw : Nat, raced : BOOLEAN, access : Nat]

CallRecords == [pc : Phases, op : {"", "disable", "password"}, now : Nat, key : Clients \cup {""},
                pw : Nat, hash : Nat, off : BOOLEAN, token : Nat, access : Nat, cut : SUBSET Nat]

\* A failure: the time its login sampled when it began, and when it was counted.
Failures == [at : Nat, counted : Nat]

TypeOK ==
  /\ clock \in 0..MaxClock
  /\ user \in [exists : BOOLEAN, disabled : BOOLEAN, pw : Nat, changed : Nat, lastLogin : Nat]
  /\ sessions \in Seq(Rows)
  /\ audit \in [AuditActions -> Nat]
  /\ counts \in [Clients -> [failures : Nat, until : Nat]]
  /\ failed \in [Clients -> Seq(Failures)]
  /\ begun \in 0..MaxCalls
  /\ call \in [Calls -> CallRecords]

\* The account may have been made before the calls begin.
Init ==
  /\ clock = 0
  /\ \E made \in {0, 1} :
       /\ user = [exists |-> made = 1, disabled |-> FALSE, pw |-> made, changed |-> 0,
                  lastLogin |-> 0]
       /\ audit = [a \in AuditActions |-> IF a = "user.create" THEN made ELSE 0]
  /\ sessions = <<>>
  /\ counts = [k \in Clients |-> NoWindow]
  /\ failed = [k \in Clients |-> <<>>]
  /\ begun = 0
  /\ call = [c \in Calls |-> Call("idle")]

------------------------------------------------------------------------------
(***************************************************************************)
(* Rows and windows.                                                       *)
(***************************************************************************)

Audited(action) == [audit EXCEPT ![action] = @ + 1]

End(c) == call' = [call EXCEPT ![c] = Call("idle")]

Goto(c, pc) == call' = [call EXCEPT ![c].pc = pc]

Live(t) == ~sessions[t].gone /\ sessions[t].state = "live"

Expired(t, now) == now >= sessions[t].expires

\* DeleteExpiredAdminRefreshTokens.
Swept(rows, now) ==
  [t \in DOMAIN rows |-> [rows[t] EXCEPT !.gone = @ \/ rows[t].expires < now]]

\* RevokeAdminUserRefreshTokens, over the rows it saw that are still live.
Cut(saw) ==
  [t \in DOMAIN sessions |->
     IF t \in saw /\ Live(t) THEN [sessions[t] EXCEPT !.state = "cut"] ELSE sessions[t]]

\* A transaction that holds the lock of the user's row.
UserLocked == \E c \in Calls : call[c].pc = "revoking"

\* A password change whose time is taken and that has not committed.
PasswordChanging ==
  \E c \in Calls : call[c].pc = "setting" \/ (call[c].pc = "revoking" /\ call[c].op = "password")

\* Mutation: blocked, one failure late.
BlockedLate(key, now) ==
  now < counts[key].until /\ counts[key].failures > MaxLoginFailures


blocked(key, now) ==
  now < counts[key].until /\ counts[key].failures >= MaxLoginFailures

\* fail forgets a window that has passed before it counts.  Its sweep drops
\* windows that have passed, which neither blocked nor fail can tell.
Counted(w, now) ==
  [failures |-> (IF now > w.until THEN 0 ELSE w.failures) + 1,
   until |-> now + LoginFailureWindow]

fail(key, now) ==
  /\ counts' = [counts EXCEPT ![key] = Counted(@, now)]
  /\ failed' = [failed EXCEPT ![key] = Append(@, [at |-> now, counted |-> clock])]

succeed(key) ==
  /\ counts' = [counts EXCEPT ![key] = NoWindow]
  /\ failed' = [failed EXCEPT ![key] = <<>>]

Trunc(t) == (t \div Second) * Second

TokenIssuedAfterPasswordChange(issued) == ~(Trunc(issued) < Trunc(user.changed))

\* authenticateUser, for the access token issued with a session.
authenticateUser(t) ==
  LET issued == Trunc(sessions[t].access) IN
  /\ clock < issued + AccessTTL
  /\ ~user.disabled
  /\ TokenIssuedAfterPasswordChange(issued)

------------------------------------------------------------------------------
(***************************************************************************)
(* Create, Disable and SetPassword, which the CLI calls.                   *)
(***************************************************************************)

\* The email is unique: a second Create inserts nothing and rolls back.
Create(c) ==
  /\ call[c].pc = "idle"
  /\ IF user.exists
       THEN UNCHANGED <<user, audit>>
       ELSE /\ user' = [user EXCEPT !.exists = TRUE, !.pw = 1, !.changed = clock]
            /\ audit' = Audited("user.create")
  /\ End(c)
  /\ UNCHANGED <<clock, sessions, counts, failed>>

Disable(c) ==
  /\ call[c].pc = "idle"
  /\ IF ~user.exists \/ user.disabled
       THEN End(c)
       ELSE call' = [call EXCEPT ![c] = [Call("disabling") EXCEPT !.op = "disable"]]
  /\ UNCHANGED <<clock, user, sessions, audit, counts, failed>>

SetPassword(c) ==
  /\ call[c].pc = "idle"
  /\ IF ~user.exists
       THEN End(c)
       ELSE call' = [call EXCEPT
              ![c] = [Call("setting") EXCEPT !.op = "password", !.now = clock]]
  /\ UNCHANGED <<clock, user, sessions, audit, counts, failed>>

\* Mutation: UpdateUser that trusts what Disable read.
UpdateUserUnchecked(c) ==
  /\ call[c].pc \in {"disabling", "setting"}
  /\ ~UserLocked
  /\ call' = [call EXCEPT ![c].pc = "revoking", ![c].cut = {t \in DOMAIN sessions : Live(t)}]
  /\ UNCHANGED <<clock, user, sessions, audit, counts, failed>>

\* The update locks the user's row, and the next statement takes its snapshot.
\* A person found disabled by now is left alone and nothing is audited.
UpdateUser(c) ==
  /\ call[c].pc \in {"disabling", "setting"}
  /\ ~UserLocked
  /\ IF call[c].op = "disable" /\ user.disabled
       THEN End(c)
       ELSE call' = [call EXCEPT ![c].pc = "revoking", ![c].cut = {t \in DOMAIN sessions : Live(t)}]
  /\ UNCHANGED <<clock, user, sessions, audit, counts, failed>>

DisableAdminUser(c) ==
  /\ call[c].pc = "revoking" /\ call[c].op = "disable"
  /\ user' = [user EXCEPT !.disabled = TRUE]
  /\ sessions' = Cut(call[c].cut)
  /\ audit' = Audited("user.disable")
  /\ End(c)
  /\ UNCHANGED <<clock, counts, failed>>

\* Mutation: SetAdminUserPassword that keeps the sessions.
SetPasswordOnly(c) ==
  /\ call[c].pc = "revoking" /\ call[c].op = "password"
  /\ user' = [user EXCEPT !.pw = @ + 1, !.changed = call[c].now]
  /\ audit' = Audited("user.password_change")
  /\ End(c)
  /\ UNCHANGED <<clock, sessions, counts, failed>>


SetAdminUserPassword(c) ==
  /\ call[c].pc = "revoking" /\ call[c].op = "password"
  /\ user' = [user EXCEPT !.pw = @ + 1, !.changed = call[c].now]
  /\ sessions' = Cut(call[c].cut)
  /\ audit' = Audited("user.password_change")
  /\ End(c)
  /\ UNCHANGED <<clock, counts, failed>>

------------------------------------------------------------------------------
(***************************************************************************)
(* Login.  Password 0 is one the account never had.                        *)
(***************************************************************************)

Login(c, key, pw) ==
  /\ call[c].pc = "idle"
  /\ IF blocked(key, clock)
       THEN /\ audit' = Audited("user.login_failed")
            /\ End(c)
       ELSE /\ call' = [call EXCEPT
                 ![c] = [Call("looking") EXCEPT !.now = clock, !.key = key, !.pw = pw]]
            /\ UNCHANGED audit
  /\ UNCHANGED <<clock, user, sessions, counts, failed>>

RefuseLogin(c) ==
  /\ fail(call[c].key, call[c].now)
  /\ audit' = Audited("user.login_failed")
  /\ End(c)
  /\ UNCHANGED <<clock, user, sessions>>

\* A password over the cap is refused before anything is looked up.
LoginTooLong(c) ==
  /\ call[c].pc = "looking" /\ call[c].pw = 0
  /\ RefuseLogin(c)

AdminUserForLogin(c) ==
  /\ call[c].pc = "looking"
  /\ call' = [call EXCEPT ![c].pc = "verifying", ![c].hash = user.pw,
                          ![c].off = ~user.exists \/ user.disabled]
  /\ UNCHANGED <<clock, user, sessions, audit, counts, failed>>

LoginRefused(c) ==
  /\ call[c].pc = "verifying"
  /\ call[c].pw # call[c].hash \/ call[c].off
  /\ RefuseLogin(c)

LoginVerified(c) ==
  /\ call[c].pc = "verifying"
  /\ call[c].pw = call[c].hash /\ ~call[c].off
  /\ succeed(call[c].key)
  /\ call' = [call EXCEPT ![c].pc = "starting", ![c].access = clock]
  /\ UNCHANGED <<clock, user, sessions, audit>>

\* Touching the user's row waits for whoever holds its lock.
StartAdminSession(c) ==
  LET id == Len(sessions) + 1 IN
  /\ call[c].pc = "starting"
  /\ ~UserLocked
  /\ sessions' = Append(Swept(sessions, call[c].now),
       [expires |-> call[c].now + RefreshTTL, state |-> "live", next |-> 0, gone |-> FALSE,
        login |-> id, pw |-> call[c].hash, access |-> call[c].access,
        raced |-> call[c].hash # user.pw \/ PasswordChanging])
  /\ user' = [user EXCEPT !.lastLogin = Max({@, call[c].now})]
  /\ audit' = Audited("user.login")
  /\ End(c)
  /\ UNCHANGED <<clock, counts, failed>>

------------------------------------------------------------------------------
(***************************************************************************)
(* Refresh and Logout, of any token that was ever handed out.              *)
(***************************************************************************)

Refresh(c, t) ==
  /\ call[c].pc = "idle"
  /\ call' = [call EXCEPT ![c] = [Call("refreshing") EXCEPT !.now = clock, !.token = t]]
  /\ UNCHANGED <<clock, user, sessions, audit, counts, failed>>

\* AdminSessionByTokenHash reads the token and its owner together.
RefreshLookup(c) ==
  LET t == call[c].token IN
  /\ call[c].pc = "refreshing"
  /\ \/ /\ ~sessions[t].gone /\ ~Live(t)
        /\ Goto(c, "reusing")
     \/ /\ sessions[t].gone \/ (Live(t) /\ (Expired(t, call[c].now) \/ user.disabled))
        /\ End(c)
     \/ /\ Live(t) /\ ~Expired(t, call[c].now) /\ ~user.disabled
        /\ call' = [call EXCEPT ![c].pc = "rotating", ![c].access = clock]
  /\ UNCHANGED <<clock, user, sessions, audit, counts, failed>>

\* Mutation: RotateAdminSession whose revoke is not conditional.
RotateUnconditional(c) ==
  LET t  == call[c].token
      id == Len(sessions) + 1
  IN
  /\ call[c].pc = "rotating"
  /\ sessions' = Append([sessions EXCEPT ![t].state = "rotated", ![t].next = id],
       [sessions[t] EXCEPT !.expires = call[c].now + RefreshTTL, !.state = "live", !.next = 0,
                           !.access = call[c].access, !.raced = @ \/ PasswordChanging])
  /\ End(c)
  /\ UNCHANGED <<clock, user, audit, counts, failed>>

\* The revoke is conditional on the row being live; when it is not, the
\* transaction takes back the row it inserted.
RotateAdminSession(c) ==
  LET t  == call[c].token
      id == Len(sessions) + 1
  IN
  /\ call[c].pc = "rotating"
  /\ IF Live(t)
       THEN /\ sessions' = Append([sessions EXCEPT ![t].state = "rotated", ![t].next = id],
                 [sessions[t] EXCEPT !.expires = call[c].now + RefreshTTL,
                                     !.access = call[c].access,
                                     !.raced = @ \/ PasswordChanging])
            /\ End(c)
       ELSE /\ Goto(c, "reusing")
            /\ UNCHANGED sessions
  /\ UNCHANGED <<clock, user, audit, counts, failed>>

auditSessionReuse(c) ==
  /\ call[c].pc = "reusing"
  /\ call' = [call EXCEPT ![c].pc = "cutting", ![c].cut = {t \in DOMAIN sessions : Live(t)}]
  /\ UNCHANGED <<clock, user, sessions, audit, counts, failed>>

RevokeAdminSessions(c) ==
  /\ call[c].pc = "cutting"
  /\ sessions' = Cut(call[c].cut)
  /\ audit' = Audited("user.refresh_reuse")
  /\ End(c)
  /\ UNCHANGED <<clock, user, counts, failed>>

Logout(c, t) ==
  /\ call[c].pc = "idle"
  /\ IF sessions[t].gone
       THEN End(c)
       ELSE call' = [call EXCEPT ![c] = [Call("ending") EXCEPT !.token = t]]
  /\ UNCHANGED <<clock, user, sessions, audit, counts, failed>>

EndAdminSession(c) ==
  /\ call[c].pc = "ending"
  /\ IF Live(call[c].token)
       THEN /\ sessions' = [sessions EXCEPT ![call[c].token].state = "ended"]
            /\ audit' = Audited("user.logout")
       ELSE UNCHANGED <<sessions, audit>>
  /\ End(c)
  /\ UNCHANGED <<clock, user, counts, failed>>

------------------------------------------------------------------------------
\* Any query may fail and any transaction roll back, and the call ends with
\* an error, or, for auditSessionReuse, a warning in the log.
Fail(c) ==
  /\ call[c].pc # "idle"
  /\ End(c)
  /\ UNCHANGED <<clock, user, sessions, audit, counts, failed>>

Advance ==
  /\ clock < MaxClock
  /\ clock' = clock + 1
  /\ UNCHANGED <<user, sessions, audit, counts, failed, begun, call>>

Begin(c) ==
  /\ begun < MaxCalls /\ begun' = begun + 1
  /\ \/ Create(c) \/ Disable(c) \/ SetPassword(c)
     \/ \E key \in Clients, pw \in 0..user.pw : Login(c, key, pw)
     \/ \E t \in DOMAIN sessions : Refresh(c, t) \/ Logout(c, t)

Continue(c) ==
  /\ UNCHANGED begun
  /\ \/ UpdateUser(c) \/ DisableAdminUser(c) \/ SetAdminUserPassword(c)
     \/ LoginTooLong(c) \/ AdminUserForLogin(c) \/ LoginRefused(c) \/ LoginVerified(c)
     \/ StartAdminSession(c)
     \/ RefreshLookup(c) \/ RotateAdminSession(c)
     \/ auditSessionReuse(c) \/ RevokeAdminSessions(c)
     \/ EndAdminSession(c)
     \/ Fail(c)

Next == Advance \/ \E c \in Calls : Begin(c) \/ Continue(c)

Spec == Init /\ [][Next]_vars
------------------------------------------------------------------------------
(***************************************************************************)
(* Properties.                                                             *)
(***************************************************************************)

\* The refresh tokens of one login form a chain: however many refreshes,
\* logouts and sweeps race, a token is rotated into at most one other, at
\* most one token of the chain is live, and the sweep at a login never
\* deletes a row that replaced_by of a row it keeps refers to, which the
\* foreign key would refuse.
RotationChains ==
  \A s, t \in DOMAIN sessions :
    /\ sessions[s].login = sessions[t].login /\ Live(s) /\ Live(t) => s = t
    /\ sessions[s].next = sessions[t].next /\ sessions[s].next # 0 => s = t
    /\ sessions[s].next = t /\ ~sessions[s].gone => ~sessions[t].gone

\* SetPassword ends what was opened under an older password: no refresh
\* token of such a login is live and no access token of it is accepted,
\* except where the login, or a refresh that leads to the token, overlapped
\* the password change, and except an access token issued in the very
\* second the password changed in.
OldPasswordEnds ==
  \A t \in DOMAIN sessions :
    sessions[t].pw # user.pw /\ ~sessions[t].raced =>
      /\ ~Live(t)
      /\ authenticateUser(t) => Trunc(sessions[t].access) = Trunc(user.changed)

\* The rows that logins inserted, and the rows that logouts ended.
Opened == {t \in DOMAIN sessions : sessions[t].login = t}
Ended == {t \in DOMAIN sessions : sessions[t].state = "ended"}

\* Every change has its audit row and no audit row claims a change that did
\* not happen, whoever raced: one for the one time the account was made or
\* disabled, one for each password, login and logout.  last_login_at is the
\* newest login, in whatever order logins commit.
AuditAccounts ==
  /\ audit["user.create"] = IF user.exists THEN 1 ELSE 0
  /\ audit["user.disable"] = IF user.disabled THEN 1 ELSE 0
  /\ user.exists => audit["user.password_change"] = user.pw - 1
  /\ audit["user.login"] = Cardinality(Opened)
  /\ audit["user.logout"] = Cardinality(Ended)
  /\ user.lastLogin = Max({0} \cup {sessions[t].expires - RefreshTTL : t \in Opened})

\* The failures within their window, shortened by the time the slowest login took
\* of those counted since: from when it sampled the clock to when it was counted.
Standing(fs, now) ==
  {i \in DOMAIN fs : \A j \in i..Len(fs) :
     now + (fs[j].counted - fs[j].at) < fs[i].counted + LoginFailureWindow}

\* The throttle: no login gets as far as a look-up while MaxLoginFailures failures
\* counted for its key since the last success stand.  fail counts a failure at the
\* time its login began, which may pull until back: that shortens the window of the
\* failures counted before it by what that login took at most, and never loses one
\* of them.
ThrottleHolds ==
  [][\A c \in Calls :
       call[c].pc = "idle" /\ call'[c].pc = "looking" =>
         Cardinality(Standing(failed[call'[c].key], clock)) < MaxLoginFailures]_vars

------------------------------------------------------------------------------
(***************************************************************************)
(* What every step keeps, from which the invariants above are proved.      *)
(***************************************************************************)

\* What a call under way, r, may rely on: a token presented names a row, and the
\* call's time was sampled after that row was inserted.
TokenOK(r) ==
  /\ r.now <= clock /\ r.access <= clock
  /\ r.pc \in {"refreshing", "rotating", "ending"} => r.token \in DOMAIN sessions
  /\ r.pc \in {"refreshing", "rotating"} => sessions[r.token].expires <= r.now + RefreshTTL
  /\ r.pc = "verifying" /\ ~r.off => user.exists
  /\ r.pc \in {"starting", "disabling", "setting", "revoking"} => user.exists

\* Only one transaction holds the user's row, and it disables nobody twice.
LockOK(c, r) ==
  /\ r.pc = "disabling" => r.op = "disable"
  /\ r.pc = "setting" => r.op = "password"
  /\ r.pc = "revoking" => /\ r.op \in {"disable", "password"}
                          /\ r.op = "disable" => ~user.disabled
                          /\ \A d \in Calls \ {c} : call[d].pc # "revoking"

\* A password change that is under way will cut every session that did not race it,
\* and its time is no earlier than their access tokens'.
PasswordOK(r) ==
  r.pc \in {"setting", "revoking"} /\ r.op = "password" =>
    \A t \in DOMAIN sessions :
      ~sessions[t].raced =>
        /\ sessions[t].access <= r.now
        /\ r.pc = "revoking" /\ Live(t) => t \in r.cut

CallsInv == \A c \in Calls : TokenOK(call[c]) /\ LockOK(c, call[c]) /\ PasswordOK(call[c])

\* Rotations go forward, to a row that expires no sooner.
ChainInv ==
  \A t \in DOMAIN sessions :
    /\ sessions[t].state = "rotated" <=> sessions[t].next # 0
    /\ sessions[t].next # 0 =>
         /\ sessions[t].next \in DOMAIN sessions
         /\ sessions[t].expires <= sessions[sessions[t].next].expires
    /\ sessions[t].login \in 1..t
    /\ sessions[t].expires <= clock + RefreshTTL
    /\ sessions[t].access <= clock

\* An account not made yet has no sessions, and one opened under an older password
\* was cut, unless it raced.
UserInv ==
  /\ ~user.exists => sessions = <<>> /\ ~user.disabled /\ user.pw = 0 /\ user.lastLogin = 0
  /\ user.exists => user.pw > 0
  /\ \A t \in DOMAIN sessions :
       ~sessions[t].raced /\ sessions[t].pw # user.pw =>
         ~Live(t) /\ sessions[t].access <= user.changed

\* What the audit log has counted, row by row.
LedgerInv ==
  /\ audit["user.create"] = IF user.exists THEN 1 ELSE 0
  /\ audit["user.disable"] = IF user.disabled THEN 1 ELSE 0
  /\ user.exists => audit["user.password_change"] + 1 = user.pw
  /\ ~user.exists => audit["user.password_change"] = 0
  /\ audit["user.login"] = Cardinality(Opened)
  /\ audit["user.logout"] = Cardinality(Ended)

\* last_login_at is the time of one login and of none later.
LastLoginInv ==
  /\ user.lastLogin = 0 \/ \E t \in Opened : sessions[t].expires = user.lastLogin + RefreshTTL
  /\ \A t \in Opened : /\ RefreshTTL <= sessions[t].expires
                       /\ sessions[t].expires <= user.lastLogin + RefreshTTL

\* The failures counted last, in a row, whose samples are younger than the window.
Recent(fs, now) ==
  LET young(i) == now < fs[i].at + LoginFailureWindow IN
  Cardinality({i \in DOMAIN fs : \A j \in i..Len(fs) : young(j)})

\* The throttle's counter never falls behind the failures that are still young, at
\* this time or any later, and its window runs from the failure counted last.
ThrottleInv ==
  \A k \in Clients :
    /\ failed[k] # <<>> => counts[k].until = failed[k][Len(failed[k])].at + LoginFailureWindow
    /\ \A n \in clock..MaxClock : Recent(failed[k], n) <= counts[k].failures

\* Failures are counted in the order of the clock.
CountedInv ==
  \A k \in Clients : \A i, j \in DOMAIN failed[k] :
    failed[k][i].counted <= clock /\ (i <= j => failed[k][i].counted <= failed[k][j].counted)

SessionsInv ==
  /\ TypeOK /\ CallsInv /\ UserInv /\ ChainInv /\ RotationChains
  /\ LedgerInv /\ LastLoginInv
==============================================================================
