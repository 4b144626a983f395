------------------------ MODULE AdminSessionsProofs ------------------------
(***************************************************************************)
(* Proofs about one person's sessions, for any number of calls under way,  *)
(* any number of rows, and any lifetimes.                                  *)
(***************************************************************************)
EXTENDS AdminSessions, FiniteSetTheorems, SequenceTheorems, TLAPS

\* The lifetimes and the clock's second are positive.
LEMMA Lifetimes ==
  /\ RefreshTTL \in Nat /\ RefreshTTL > 0 /\ Second \in Nat /\ Second > 0
  /\ LoginFailureWindow \in Nat /\ MaxClock \in Nat /\ MaxCalls \in Nat
<1>1. RefreshTTL \in Nat \ {0} /\ Second \in Nat \ {0} /\ LoginFailureWindow \in Nat \ {0}
  BY SessionsAssumption
<1>2. MaxClock \in Nat /\ MaxCalls \in Nat
  BY SessionsAssumption
<1> QED
  BY <1>1, <1>2

(***************************************************************************)
(* Calls.                                                                  *)
(***************************************************************************)

\* A call that ends is well typed, and relies on nothing.
LEMMA IdleCall ==
  /\ Call("idle") \in CallRecords /\ Call("idle").pc = "idle"
  /\ SessionsInv => TokenOK(Call("idle"))
<1>1. Call("idle") \in CallRecords /\ Call("idle").pc = "idle"
  BY DEF Call, CallRecords, Phases
<1>2. ASSUME SessionsInv PROVE TokenOK(Call("idle"))
  <2>1. clock \in Nat
    BY <1>2, Lifetimes DEF SessionsInv, TypeOK
  <2>2. Call("idle").now = 0 /\ Call("idle").access = 0
    BY DEF Call
  <2>3. 0 <= clock
    BY <2>1
  <2> QED
    BY <1>1, <2>2, <2>3 DEF TokenOK
<1> QED
  BY <1>1, <1>2

\* One call's record changes, and the others' stay.
LEMMA OneCall ==
  ASSUME TypeOK, NEW c \in Calls, NEW r \in CallRecords, call' = [call EXCEPT ![c] = r]
  PROVE  /\ call' \in [Calls -> CallRecords] /\ call'[c] = r
         /\ \A d \in Calls \ {c} : call'[d] = call[d]
BY DEF TypeOK

\* Calls keep what they rely on when only one of them moves, to a record that can
\* rely on it too.
LEMMA CallsFrame ==
  ASSUME SessionsInv, NEW c \in Calls, NEW r \in CallRecords, call' = [call EXCEPT ![c] = r],
         UNCHANGED <<clock, user, sessions>>,
         TokenOK(r), LockOK(c, r), PasswordOK(r)
  PROVE  CallsInv'
<1>1. call'[c] = r /\ \A d \in Calls \ {c} : call'[d] = call[d]
  BY OneCall DEF SessionsInv
<1>2. ASSUME NEW d \in Calls PROVE TokenOK(call[d])' /\ PasswordOK(call[d])'
  <2>1. TokenOK(call'[d]) /\ PasswordOK(call'[d])
    BY <1>1 DEF SessionsInv, CallsInv
  <2> QED
    BY <2>1 DEF TokenOK, PasswordOK, Live
<1>3. ASSUME NEW d \in Calls PROVE LockOK(d, call[d])'
  <2>1. LockOK(d, call'[d])
    BY <1>1 DEF SessionsInv, CallsInv
  <2>2. ASSUME call'[d].pc = "revoking" PROVE \A x \in Calls \ {d} : call'[x].pc # "revoking"
    <3>1. CASE d = c
      BY <1>1, <2>1, <2>2, <3>1 DEF LockOK
    <3>2. CASE d # c
      <4>1. call[d].pc = "revoking" /\ \A x \in Calls \ {d} : call[x].pc # "revoking"
        BY <1>1, <2>1, <2>2, <3>2 DEF LockOK
      <4>2. r.pc # "revoking"
        BY <3>2, <4>1 DEF LockOK
      <4> QED
        BY <1>1, <4>1, <4>2
    <3> QED
      BY <3>1, <3>2
  <2> QED
    BY <2>1, <2>2 DEF LockOK
<1> QED
  BY <1>2, <1>3 DEF CallsInv

\* What the rows and the user are promised holds on while both stay and no change of
\* them is audited.
LEMMA DataFrame ==
  ASSUME SessionsInv, UNCHANGED <<clock, user, sessions>>,
         \A a \in AuditActions \ {"user.login_failed"} : audit'[a] = audit[a]
  PROVE  UserInv' /\ ChainInv' /\ RotationChains' /\ LedgerInv' /\ LastLoginInv'
<1>1. UserInv'
  BY DEF SessionsInv, UserInv, Live
<1>2. ChainInv'
  BY DEF SessionsInv, ChainInv
<1>3. RotationChains'
  BY DEF SessionsInv, RotationChains, Live
<1>4. Opened' = Opened /\ Ended' = Ended
  BY DEF Opened, Ended
<1>5. LedgerInv'
  BY <1>4 DEF SessionsInv, LedgerInv, AuditActions
<1>6. LastLoginInv'
  BY <1>4 DEF SessionsInv, LastLoginInv
<1> QED
  BY <1>1, <1>2, <1>3, <1>5, <1>6

\* The types of the audit counters after one more row.
LEMMA AuditedTyped ==
  ASSUME TypeOK, NEW a \in AuditActions
  PROVE  /\ Audited(a) \in [AuditActions -> Nat]
         /\ Audited(a)[a] = audit[a] + 1
         /\ \A b \in AuditActions \ {a} : Audited(a)[b] = audit[b]
BY DEF TypeOK, Audited

\* A step that moves one call and leaves the rows and the user alone.
LEMMA QuietStep ==
  ASSUME SessionsInv, NEW c \in Calls, NEW r \in CallRecords, call' = [call EXCEPT ![c] = r],
         TokenOK(r), LockOK(c, r), PasswordOK(r),
         UNCHANGED <<clock, user, sessions>>,
         audit' = audit \/ audit' = Audited("user.login_failed"),
         counts' \in [Clients -> [failures : Nat, until : Nat]],
         failed' \in [Clients -> Seq(Failures)], begun' \in 0..MaxCalls
  PROVE  SessionsInv'
<1>1. /\ audit' \in [AuditActions -> Nat]
      /\ \A a \in AuditActions \ {"user.login_failed"} : audit'[a] = audit[a]
  <2>1. "user.login_failed" \in AuditActions /\ TypeOK
    BY DEF AuditActions, SessionsInv
  <2> QED
    BY <2>1, AuditedTyped DEF TypeOK
<1>2. TypeOK'
  <2>1. call' \in [Calls -> CallRecords]
    BY OneCall DEF SessionsInv
  <2> QED
    BY <1>1, <2>1 DEF SessionsInv, TypeOK
<1>3. CallsInv'
  BY CallsFrame
<1>4. UserInv' /\ ChainInv' /\ RotationChains' /\ LedgerInv' /\ LastLoginInv'
  BY <1>1, DataFrame
<1> QED
  BY <1>2, <1>3, <1>4 DEF SessionsInv

\* The types a quiet step starts from.
LEMMA Typed ==
  ASSUME SessionsInv
  PROVE  /\ clock \in Nat /\ TypeOK /\ call \in [Calls -> CallRecords]
         /\ counts \in [Clients -> [failures : Nat, until : Nat]]
         /\ failed \in [Clients -> Seq(Failures)] /\ sessions \in Seq(Rows)
         /\ user \in [exists : BOOLEAN, disabled : BOOLEAN, pw : Nat, changed : Nat, lastLogin : Nat]
         /\ \A c \in Calls : TokenOK(call[c]) /\ LockOK(c, call[c]) /\ PasswordOK(call[c])
<1>1. clock \in Nat
  BY Lifetimes DEF SessionsInv, TypeOK
<1> QED
  BY <1>1 DEF SessionsInv, TypeOK, CallsInv

\* A call ends, and nothing but the throttle and its audit row changed.
LEMMA EndStep ==
  ASSUME SessionsInv, NEW c \in Calls, End(c),
         UNCHANGED <<clock, user, sessions>>,
         audit' = audit \/ audit' = Audited("user.login_failed"),
         counts' \in [Clients -> [failures : Nat, until : Nat]],
         failed' \in [Clients -> Seq(Failures)], begun' \in 0..MaxCalls
  PROVE  SessionsInv'
<1> DEFINE r == Call("idle")
<1>1. r \in CallRecords /\ r.pc = "idle" /\ TokenOK(r)
  BY IdleCall
<1>2. call' = [call EXCEPT ![c] = r]
  BY DEF End
<1> HIDE DEF r
<1>3. LockOK(c, r) /\ PasswordOK(r)
  BY <1>1 DEF LockOK, PasswordOK
<1> QED
  BY <1>1, <1>2, <1>3, QuietStep

(***************************************************************************)
(* Calls that change no row, action by action.                             *)
(***************************************************************************)

\* Any call may fail.
LEMMA FailStep ==
  ASSUME SessionsInv, NEW c \in Calls, Fail(c), begun' \in 0..MaxCalls
  PROVE  SessionsInv'
BY Typed, EndStep DEF Fail

\* Disable starts, or finds nobody to disable.
LEMMA DisableStep ==
  ASSUME SessionsInv, NEW c \in Calls, Disable(c), begun' \in 0..MaxCalls
  PROVE  SessionsInv'
<1> DEFINE r == [Call("disabling") EXCEPT !.op = "disable"]
<1>1. CASE ~user.exists \/ user.disabled
  BY <1>1, Typed, EndStep DEF Disable
<1>2. CASE user.exists /\ ~user.disabled
  <2>1. r \in CallRecords /\ r.pc = "disabling" /\ r.op = "disable" /\ r.now = 0 /\ r.access = 0
    BY DEF Call, CallRecords, Phases
  <2>2. call' = [call EXCEPT ![c] = r]
    BY <1>2 DEF Disable
  <2> HIDE DEF r
  <2>3. 0 <= clock
    BY Typed
  <2>4. TokenOK(r) /\ LockOK(c, r) /\ PasswordOK(r)
    BY <1>2, <2>1, <2>3 DEF TokenOK, LockOK, PasswordOK
  <2> QED
    BY <2>1, <2>2, <2>4, Typed, QuietStep DEF Disable
<1> QED
  BY <1>1, <1>2, Typed

\* SetPassword starts: every session there is was opened before its time.
LEMMA SetPasswordStep ==
  ASSUME SessionsInv, NEW c \in Calls, SetPassword(c), begun' \in 0..MaxCalls
  PROVE  SessionsInv'
<1> DEFINE r == [Call("setting") EXCEPT !.op = "password", !.now = clock]
<1>1. CASE ~user.exists
  BY <1>1, Typed, EndStep DEF SetPassword
<1>2. CASE user.exists
  <2>1. /\ r \in CallRecords /\ r.pc = "setting" /\ r.op = "password" /\ r.now = clock
        /\ r.access = 0
    BY Typed DEF Call, CallRecords, Phases
  <2>2. call' = [call EXCEPT ![c] = r]
    BY <1>2 DEF SetPassword
  <2> HIDE DEF r
  <2>3. 0 <= clock /\ clock <= clock
    BY Typed
  <2>4. TokenOK(r) /\ LockOK(c, r)
    BY <1>2, <2>1, <2>3 DEF TokenOK, LockOK
  <2>5. PasswordOK(r)
    BY <2>1 DEF PasswordOK, SessionsInv, ChainInv
  <2> QED
    BY <2>1, <2>2, <2>4, <2>5, Typed, QuietStep DEF SetPassword
<1> QED
  BY <1>1, <1>2

\* The update of the user's row takes the lock, and its snapshot.
LEMMA UpdateUserStep ==
  ASSUME SessionsInv, NEW c \in Calls, UpdateUser(c), begun' \in 0..MaxCalls
  PROVE  SessionsInv'
<1> DEFINE saw == {t \in DOMAIN sessions : Live(t)}
           r == [call[c] EXCEPT !.pc = "revoking", !.cut = saw]
<1>1. CASE call[c].op = "disable" /\ user.disabled
  BY <1>1, Typed, EndStep DEF UpdateUser
<1>2. CASE ~(call[c].op = "disable" /\ user.disabled)
  <2>1. call[c] \in CallRecords /\ saw \in SUBSET Nat
    BY Typed, LenProperties
  <2>2. /\ r \in CallRecords /\ r.pc = "revoking" /\ r.op = call[c].op /\ r.now = call[c].now
        /\ r.access = call[c].access /\ r.cut = saw
    BY <2>1 DEF CallRecords, Phases
  <2>3. call' = [call EXCEPT ![c] = r]
    BY <1>2, Typed DEF UpdateUser
  <2> HIDE DEF r
  <2>4. TokenOK(r)
    BY <2>2, Typed DEF UpdateUser, TokenOK
  <2>5. LockOK(c, r)
    BY <1>2, <2>2, Typed DEF UpdateUser, UserLocked, LockOK
  <2>6. PasswordOK(r)
    <3>1. r.op = "password" => \A t \in DOMAIN sessions : ~sessions[t].raced => sessions[t].access <= r.now
      BY <2>2, Typed DEF UpdateUser, PasswordOK, LockOK
    <3> QED
      BY <2>2, <3>1 DEF PasswordOK
  <2> QED
    BY <2>2, <2>3, <2>4, <2>5, <2>6, Typed, QuietStep DEF UpdateUser
<1> QED
  BY <1>1, <1>2

\* A login starts, unless its key is blocked.
LEMMA LoginStep ==
  ASSUME SessionsInv, NEW c \in Calls, NEW key \in Clients, NEW pw \in 0..user.pw,
         Login(c, key, pw), begun' \in 0..MaxCalls
  PROVE  SessionsInv'
<1> DEFINE r == [Call("looking") EXCEPT !.now = clock, !.key = key, !.pw = pw]
<1>1. CASE blocked(key, clock)
  BY <1>1, Typed, EndStep DEF Login
<1>2. CASE ~blocked(key, clock)
  <2>1. pw \in Nat
    BY Typed
  <2>2. r \in CallRecords /\ r.pc = "looking" /\ r.now = clock /\ r.access = 0
    BY <2>1, Typed DEF Call, CallRecords, Phases
  <2>3. call' = [call EXCEPT ![c] = r]
    BY <1>2 DEF Login
  <2> HIDE DEF r
  <2>4. 0 <= clock /\ clock <= clock
    BY Typed
  <2>5. TokenOK(r) /\ LockOK(c, r) /\ PasswordOK(r)
    BY <2>2, <2>4 DEF TokenOK, LockOK, PasswordOK
  <2> QED
    BY <1>2, <2>2, <2>3, <2>5, Typed, QuietStep DEF Login
<1> QED
  BY <1>1, <1>2

\* One entry of a table changes.
LEMMA EntryTyped ==
  ASSUME NEW S, NEW f \in [Clients -> S], NEW k, NEW v, k \in Clients => v \in S
  PROVE  [f EXCEPT ![k] = v] \in [Clients -> S]
OBVIOUS

\* A refused login is counted and audited.
LEMMA RefuseStep ==
  ASSUME SessionsInv, NEW c \in Calls, RefuseLogin(c), begun' \in 0..MaxCalls
  PROVE  SessionsInv'
<1> DEFINE key == call[c].key
           now == call[c].now
           x == [at |-> now, counted |-> clock]
<1>1. now \in Nat
  BY Typed DEF CallRecords
<1>2. ASSUME NEW w \in [failures : Nat, until : Nat]
      PROVE  Counted(w, now) \in [failures : Nat, until : Nat]
  BY <1>1, Lifetimes DEF Counted
<1>5. x \in Failures
  BY <1>1, Typed DEF Failures
<1>3. /\ counts' = [counts EXCEPT ![key] = Counted(@, now)]
      /\ failed' = [failed EXCEPT ![key] = Append(@, x)]
  BY DEF RefuseLogin, fail
<1> HIDE DEF key, now, x
<1>4. counts' \in [Clients -> [failures : Nat, until : Nat]] /\ failed' \in [Clients -> Seq(Failures)]
  <2>1. /\ counts \in [Clients -> [failures : Nat, until : Nat]] /\ failed \in [Clients -> Seq(Failures)]
        /\ counts' = [counts EXCEPT ![key] = Counted(counts[key], now)]
        /\ failed' = [failed EXCEPT ![key] = Append(failed[key], x)]
    BY <1>3, Typed
  <2>2. key \in Clients => /\ Counted(counts[key], now) \in [failures : Nat, until : Nat]
                           /\ Append(failed[key], x) \in Seq(Failures)
    BY <1>2, <1>5, <2>1
  <2>3. counts' \in [Clients -> [failures : Nat, until : Nat]]
    BY <2>1, <2>2, EntryTyped
  <2>4. failed' \in [Clients -> Seq(Failures)]
    BY <2>1, <2>2, EntryTyped
  <2> QED
    BY <2>3, <2>4
<1> QED
  BY <1>4, EndStep DEF RefuseLogin

\* The user is looked up for a login.
LEMMA LookUpStep ==
  ASSUME SessionsInv, NEW c \in Calls, AdminUserForLogin(c), begun' \in 0..MaxCalls
  PROVE  SessionsInv'
<1> DEFINE r == [call[c] EXCEPT !.pc = "verifying", !.hash = user.pw,
                                !.off = ~user.exists \/ user.disabled]
<1>1. call[c] \in CallRecords /\ user.pw \in Nat /\ (~user.exists \/ user.disabled) \in BOOLEAN
  BY Typed
<1>2. /\ r \in CallRecords /\ r.pc = "verifying" /\ r.now = call[c].now
      /\ r.access = call[c].access /\ r.off = (~user.exists \/ user.disabled)
  BY <1>1 DEF CallRecords, Phases
<1>3. call' = [call EXCEPT ![c] = r]
  BY Typed DEF AdminUserForLogin
<1> HIDE DEF r
<1>4. TokenOK(r)
  BY <1>2, Typed DEF TokenOK
<1>5. LockOK(c, r) /\ PasswordOK(r)
  BY <1>2 DEF LockOK, PasswordOK
<1> QED
  BY <1>2, <1>3, <1>4, <1>5, Typed, QuietStep DEF AdminUserForLogin

\* A login succeeds: the person exists, and the throttle forgets the key.
LEMMA VerifiedStep ==
  ASSUME SessionsInv, NEW c \in Calls, LoginVerified(c), begun' \in 0..MaxCalls
  PROVE  SessionsInv'
<1> DEFINE r == [call[c] EXCEPT !.pc = "starting", !.access = clock]
           key == call[c].key
<1>1. call[c] \in CallRecords /\ clock \in Nat
  BY Typed
<1>2. r \in CallRecords /\ r.pc = "starting" /\ r.now = call[c].now /\ r.access = clock
  BY <1>1 DEF CallRecords, Phases
<1>3. call' = [call EXCEPT ![c] = r]
  BY Typed DEF LoginVerified
<1>4. /\ counts' = [counts EXCEPT ![key] = NoWindow]
      /\ failed' = [failed EXCEPT ![key] = <<>>]
  BY DEF LoginVerified, succeed
<1> HIDE DEF r, key
<1>5. counts' \in [Clients -> [failures : Nat, until : Nat]] /\ failed' \in [Clients -> Seq(Failures)]
  <2>1. NoWindow \in [failures : Nat, until : Nat]
    BY DEF NoWindow
  <2>2. <<>> \in Seq(Failures)
    OBVIOUS
  <2>3. counts' \in [Clients -> [failures : Nat, until : Nat]]
    BY <1>4, <2>1, Typed, EntryTyped
  <2>4. failed' \in [Clients -> Seq(Failures)]
    BY <1>4, <2>2, Typed, EntryTyped
  <2> QED
    BY <2>3, <2>4
<1>6. TokenOK(r)
  <2>1. clock <= clock /\ user.exists
    BY <1>1, Typed DEF LoginVerified, TokenOK
  <2> QED
    BY <1>2, <2>1, Typed DEF TokenOK
<1>7. LockOK(c, r) /\ PasswordOK(r)
  BY <1>2 DEF LockOK, PasswordOK
<1> QED
  BY <1>2, <1>3, <1>5, <1>6, <1>7, QuietStep DEF LoginVerified

\* A refresh starts, with a token of a row inserted by now.
LEMMA RefreshStep ==
  ASSUME SessionsInv, NEW c \in Calls, NEW t \in DOMAIN sessions, Refresh(c, t),
         begun' \in 0..MaxCalls
  PROVE  SessionsInv'
<1> DEFINE r == [Call("refreshing") EXCEPT !.now = clock, !.token = t]
<1>1. t \in Nat /\ clock \in Nat
  BY Typed, LenProperties
<1>2. /\ r \in CallRecords /\ r.pc = "refreshing" /\ r.now = clock /\ r.access = 0
      /\ r.token = t
  BY <1>1 DEF Call, CallRecords, Phases
<1>3. call' = [call EXCEPT ![c] = r]
  BY DEF Refresh
<1> HIDE DEF r
<1>4. TokenOK(r)
  <2>1. 0 <= clock /\ clock <= clock
    BY <1>1
  <2>2. sessions[t].expires <= clock + RefreshTTL
    BY DEF SessionsInv, ChainInv
  <2> QED
    BY <1>2, <2>1, <2>2 DEF TokenOK
<1>5. LockOK(c, r) /\ PasswordOK(r)
  BY <1>2 DEF LockOK, PasswordOK
<1> QED
  BY <1>2, <1>3, <1>4, <1>5, Typed, QuietStep DEF Refresh

\* A call moves to a phase that relies on no more than it did.
LEMMA GotoStep ==
  ASSUME SessionsInv, NEW c \in Calls, Goto(c, "reusing"),
         UNCHANGED <<clock, user, sessions, audit, counts, failed>>, begun' \in 0..MaxCalls
  PROVE  SessionsInv'
<1> DEFINE r == [call[c] EXCEPT !.pc = "reusing"]
<1>1. call[c] \in CallRecords
  BY Typed
<1>2. r \in CallRecords /\ r.pc = "reusing" /\ r.now = call[c].now /\ r.access = call[c].access
  BY <1>1 DEF CallRecords, Phases
<1>3. call' = [call EXCEPT ![c] = r]
  BY Typed DEF Goto
<1> HIDE DEF r
<1>4. TokenOK(r) /\ LockOK(c, r) /\ PasswordOK(r)
  BY <1>2, Typed DEF TokenOK, LockOK, PasswordOK
<1> QED
  BY <1>2, <1>3, <1>4, Typed, QuietStep

\* The look-up of a refresh decides.
LEMMA RefreshLookupStep ==
  ASSUME SessionsInv, NEW c \in Calls, RefreshLookup(c), begun' \in 0..MaxCalls
  PROVE  SessionsInv'
<1> DEFINE r == [call[c] EXCEPT !.pc = "rotating", !.access = clock]
<1>1. CASE Goto(c, "reusing")
  BY <1>1, GotoStep DEF RefreshLookup
<1>2. CASE End(c)
  BY <1>2, Typed, EndStep DEF RefreshLookup
<1>3. CASE call' = [call EXCEPT ![c].pc = "rotating", ![c].access = clock]
  <2>1. call[c] \in CallRecords /\ clock \in Nat
    BY Typed
  <2>2. /\ r \in CallRecords /\ r.pc = "rotating" /\ r.now = call[c].now /\ r.access = clock
        /\ r.token = call[c].token
    BY <2>1 DEF CallRecords, Phases
  <2>3. call' = [call EXCEPT ![c] = r]
    BY <1>3, Typed
  <2> HIDE DEF r
  <2>4. TokenOK(r)
    <3>1. clock <= clock
      BY <2>1
    <3> QED
      BY <2>2, <3>1, Typed DEF RefreshLookup, TokenOK
  <2>5. LockOK(c, r) /\ PasswordOK(r)
    BY <2>2 DEF LockOK, PasswordOK
  <2> QED
    BY <2>2, <2>3, <2>4, <2>5, Typed, QuietStep DEF RefreshLookup
<1> QED
  BY <1>1, <1>2, <1>3 DEF RefreshLookup

\* The reuse of a token is noticed, and the sessions to cut are fixed.
LEMMA ReuseStep ==
  ASSUME SessionsInv, NEW c \in Calls, auditSessionReuse(c), begun' \in 0..MaxCalls
  PROVE  SessionsInv'
<1> DEFINE saw == {t \in DOMAIN sessions : Live(t)}
           r == [call[c] EXCEPT !.pc = "cutting", !.cut = saw]
<1>1. call[c] \in CallRecords /\ saw \in SUBSET Nat
  BY Typed, LenProperties
<1>2. r \in CallRecords /\ r.pc = "cutting" /\ r.now = call[c].now /\ r.access = call[c].access
  BY <1>1 DEF CallRecords, Phases
<1>3. call' = [call EXCEPT ![c] = r]
  BY Typed DEF auditSessionReuse
<1> HIDE DEF r
<1>4. TokenOK(r) /\ LockOK(c, r) /\ PasswordOK(r)
  BY <1>2, Typed DEF TokenOK, LockOK, PasswordOK
<1> QED
  BY <1>2, <1>3, <1>4, Typed, QuietStep DEF auditSessionReuse

\* A logout starts, unless its row is gone.
LEMMA LogoutStep ==
  ASSUME SessionsInv, NEW c \in Calls, NEW t \in DOMAIN sessions, Logout(c, t),
         begun' \in 0..MaxCalls
  PROVE  SessionsInv'
<1> DEFINE r == [Call("ending") EXCEPT !.token = t]
<1>1. CASE End(c)
  BY <1>1, Typed, EndStep DEF Logout
<1>2. CASE call' = [call EXCEPT ![c] = r]
  <2>1. t \in Nat /\ 0 <= clock
    BY Typed, LenProperties
  <2>2. r \in CallRecords /\ r.pc = "ending" /\ r.now = 0 /\ r.access = 0 /\ r.token = t
    BY <2>1 DEF Call, CallRecords, Phases
  <2> HIDE DEF r
  <2>3. TokenOK(r) /\ LockOK(c, r) /\ PasswordOK(r)
    BY <2>1, <2>2 DEF TokenOK, LockOK, PasswordOK
  <2> QED
    BY <1>2, <2>2, <2>3, Typed, QuietStep DEF Logout
<1> QED
  BY <1>1, <1>2 DEF Logout

(***************************************************************************)
(* The clock and the account.                                              *)
(***************************************************************************)

\* A row of the table is a row.
LEMMA RowTyped ==
  ASSUME SessionsInv, NEW t \in DOMAIN sessions
  PROVE  t \in 1..Len(sessions) /\ t \in Nat /\ sessions[t] \in Rows
<1>1. sessions \in Seq(Rows)
  BY Typed
<1>2. DOMAIN sessions = 1..Len(sessions) /\ Len(sessions) \in Nat
  BY <1>1, LenProperties
<1>3. t \in 1..Len(sessions)
  BY <1>2
<1>4. sessions[t] \in Rows
  BY <1>1, <1>3, ElementOfSeq
<1> QED
  BY <1>2, <1>3, <1>4

\* Time passes.
LEMMA AdvanceStep ==
  ASSUME SessionsInv, Advance
  PROVE  SessionsInv'
<1>1. clock \in Nat /\ clock' = clock + 1 /\ clock' <= MaxClock /\ MaxClock \in Nat
  BY Typed, Lifetimes DEF Advance
<1>2. UNCHANGED <<user, sessions, audit, counts, failed, begun, call>>
  BY DEF Advance
<1>3. TypeOK'
  <2>1. clock' \in 0..MaxClock
    BY <1>1
  <2> QED
    BY <1>2, <2>1 DEF SessionsInv, TypeOK
<1>4. CallsInv'
  <2> SUFFICES ASSUME NEW c \in Calls PROVE (TokenOK(call[c]) /\ LockOK(c, call[c]) /\ PasswordOK(call[c]))'
    BY DEF CallsInv
  <2>1. TokenOK(call[c]) /\ LockOK(c, call[c]) /\ PasswordOK(call[c])
    BY Typed
  <2>2. call[c].now \in Nat /\ call[c].access \in Nat
    BY Typed DEF CallRecords
  <2>3. call[c].now <= clock' /\ call[c].access <= clock'
    BY <1>1, <2>1, <2>2 DEF TokenOK
  <2>4. TokenOK(call[c])'
    BY <1>2, <2>1, <2>3 DEF TokenOK
  <2>5. LockOK(c, call[c])' /\ PasswordOK(call[c])'
    BY <1>2, <2>1 DEF LockOK, PasswordOK, Live
  <2> QED
    BY <2>4, <2>5
<1>5. UserInv' /\ RotationChains'
  BY <1>2 DEF SessionsInv, UserInv, RotationChains, Live
<1>6. ChainInv'
  <2> SUFFICES ASSUME NEW t \in DOMAIN sessions
               PROVE  sessions[t].expires <= clock' + RefreshTTL /\ sessions[t].access <= clock'
    BY <1>2 DEF SessionsInv, ChainInv
  <2>1. sessions[t].expires \in Nat /\ sessions[t].access \in Nat
    BY RowTyped DEF Rows
  <2>2. sessions[t].expires <= clock + RefreshTTL /\ sessions[t].access <= clock
    BY DEF SessionsInv, ChainInv
  <2> QED
    BY <1>1, <2>1, <2>2, Lifetimes
<1>7. Opened' = Opened /\ Ended' = Ended
  BY <1>2 DEF Opened, Ended
<1>8. LedgerInv' /\ LastLoginInv'
  BY <1>2, <1>7 DEF SessionsInv, LedgerInv, LastLoginInv
<1> QED
  BY <1>3, <1>4, <1>5, <1>6, <1>8 DEF SessionsInv

\* A password change under way.
Changing(r) == r.pc = "setting" \/ (r.pc = "revoking" /\ r.op = "password")

\* One call ends; the others keep what they rely on if rows only lose their liveness,
\* and a row inserted under a password change is marked as having raced it.
LEMMA CallsKept ==
  ASSUME SessionsInv, NEW c \in Calls, End(c), UNCHANGED clock,
         user.exists => user'.exists,
         \A d \in Calls \ {c} : call[d].pc = "revoking" => user'.disabled = user.disabled,
         DOMAIN sessions \subseteq DOMAIN sessions',
         \A t \in DOMAIN sessions :
           /\ sessions'[t].expires = sessions[t].expires /\ sessions'[t].access = sessions[t].access
           /\ sessions'[t].raced = sessions[t].raced /\ (Live(t)' => Live(t)),
         \A t \in DOMAIN sessions' \ DOMAIN sessions :
           sessions'[t].raced \/ \A d \in Calls \ {c} : ~Changing(call[d])
  PROVE  CallsInv' /\ call' \in [Calls -> CallRecords]
<1> DEFINE r == Call("idle")
<1>1. r \in CallRecords /\ r.pc = "idle" /\ TokenOK(r)
  BY IdleCall
<1>2. call' = [call EXCEPT ![c] = r]
  BY DEF End
<1> HIDE DEF r
<1>3. call' \in [Calls -> CallRecords] /\ call'[c] = r /\ \A d \in Calls \ {c} : call'[d] = call[d]
  BY <1>1, <1>2, OneCall, Typed
<1>4. (TokenOK(call[c]) /\ LockOK(c, call[c]) /\ PasswordOK(call[c]))'
  <2>1. TokenOK(call[c])'
    BY <1>1, <1>3 DEF TokenOK
  <2> QED
    BY <1>1, <1>3, <2>1 DEF LockOK, PasswordOK
<1>5. ASSUME NEW d \in Calls \ {c} PROVE (TokenOK(call[d]) /\ LockOK(d, call[d]) /\ PasswordOK(call[d]))'
  <2>1. call'[d] = call[d] /\ TokenOK(call[d]) /\ LockOK(d, call[d]) /\ PasswordOK(call[d])
    BY <1>3, Typed
  <2>2. TokenOK(call[d])'
    BY <2>1 DEF TokenOK
  <2>3. LockOK(d, call[d])'
    <3>1. call'[d].pc = "revoking" => \A x \in Calls \ {d} : call'[x].pc # "revoking"
      BY <1>1, <1>3, <2>1 DEF LockOK
    <3> QED
      BY <2>1, <3>1 DEF LockOK
  <2>4. PasswordOK(call[d])'
    <3> SUFFICES ASSUME call[d].pc \in {"setting", "revoking"}, call[d].op = "password",
                        NEW t \in DOMAIN sessions', ~sessions'[t].raced
                 PROVE  /\ sessions'[t].access <= call[d].now
                        /\ call[d].pc = "revoking" /\ Live(t)' => t \in call[d].cut
      BY <2>1 DEF PasswordOK
    <3>1. Changing(call[d])
      BY DEF Changing
    <3>2. t \in DOMAIN sessions
      BY <3>1
    <3> QED
      BY <2>1, <3>2 DEF PasswordOK
  <2> QED
    BY <2>2, <2>3, <2>4
<1> QED
  BY <1>3, <1>4, <1>5 DEF CallsInv

\* The account is made.
LEMMA CreateStep ==
  ASSUME SessionsInv, NEW c \in Calls, Create(c), begun' \in 0..MaxCalls
  PROVE  SessionsInv'
<1>1. CASE user.exists
  BY <1>1, Typed, EndStep DEF Create
<1>2. CASE ~user.exists
  <2>1. /\ user' = [user EXCEPT !.exists = TRUE, !.pw = 1, !.changed = clock]
        /\ audit' = Audited("user.create") /\ End(c)
        /\ UNCHANGED <<clock, sessions, counts, failed>>
    BY <1>2 DEF Create
  <2>2. /\ user'.exists = TRUE /\ user'.pw = 1 /\ user'.changed = clock
        /\ user'.disabled = user.disabled /\ user'.lastLogin = user.lastLogin
        /\ user' \in [exists : BOOLEAN, disabled : BOOLEAN, pw : Nat, changed : Nat, lastLogin : Nat]
    BY <2>1, Typed
  <2>3. sessions = <<>> /\ ~user.disabled /\ user.pw = 0 /\ user.lastLogin = 0
    BY <1>2 DEF SessionsInv, UserInv
  <2>4. DOMAIN sessions = {} /\ DOMAIN sessions' = {}
    BY <2>1, <2>3
  <2>5. /\ audit' \in [AuditActions -> Nat]
        /\ audit'["user.create"] = audit["user.create"] + 1
        /\ \A b \in AuditActions \ {"user.create"} : audit'[b] = audit[b]
    BY <2>1, Typed, AuditedTyped DEF AuditActions
  <2>6. CallsInv' /\ call' \in [Calls -> CallRecords]
    BY <2>1, <2>2, <2>4, CallsKept
  <2>7. TypeOK'
    BY <2>1, <2>2, <2>5, <2>6 DEF SessionsInv, TypeOK
  <2>8. UserInv' /\ ChainInv' /\ RotationChains'
    BY <2>2, <2>4 DEF UserInv, ChainInv, RotationChains
  <2>9. Opened' = Opened /\ Ended' = Ended /\ Opened = {}
    BY <2>4 DEF Opened, Ended
  <2>10. LedgerInv'
    <3>1. audit["user.create"] = 0 /\ audit["user.password_change"] = 0
      BY <1>2 DEF SessionsInv, LedgerInv
    <3>2. audit'["user.create"] = 1 /\ audit'["user.password_change"] + 1 = 1
      BY <2>5, <3>1 DEF AuditActions
    <3> QED
      BY <2>2, <2>3, <2>5, <2>9, <3>2 DEF SessionsInv, LedgerInv, AuditActions
  <2>11. LastLoginInv'
    BY <2>2, <2>3, <2>9 DEF LastLoginInv
  <2> QED
    BY <2>6, <2>7, <2>8, <2>10, <2>11 DEF SessionsInv
<1> QED
  BY <1>1, <1>2

(***************************************************************************)
(* Rows that stop being live.                                              *)
(***************************************************************************)

\* Row t keeps all but its state, and all it can do is stop being live.
RowKept(t) ==
  /\ sessions'[t].expires = sessions[t].expires /\ sessions'[t].next = sessions[t].next
  /\ sessions'[t].gone = sessions[t].gone /\ sessions'[t].login = sessions[t].login
  /\ sessions'[t].pw = sessions[t].pw /\ sessions'[t].raced = sessions[t].raced
  /\ sessions'[t].access = sessions[t].access
  /\ \/ sessions'[t].state = sessions[t].state
     \/ sessions[t].state = "live" /\ sessions'[t].state \in {"cut", "ended"}

RowsKept ==
  /\ sessions' \in Seq(Rows) /\ DOMAIN sessions' = DOMAIN sessions
  /\ \A t \in DOMAIN sessions : RowKept(t)

\* A table of rows whose domain is an interval is a sequence of rows.
LEMMA RowsSeq ==
  ASSUME NEW n \in Nat, NEW f \in [1..n -> Rows]
  PROVE  f \in Seq(Rows) /\ Len(f) = n /\ DOMAIN f = 1..n
BY SeqDef, LenProperties

\* RevokeAdminUserRefreshTokens changes the state of rows that were live, and of no other.
LEMMA CutRows ==
  ASSUME SessionsInv, NEW saw, sessions' = Cut(saw)
  PROVE  /\ RowsKept /\ Ended' = Ended
         /\ \A t \in DOMAIN sessions : t \in saw => ~Live(t)'
<1>1. sessions \in Seq(Rows) /\ DOMAIN sessions = 1..Len(sessions) /\ Len(sessions) \in Nat
  BY Typed, LenProperties
<1>2. ASSUME NEW r \in Rows
      PROVE  /\ [r EXCEPT !.state = "cut"] \in Rows
             /\ [r EXCEPT !.state = "cut"].state = "cut"
             /\ [r EXCEPT !.state = "cut"].expires = r.expires /\ [r EXCEPT !.state = "cut"].next = r.next
             /\ [r EXCEPT !.state = "cut"].gone = r.gone /\ [r EXCEPT !.state = "cut"].login = r.login
             /\ [r EXCEPT !.state = "cut"].pw = r.pw /\ [r EXCEPT !.state = "cut"].raced = r.raced
             /\ [r EXCEPT !.state = "cut"].access = r.access
  BY DEF Rows
<1>3. /\ DOMAIN sessions' = DOMAIN sessions
      /\ \A t \in DOMAIN sessions :
           sessions'[t] = IF t \in saw /\ Live(t) THEN [sessions[t] EXCEPT !.state = "cut"] ELSE sessions[t]
  BY DEF Cut
<1>4. sessions' \in [1..Len(sessions) -> Rows]
  <2>1. \A t \in 1..Len(sessions) : sessions'[t] \in Rows
    BY <1>1, <1>2, <1>3, RowTyped
  <2>2. sessions' = [t \in 1..Len(sessions) |->
          IF t \in saw /\ Live(t) THEN [sessions[t] EXCEPT !.state = "cut"] ELSE sessions[t]]
    BY <1>1 DEF Cut
  <2> QED
    BY <2>1, <2>2
<1>5. ASSUME NEW t \in DOMAIN sessions PROVE RowKept(t) /\ (t \in saw => ~Live(t)')
  <2>1. CASE t \in saw /\ Live(t)
    <3>1. sessions'[t] = [sessions[t] EXCEPT !.state = "cut"]
      BY <1>3, <2>1
    <3> QED
      BY <1>2, <2>1, <3>1, RowTyped DEF RowKept, Live
  <2>2. CASE ~(t \in saw /\ Live(t))
    <3>1. sessions'[t] = sessions[t]
      BY <1>3, <2>2
    <3> QED
      BY <2>2, <3>1 DEF RowKept, Live
  <2> QED
    BY <2>1, <2>2
<1>6. ASSUME NEW t \in DOMAIN sessions PROVE sessions'[t].state = "ended" <=> sessions[t].state = "ended"
  <2>1. CASE t \in saw /\ Live(t)
    BY <1>2, <1>3, <2>1, RowTyped DEF Live
  <2>2. CASE ~(t \in saw /\ Live(t))
    BY <1>3, <2>2
  <2> QED
    BY <2>1, <2>2
<1>7. Ended' = Ended
  BY <1>3, <1>6 DEF Ended
<1> QED
  BY <1>1, <1>3, <1>4, <1>5, <1>7, RowsSeq DEF RowsKept

\* Rows that only stop being live stay chained, and leave what was opened.
LEMMA RowsKeptStep ==
  ASSUME SessionsInv, RowsKept, UNCHANGED clock
  PROVE  /\ ChainInv' /\ RotationChains' /\ Opened' = Opened
         /\ \A t \in DOMAIN sessions : Live(t)' => Live(t)
<1>1. ASSUME NEW t \in DOMAIN sessions PROVE Live(t)' => Live(t)
  BY DEF RowsKept, RowKept, Live
<1>2. ChainInv'
  <2> SUFFICES ASSUME NEW t \in DOMAIN sessions
               PROVE  /\ sessions'[t].state = "rotated" <=> sessions'[t].next # 0
                      /\ sessions'[t].next # 0 =>
                           /\ sessions'[t].next \in DOMAIN sessions
                           /\ sessions'[t].expires <= sessions'[sessions'[t].next].expires
                      /\ sessions'[t].login \in 1..t
                      /\ sessions'[t].expires <= clock + RefreshTTL
                      /\ sessions'[t].access <= clock
    BY DEF ChainInv, RowsKept
  <2>1. /\ sessions[t].state = "rotated" <=> sessions[t].next # 0
        /\ sessions[t].next # 0 =>
             /\ sessions[t].next \in DOMAIN sessions
             /\ sessions[t].expires <= sessions[sessions[t].next].expires
        /\ sessions[t].login \in 1..t
        /\ sessions[t].expires <= clock + RefreshTTL
        /\ sessions[t].access <= clock
    BY DEF SessionsInv, ChainInv
  <2>2. RowKept(t) /\ (sessions[t].next # 0 => RowKept(sessions[t].next))
    BY <2>1 DEF RowsKept
  <2> QED
    BY <2>1, <2>2 DEF RowKept
<1>3. RotationChains'
  <2> SUFFICES ASSUME NEW s \in DOMAIN sessions, NEW t \in DOMAIN sessions
               PROVE  /\ sessions'[s].login = sessions'[t].login /\ Live(s)' /\ Live(t)' => s = t
                      /\ sessions'[s].next = sessions'[t].next /\ sessions'[s].next # 0 => s = t
                      /\ sessions'[s].next = t /\ ~sessions'[s].gone => ~sessions'[t].gone
    BY DEF RotationChains, RowsKept
  <2>1. RowKept(s) /\ RowKept(t)
    BY DEF RowsKept
  <2> QED
    BY <1>1, <2>1 DEF SessionsInv, RotationChains, RowKept
<1>4. Opened' = Opened
  BY DEF Opened, RowsKept, RowKept
<1> QED
  BY <1>1, <1>2, <1>3, <1>4

\* A call that only ends sessions and changes at most the user's password or disabled
\* keeps everything but what the audit log and the passwords are promised.
LEMMA EndsSessions ==
  ASSUME SessionsInv, NEW c \in Calls, End(c), RowsKept, UNCHANGED <<clock, counts, failed>>,
         user' \in [exists : BOOLEAN, disabled : BOOLEAN, pw : Nat, changed : Nat, lastLogin : Nat],
         user'.exists = user.exists, user'.lastLogin = user.lastLogin,
         \A d \in Calls \ {c} : call[d].pc = "revoking" => user'.disabled = user.disabled,
         audit' \in [AuditActions -> Nat], begun' \in 0..MaxCalls,
         UserInv', LedgerInv'
  PROVE  SessionsInv'
<1>1. /\ ChainInv' /\ RotationChains' /\ Opened' = Opened
      /\ \A t \in DOMAIN sessions : Live(t)' => Live(t)
  BY RowsKeptStep
<1>2. CallsInv' /\ call' \in [Calls -> CallRecords]
  <2>1. DOMAIN sessions \subseteq DOMAIN sessions' /\ DOMAIN sessions' \ DOMAIN sessions = {}
    BY DEF RowsKept
  <2>2. \A t \in DOMAIN sessions :
          /\ sessions'[t].expires = sessions[t].expires /\ sessions'[t].access = sessions[t].access
          /\ sessions'[t].raced = sessions[t].raced /\ (Live(t)' => Live(t))
    BY <1>1 DEF RowsKept, RowKept
  <2> QED
    BY <2>1, <2>2, CallsKept
<1>3. TypeOK'
  BY <1>2 DEF SessionsInv, TypeOK, RowsKept
<1>4. LastLoginInv'
  <2>1. \A t \in Opened : sessions'[t].expires = sessions[t].expires
    BY DEF Opened, RowsKept, RowKept
  <2> QED
    BY <1>1, <2>1 DEF SessionsInv, LastLoginInv
<1> QED
  BY <1>1, <1>2, <1>3, <1>4 DEF SessionsInv

\* The person is disabled, once, and the sessions the statement saw are cut.
LEMMA DisableAdminUserStep ==
  ASSUME SessionsInv, NEW c \in Calls, DisableAdminUser(c), begun' \in 0..MaxCalls
  PROVE  SessionsInv'
<1>1. /\ user' = [user EXCEPT !.disabled = TRUE] /\ sessions' = Cut(call[c].cut)
      /\ audit' = Audited("user.disable") /\ End(c) /\ UNCHANGED <<clock, counts, failed>>
  BY DEF DisableAdminUser
<1>2. /\ user' \in [exists : BOOLEAN, disabled : BOOLEAN, pw : Nat, changed : Nat, lastLogin : Nat]
      /\ user'.exists = user.exists /\ user'.lastLogin = user.lastLogin /\ user'.pw = user.pw
      /\ user'.changed = user.changed /\ user'.disabled = TRUE
  BY <1>1, Typed
<1>3. RowsKept /\ Ended' = Ended
  BY <1>1, CutRows
<1>4. Opened' = Opened /\ \A t \in DOMAIN sessions : Live(t)' => Live(t)
  BY <1>1, <1>3, RowsKeptStep
<1>5. /\ audit' \in [AuditActions -> Nat]
      /\ audit'["user.disable"] = audit["user.disable"] + 1
      /\ \A b \in AuditActions \ {"user.disable"} : audit'[b] = audit[b]
  BY <1>1, Typed, AuditedTyped DEF AuditActions
<1>6. user.exists /\ ~user.disabled /\ \A d \in Calls \ {c} : call[d].pc # "revoking"
  BY Typed DEF DisableAdminUser, TokenOK, LockOK
<1>7. UserInv'
  <2>1. user.pw > 0
    BY <1>6 DEF SessionsInv, UserInv
  <2>2. ASSUME NEW t \in DOMAIN sessions', ~sessions'[t].raced, sessions'[t].pw # user'.pw
        PROVE  ~Live(t)' /\ sessions'[t].access <= user'.changed
    BY <1>2, <1>3, <1>4, <2>2 DEF SessionsInv, UserInv, RowsKept, RowKept
  <2> QED
    BY <1>2, <1>6, <2>1, <2>2 DEF UserInv
<1>8. LedgerInv'
  <2>1. audit["user.disable"] = 0
    BY <1>6 DEF SessionsInv, LedgerInv
  <2>2. audit'["user.disable"] = 1
    BY <1>5, <2>1
  <2> QED
    BY <1>2, <1>3, <1>4, <1>5, <2>2 DEF SessionsInv, LedgerInv, AuditActions
<1> QED
  BY <1>1, <1>2, <1>3, <1>5, <1>6, <1>7, <1>8, EndsSessions

\* The password changes: every session that did not race it was among those the
\* statement saw, and is cut.
LEMMA SetAdminUserPasswordStep ==
  ASSUME SessionsInv, NEW c \in Calls, SetAdminUserPassword(c), begun' \in 0..MaxCalls
  PROVE  SessionsInv'
<1>1. /\ user' = [user EXCEPT !.pw = @ + 1, !.changed = call[c].now] /\ sessions' = Cut(call[c].cut)
      /\ audit' = Audited("user.password_change") /\ End(c) /\ UNCHANGED <<clock, counts, failed>>
  BY DEF SetAdminUserPassword
<1>2. /\ user' \in [exists : BOOLEAN, disabled : BOOLEAN, pw : Nat, changed : Nat, lastLogin : Nat]
      /\ user'.exists = user.exists /\ user'.lastLogin = user.lastLogin /\ user'.pw = user.pw + 1
      /\ user'.changed = call[c].now /\ user'.disabled = user.disabled
  <2> DEFINE n == user.pw + 1
             m == call[c].now
  <2>1. n \in Nat /\ m \in Nat
    <3>1. call[c] \in CallRecords /\ user.pw \in Nat
      BY Typed
    <3>2. m \in Nat
      BY <3>1 DEF CallRecords
    <3> QED
      BY <3>1, <3>2
  <2>2. user' = [user EXCEPT !.pw = n, !.changed = m]
    BY <1>1
  <2> HIDE DEF n, m
  <2>3. /\ user' \in [exists : BOOLEAN, disabled : BOOLEAN, pw : Nat, changed : Nat, lastLogin : Nat]
        /\ user'.exists = user.exists /\ user'.lastLogin = user.lastLogin /\ user'.pw = n
        /\ user'.changed = m /\ user'.disabled = user.disabled
    BY <2>1, <2>2, Typed
  <2> QED
    BY <2>3 DEF n, m
<1>3. RowsKept /\ Ended' = Ended /\ \A t \in DOMAIN sessions : t \in call[c].cut => ~Live(t)'
  BY <1>1, CutRows
<1>4. Opened' = Opened /\ \A t \in DOMAIN sessions : Live(t)' => Live(t)
  BY <1>1, <1>3, RowsKeptStep
<1>5. /\ audit' \in [AuditActions -> Nat]
      /\ audit'["user.password_change"] = audit["user.password_change"] + 1
      /\ \A b \in AuditActions \ {"user.password_change"} : audit'[b] = audit[b]
  BY <1>1, Typed, AuditedTyped DEF AuditActions
<1>6. user.exists
  BY Typed DEF SetAdminUserPassword, TokenOK
<1>7. UserInv'
  <2>1. user.pw \in Nat /\ user.pw + 1 > 0
    BY Typed
  <2>2. ASSUME NEW t \in DOMAIN sessions', ~sessions'[t].raced
        PROVE  ~Live(t)' /\ sessions'[t].access <= user'.changed
    <3>1. t \in DOMAIN sessions /\ ~sessions[t].raced /\ sessions'[t].access = sessions[t].access
      BY <1>3, <2>2 DEF RowsKept, RowKept
    <3>2. sessions[t].access <= call[c].now /\ (Live(t) => t \in call[c].cut)
      BY <3>1, Typed DEF SetAdminUserPassword, PasswordOK
    <3> QED
      BY <1>2, <1>3, <1>4, <3>1, <3>2
  <2> QED
    BY <1>2, <1>6, <2>1, <2>2 DEF UserInv
<1>8. LedgerInv'
  <2>1. audit["user.password_change"] + 1 = user.pw
    BY <1>6 DEF SessionsInv, LedgerInv
  <2>2. audit'["user.password_change"] + 1 = user'.pw
    BY <1>2, <1>5, <2>1
  <2> QED
    BY <1>2, <1>3, <1>4, <1>5, <1>6, <2>2 DEF SessionsInv, LedgerInv, AuditActions
<1> QED
  BY <1>1, <1>2, <1>3, <1>5, <1>7, <1>8, EndsSessions

\* The sessions are cut because a token was used twice.
LEMMA RevokeStep ==
  ASSUME SessionsInv, NEW c \in Calls, RevokeAdminSessions(c), begun' \in 0..MaxCalls
  PROVE  SessionsInv'
<1>1. /\ sessions' = Cut(call[c].cut) /\ audit' = Audited("user.refresh_reuse") /\ End(c)
      /\ UNCHANGED <<clock, user, counts, failed>>
  BY DEF RevokeAdminSessions
<1>2. RowsKept /\ Ended' = Ended
  BY <1>1, CutRows
<1>3. Opened' = Opened /\ \A t \in DOMAIN sessions : Live(t)' => Live(t)
  BY <1>1, <1>2, RowsKeptStep
<1>4. /\ audit' \in [AuditActions -> Nat]
      /\ \A b \in AuditActions \ {"user.refresh_reuse"} : audit'[b] = audit[b]
  BY <1>1, Typed, AuditedTyped DEF AuditActions
<1>5. UserInv'
  <2>1. ASSUME NEW t \in DOMAIN sessions', ~sessions'[t].raced, sessions'[t].pw # user'.pw
        PROVE  ~Live(t)' /\ sessions'[t].access <= user'.changed
    BY <1>1, <1>2, <1>3, <2>1 DEF SessionsInv, UserInv, RowsKept, RowKept
  <2>2. ~user.exists => sessions' = <<>>
    <3>1. sessions = <<>> => DOMAIN sessions = {}
      OBVIOUS
    <3>2. DOMAIN sessions' = {} => sessions' = <<>>
      <4>1. sessions' \in Seq(Rows)
        BY <1>2 DEF RowsKept
      <4> QED
        BY <4>1, EmptySeq, LenProperties
    <3> QED
      BY <1>2, <3>1, <3>2 DEF SessionsInv, UserInv, RowsKept
  <2> QED
    BY <1>1, <2>1, <2>2 DEF SessionsInv, UserInv
<1>6. LedgerInv'
  BY <1>1, <1>2, <1>3, <1>4 DEF SessionsInv, LedgerInv, AuditActions
<1> QED
  BY <1>1, <1>2, <1>4, <1>5, <1>6, Typed, EndsSessions

\* A session is ended by the logout that finds it live.
LEMMA EndAdminSessionStep ==
  ASSUME SessionsInv, NEW c \in Calls, EndAdminSession(c), begun' \in 0..MaxCalls
  PROVE  SessionsInv'
<1> DEFINE t == call[c].token
           r == [sessions[t] EXCEPT !.state = "ended"]
<1>1. CASE ~Live(t)
  BY <1>1, Typed, EndStep DEF EndAdminSession
<1>2. CASE Live(t)
  <2>1. /\ sessions' = [sessions EXCEPT ![t].state = "ended"] /\ audit' = Audited("user.logout")
        /\ End(c) /\ UNCHANGED <<clock, user, counts, failed>>
    BY <1>2 DEF EndAdminSession
  <2>2. t \in DOMAIN sessions /\ t \in 1..Len(sessions) /\ sessions[t] \in Rows
    <3>1. t \in DOMAIN sessions
      BY Typed DEF EndAdminSession, TokenOK
    <3> QED
      BY <3>1, RowTyped
  <2>3. /\ r \in Rows /\ r.state = "ended" /\ r.expires = sessions[t].expires
        /\ r.next = sessions[t].next /\ r.gone = sessions[t].gone /\ r.login = sessions[t].login
        /\ r.pw = sessions[t].pw /\ r.raced = sessions[t].raced /\ r.access = sessions[t].access
    BY <2>2 DEF Rows
  <2>4. sessions' = [sessions EXCEPT ![t] = r]
    BY <2>1
  <2> HIDE DEF r, t
  <2>5. /\ sessions' \in Seq(Rows) /\ DOMAIN sessions' = DOMAIN sessions /\ sessions'[t] = r
        /\ \A s \in DOMAIN sessions \ {t} : sessions'[s] = sessions[s]
    BY <2>2, <2>3, <2>4, Typed, ExceptSeq
  <2>6. RowsKept
    <3>1. RowKept(t)
      BY <1>2, <2>3, <2>5 DEF RowKept, Live
    <3>2. ASSUME NEW s \in DOMAIN sessions \ {t} PROVE RowKept(s)
      BY <2>5 DEF RowKept
    <3> QED
      BY <2>5, <3>1, <3>2 DEF RowsKept
  <2>7. Opened' = Opened /\ \A s \in DOMAIN sessions : Live(s)' => Live(s)
    BY <2>1, <2>6, RowsKeptStep
  <2>8. Ended' = Ended \cup {t} /\ t \notin Ended /\ IsFiniteSet(Ended)
    <3>1. Ended' = Ended \cup {t}
      BY <2>2, <2>3, <2>5 DEF Ended
    <3>2. t \notin Ended
      BY <1>2 DEF Ended, Live
    <3>3. Ended \in SUBSET (1..Len(sessions)) /\ Len(sessions) \in Nat
      BY Typed, LenProperties DEF Ended
    <3>4. IsFiniteSet(1..Len(sessions))
      BY <3>3, FS_Interval
    <3>5. IsFiniteSet(Ended)
      BY <3>3, <3>4, FS_Subset
    <3> QED
      BY <3>1, <3>2, <3>5
  <2>9. Cardinality(Ended') = Cardinality(Ended) + 1
    BY <2>8, FS_AddElement
  <2>10. /\ audit' \in [AuditActions -> Nat]
         /\ audit'["user.logout"] = audit["user.logout"] + 1
         /\ \A b \in AuditActions \ {"user.logout"} : audit'[b] = audit[b]
    BY <2>1, Typed, AuditedTyped DEF AuditActions
  <2>11. UserInv'
    <3>1. ASSUME NEW s \in DOMAIN sessions', ~sessions'[s].raced, sessions'[s].pw # user'.pw
          PROVE  ~Live(s)' /\ sessions'[s].access <= user'.changed
      BY <2>1, <2>6, <2>7, <3>1 DEF SessionsInv, UserInv, RowsKept, RowKept
    <3>2. user.exists
      <4>1. sessions # <<>>
        BY <2>2
      <4> QED
        BY <4>1 DEF SessionsInv, UserInv
    <3> QED
      BY <2>1, <3>1, <3>2 DEF SessionsInv, UserInv
  <2>12. LedgerInv'
    <3>1. audit'["user.logout"] = Cardinality(Ended')
      BY <2>9, <2>10 DEF SessionsInv, LedgerInv
    <3> QED
      BY <2>1, <2>7, <2>10, <3>1 DEF SessionsInv, LedgerInv, AuditActions
  <2> QED
    BY <2>1, <2>6, <2>10, <2>11, <2>12, Typed, EndsSessions
<1> QED
  BY <1>1, <1>2

(***************************************************************************)
(* Rows that are inserted.                                                 *)
(***************************************************************************)

\* Inserting a row.
LEMMA AppendRow ==
  ASSUME SessionsInv, NEW base \in Seq(Rows), Len(base) = Len(sessions), NEW row \in Rows,
         NEW id, id = Len(sessions) + 1, sessions' = Append(base, row)
  PROVE  /\ sessions' \in Seq(Rows) /\ id \in Nat /\ id > 0 /\ id \notin DOMAIN sessions
         /\ DOMAIN sessions' = DOMAIN sessions \cup {id} /\ sessions'[id] = row
         /\ \A t \in DOMAIN sessions : t < id /\ t # id /\ sessions'[t] = base[t]
<1>1. DOMAIN sessions = 1..Len(sessions) /\ Len(sessions) \in Nat
  BY Typed, LenProperties
<1>2. /\ Append(base, row) \in Seq(Rows) /\ Len(Append(base, row)) = Len(base) + 1
      /\ \A i \in 1..Len(base) : Append(base, row)[i] = base[i]
      /\ Append(base, row)[Len(base) + 1] = row
  BY AppendProperties
<1>3. DOMAIN sessions' = 1..(Len(sessions) + 1)
  BY <1>2, LenProperties
<1> QED
  BY <1>1, <1>2, <1>3

\* The newer of two times.
LEMMA MaxTwo ==
  ASSUME NEW a \in Nat, NEW b \in Nat
  PROVE  Max({a, b}) = IF a <= b THEN b ELSE a
<1> DEFINE m == IF a <= b THEN b ELSE a
           P(x) == x \in {a, b} /\ \A y \in {a, b} : x >= y
<1>1. P(m) /\ \A x : P(x) => x = m
  OBVIOUS
<1>2. Max({a, b}) = CHOOSE x : P(x)
  BY DEF Max
<1> HIDE DEF m, P
<1>3. P(CHOOSE x : P(x))
  BY <1>1
<1>4. Max({a, b}) = m
  BY <1>1, <1>2, <1>3
<1> QED
  BY <1>4 DEF m

\* The sweep deletes rows that have expired, and changes nothing else.
LEMMA SweptRows ==
  ASSUME SessionsInv, NEW now \in Nat
  PROVE  /\ Swept(sessions, now) \in Seq(Rows) /\ Len(Swept(sessions, now)) = Len(sessions)
         /\ \A t \in DOMAIN sessions :
              /\ Swept(sessions, now)[t].expires = sessions[t].expires
              /\ Swept(sessions, now)[t].state = sessions[t].state
              /\ Swept(sessions, now)[t].next = sessions[t].next
              /\ Swept(sessions, now)[t].login = sessions[t].login
              /\ Swept(sessions, now)[t].pw = sessions[t].pw
              /\ Swept(sessions, now)[t].raced = sessions[t].raced
              /\ Swept(sessions, now)[t].access = sessions[t].access
              /\ Swept(sessions, now)[t].gone = (sessions[t].gone \/ sessions[t].expires < now)
<1> DEFINE f == Swept(sessions, now)
<1>1. sessions \in Seq(Rows) /\ DOMAIN sessions = 1..Len(sessions) /\ Len(sessions) \in Nat
  BY Typed, LenProperties
<1>2. f = [t \in 1..Len(sessions) |->
             [sessions[t] EXCEPT !.gone = sessions[t].gone \/ sessions[t].expires < now]]
  BY <1>1 DEF Swept
<1>3. ASSUME NEW r \in Rows, NEW g \in BOOLEAN
      PROVE  LET q == [r EXCEPT !.gone = g] IN
             /\ q \in Rows /\ q.gone = g /\ q.expires = r.expires /\ q.state = r.state
             /\ q.next = r.next /\ q.login = r.login /\ q.pw = r.pw /\ q.raced = r.raced
             /\ q.access = r.access
  BY DEF Rows
<1>4. ASSUME NEW t \in 1..Len(sessions)
      PROVE  /\ sessions[t] \in Rows /\ (sessions[t].gone \/ sessions[t].expires < now) \in BOOLEAN
             /\ f[t] = [sessions[t] EXCEPT !.gone = sessions[t].gone \/ sessions[t].expires < now]
  BY <1>1, <1>2, ElementOfSeq DEF Rows
<1>5. ASSUME NEW t \in 1..Len(sessions)
      PROVE  /\ f[t] \in Rows /\ f[t].gone = (sessions[t].gone \/ sessions[t].expires < now)
             /\ f[t].expires = sessions[t].expires /\ f[t].state = sessions[t].state
             /\ f[t].next = sessions[t].next /\ f[t].login = sessions[t].login
             /\ f[t].pw = sessions[t].pw /\ f[t].raced = sessions[t].raced
             /\ f[t].access = sessions[t].access
  <2> DEFINE r == sessions[t]
             g == sessions[t].gone \/ sessions[t].expires < now
  <2>1. r \in Rows /\ g \in BOOLEAN /\ f[t] = [r EXCEPT !.gone = g]
    BY <1>4
  <2> HIDE DEF r, g
  <2>2. /\ f[t] \in Rows /\ f[t].gone = g /\ f[t].expires = r.expires /\ f[t].state = r.state
        /\ f[t].next = r.next /\ f[t].login = r.login /\ f[t].pw = r.pw /\ f[t].raced = r.raced
        /\ f[t].access = r.access
    BY <1>3, <2>1
  <2> QED
    BY <2>2 DEF r, g
<1>6. f \in [1..Len(sessions) -> Rows]
  BY <1>2, <1>5
<1> HIDE DEF f
<1>7. f \in Seq(Rows) /\ Len(f) = Len(sessions)
  BY <1>1, <1>6, RowsSeq
<1> QED
  BY <1>1, <1>5, <1>7 DEF f

\* A login inserts its row, after the sweep.
LEMMA StartStep ==
  ASSUME SessionsInv, NEW c \in Calls, StartAdminSession(c), begun' \in 0..MaxCalls
  PROVE  SessionsInv'
<1> DEFINE id == Len(sessions) + 1
           now == call[c].now
           old == Swept(sessions, now)
           row == [expires |-> now + RefreshTTL, state |-> "live", next |-> 0, gone |-> FALSE,
                   login |-> id, pw |-> call[c].hash, access |-> call[c].access,
                   raced |-> call[c].hash # user.pw \/ PasswordChanging]
<1>1. /\ sessions' = Append(old, row)
      /\ user' = [user EXCEPT !.lastLogin = Max({user.lastLogin, now})]
      /\ audit' = Audited("user.login") /\ End(c) /\ UNCHANGED <<clock, counts, failed>>
  BY DEF StartAdminSession
<1>2. /\ now \in Nat /\ now <= clock /\ call[c].access \in Nat /\ call[c].access <= clock
      /\ call[c].hash \in Nat /\ user.exists /\ clock \in Nat
  <2>1. call[c] \in CallRecords /\ TokenOK(call[c]) /\ clock \in Nat
    BY Typed
  <2> QED
    BY <2>1 DEF CallRecords, TokenOK, StartAdminSession
<1>3. Len(sessions) \in Nat
  BY Typed, LenProperties
<1>4. row \in Rows
  <2>1. now + RefreshTTL \in Nat /\ id \in Nat
    BY <1>2, <1>3, Lifetimes
  <2> QED
    BY <1>2, <2>1 DEF Rows
<1>5. /\ row.expires = now + RefreshTTL /\ row.state = "live" /\ row.next = 0 /\ row.gone = FALSE
      /\ row.login = id /\ row.pw = call[c].hash /\ row.access = call[c].access
      /\ row.raced = (call[c].hash # user.pw \/ PasswordChanging)
  OBVIOUS
<1> HIDE DEF row, now
<1>6. old \in Seq(Rows) /\ Len(old) = Len(sessions)
  BY <1>2, SweptRows
<1>7. /\ sessions' \in Seq(Rows) /\ id \in Nat /\ id > 0 /\ id \notin DOMAIN sessions
      /\ DOMAIN sessions' = DOMAIN sessions \cup {id} /\ sessions'[id] = row
      /\ \A t \in DOMAIN sessions : t < id /\ t # id /\ sessions'[t] = old[t]
  BY <1>1, <1>4, <1>6, AppendRow
<1>8. ASSUME NEW t \in DOMAIN sessions
      PROVE  /\ sessions'[t].expires = sessions[t].expires /\ sessions'[t].state = sessions[t].state
             /\ sessions'[t].next = sessions[t].next /\ sessions'[t].login = sessions[t].login
             /\ sessions'[t].pw = sessions[t].pw /\ sessions'[t].raced = sessions[t].raced
             /\ sessions'[t].access = sessions[t].access
             /\ sessions'[t].gone = (sessions[t].gone \/ sessions[t].expires < now)
             /\ (Live(t)' => Live(t)) /\ t < id /\ t # id /\ t \in Nat
  <2>1. /\ sessions'[t].expires = sessions[t].expires /\ sessions'[t].state = sessions[t].state
        /\ sessions'[t].next = sessions[t].next /\ sessions'[t].login = sessions[t].login
        /\ sessions'[t].pw = sessions[t].pw /\ sessions'[t].raced = sessions[t].raced
        /\ sessions'[t].access = sessions[t].access
        /\ sessions'[t].gone = (sessions[t].gone \/ sessions[t].expires < now)
    BY <1>2, <1>7, SweptRows
  <2>2. Live(t)' => Live(t)
    BY <2>1 DEF Live
  <2> QED
    BY <1>7, <2>1, <2>2, RowTyped
<1> HIDE DEF id, old
<1>9. /\ user' \in [exists : BOOLEAN, disabled : BOOLEAN, pw : Nat, changed : Nat, lastLogin : Nat]
      /\ user'.exists = user.exists /\ user'.pw = user.pw /\ user'.changed = user.changed
      /\ user'.disabled = user.disabled
      /\ user'.lastLogin = IF user.lastLogin <= now THEN now ELSE user.lastLogin
  <2> DEFINE m == Max({user.lastLogin, now})
  <2>1. user.lastLogin \in Nat
    BY Typed
  <2>2. m = IF user.lastLogin <= now THEN now ELSE user.lastLogin
    BY <1>2, <2>1, MaxTwo
  <2>3. m \in Nat /\ user' = [user EXCEPT !.lastLogin = m]
    BY <1>1, <1>2, <2>1, <2>2
  <2> HIDE DEF m
  <2>4. /\ user' \in [exists : BOOLEAN, disabled : BOOLEAN, pw : Nat, changed : Nat, lastLogin : Nat]
        /\ user'.exists = user.exists /\ user'.pw = user.pw /\ user'.changed = user.changed
        /\ user'.disabled = user.disabled /\ user'.lastLogin = m
    BY <2>3, Typed
  <2> QED
    BY <2>2, <2>4
<1>10. /\ audit' \in [AuditActions -> Nat]
       /\ audit'["user.login"] = audit["user.login"] + 1
       /\ \A b \in AuditActions \ {"user.login"} : audit'[b] = audit[b]
  BY <1>1, Typed, AuditedTyped DEF AuditActions
<1>11. CallsInv' /\ call' \in [Calls -> CallRecords]
  <2>1. \A t \in DOMAIN sessions' \ DOMAIN sessions :
          sessions'[t].raced \/ \A d \in Calls \ {c} : ~Changing(call[d])
    BY <1>5, <1>7 DEF PasswordChanging, Changing
  <2>2. DOMAIN sessions \subseteq DOMAIN sessions'
    BY <1>7
  <2> QED
    BY <1>1, <1>8, <1>9, <2>1, <2>2, CallsKept
<1>12. TypeOK'
  BY <1>1, <1>7, <1>9, <1>10, <1>11 DEF SessionsInv, TypeOK
<1>13. UserInv'
  <2>1. ASSUME NEW t \in DOMAIN sessions', ~sessions'[t].raced, sessions'[t].pw # user'.pw
        PROVE  ~Live(t)' /\ sessions'[t].access <= user'.changed
    <3>1. CASE t = id
      BY <1>5, <1>7, <1>9, <2>1, <3>1
    <3>2. CASE t \in DOMAIN sessions
      BY <1>8, <1>9, <2>1, <3>2 DEF SessionsInv, UserInv
    <3> QED
      BY <1>7, <3>1, <3>2
  <2> QED
    BY <1>2, <1>9, <2>1 DEF SessionsInv, UserInv
<1>14. ChainInv'
  <2>1. ASSUME NEW t \in DOMAIN sessions
        PROVE  /\ sessions'[t].state = "rotated" <=> sessions'[t].next # 0
               /\ sessions'[t].next # 0 =>
                    /\ sessions'[t].next \in DOMAIN sessions'
                    /\ sessions'[t].expires <= sessions'[sessions'[t].next].expires
               /\ sessions'[t].login \in 1..t
               /\ sessions'[t].expires <= clock + RefreshTTL
               /\ sessions'[t].access <= clock
    BY <1>7, <1>8 DEF SessionsInv, ChainInv
  <2>2. /\ sessions'[id].state = "rotated" <=> sessions'[id].next # 0
        /\ sessions'[id].next = 0
        /\ sessions'[id].login \in 1..id
        /\ sessions'[id].expires <= clock + RefreshTTL
        /\ sessions'[id].access <= clock
    <3>1. now + RefreshTTL <= clock + RefreshTTL /\ id \in 1..id
      BY <1>2, <1>7, Lifetimes
    <3> QED
      BY <1>2, <1>5, <1>7, <3>1
  <2> QED
    BY <1>1, <1>7, <2>1, <2>2 DEF ChainInv
<1>15. RotationChains'
  <2> SUFFICES ASSUME NEW s \in DOMAIN sessions', NEW t \in DOMAIN sessions'
               PROVE  /\ sessions'[s].login = sessions'[t].login /\ Live(s)' /\ Live(t)' => s = t
                      /\ sessions'[s].next = sessions'[t].next /\ sessions'[s].next # 0 => s = t
                      /\ sessions'[s].next = t /\ ~sessions'[s].gone => ~sessions'[t].gone
    BY DEF RotationChains
  <2>1. ASSUME NEW u \in DOMAIN sessions
        PROVE  sessions'[u].login # id /\ sessions'[u].next # id
    <3>1. sessions[u].login \in 1..u
      BY DEF SessionsInv, ChainInv
    <3>2. sessions[u].login # id
      BY <1>7, <1>8, <3>1
    <3>3. sessions[u].next # id
      BY <1>7 DEF SessionsInv, ChainInv
    <3> QED
      BY <1>8, <3>2, <3>3
  <2>2. CASE s = id /\ t = id
    BY <1>5, <1>7, <2>2
  <2>3. CASE s = id /\ t \in DOMAIN sessions
    <3>1. t # 0
      BY <2>3, RowTyped
    <3> QED
      BY <1>5, <1>7, <2>1, <2>3, <3>1
  <2>4. CASE s \in DOMAIN sessions /\ t = id
    BY <1>5, <1>7, <2>1, <2>4
  <2>5. CASE s \in DOMAIN sessions /\ t \in DOMAIN sessions
    <3>1. ASSUME sessions'[s].next = t, ~sessions'[s].gone PROVE ~sessions'[t].gone
      <4>1. sessions[s].next = t /\ ~sessions[s].gone /\ ~(sessions[s].expires < now)
        BY <1>8, <2>5, <3>1
      <4>2. ~sessions[t].gone
        BY <2>5, <4>1 DEF SessionsInv, RotationChains
      <4>3. sessions[s].expires <= sessions[t].expires
        <5>1. t # 0
          BY <2>5, RowTyped
        <5> QED
          BY <2>5, <4>1, <5>1 DEF SessionsInv, ChainInv
      <4>4. sessions[s].expires \in Nat /\ sessions[t].expires \in Nat
        BY <2>5, RowTyped DEF Rows
      <4>5. ~(sessions[t].expires < now)
        BY <1>2, <4>1, <4>3, <4>4
      <4> QED
        BY <1>8, <2>5, <4>2, <4>5
    <3> QED
      BY <1>8, <2>5, <3>1 DEF SessionsInv, RotationChains
  <2> QED
    BY <1>7, <2>2, <2>3, <2>4, <2>5
<1>16. Opened' = Opened \cup {id} /\ id \notin Opened /\ Ended' = Ended
  <2>1. Opened' = Opened \cup {id}
    BY <1>5, <1>7, <1>8 DEF Opened
  <2>2. id \notin Opened
    BY <1>7 DEF Opened
  <2>3. Ended' = Ended
    BY <1>5, <1>7, <1>8 DEF Ended
  <2> QED
    BY <2>1, <2>2, <2>3
<1>17. Cardinality(Opened') = Cardinality(Opened) + 1
  <2>1. Opened \in SUBSET (1..Len(sessions)) /\ IsFiniteSet(1..Len(sessions))
    <3>1. DOMAIN sessions = 1..Len(sessions)
      BY Typed, LenProperties
    <3> QED
      BY <1>3, <3>1, FS_Interval DEF Opened
  <2>2. IsFiniteSet(Opened)
    BY <2>1, FS_Subset
  <2> QED
    BY <1>16, <2>2, FS_AddElement
<1>18. LedgerInv'
  <2>1. audit'["user.login"] = Cardinality(Opened')
    BY <1>10, <1>17 DEF SessionsInv, LedgerInv
  <2> QED
    BY <1>2, <1>9, <1>10, <1>16, <2>1 DEF SessionsInv, LedgerInv, AuditActions
<1>19. LastLoginInv'
  <2>1. user.lastLogin \in Nat /\ user'.lastLogin \in Nat
    BY <1>9, Typed
  <2>2. ASSUME NEW t \in Opened'
        PROVE  RefreshTTL <= sessions'[t].expires /\ sessions'[t].expires <= user'.lastLogin + RefreshTTL
    <3>1. CASE t = id
      BY <1>2, <1>5, <1>7, <1>9, <2>1, <3>1, Lifetimes
    <3>2. CASE t \in Opened
      <4>1. t \in DOMAIN sessions /\ sessions'[t].expires = sessions[t].expires
        BY <1>8, <3>2 DEF Opened
      <4>2. sessions[t].expires \in Nat
        BY <4>1, RowTyped DEF Rows
      <4>3. RefreshTTL <= sessions[t].expires /\ sessions[t].expires <= user.lastLogin + RefreshTTL
        BY <3>2 DEF SessionsInv, LastLoginInv
      <4>4. sessions[t].expires <= user'.lastLogin + RefreshTTL
        BY <1>2, <1>9, <2>1, <4>2, <4>3, Lifetimes
      <4> QED
        BY <4>1, <4>3, <4>4
    <3> QED
      BY <1>16, <3>1, <3>2
  <2>3. user'.lastLogin = 0 \/ \E t \in Opened' : sessions'[t].expires = user'.lastLogin + RefreshTTL
    <3>1. CASE user.lastLogin <= now
      <4>1. user'.lastLogin = now
        BY <1>9, <3>1
      <4>2. sessions'[id].expires = user'.lastLogin + RefreshTTL
        BY <1>5, <1>7, <4>1
      <4> QED
        BY <1>16, <4>2
    <3>2. CASE ~(user.lastLogin <= now)
      <4>1. user'.lastLogin = user.lastLogin
        BY <1>9, <3>2
      <4>2. ASSUME NEW t \in Opened, sessions[t].expires = user.lastLogin + RefreshTTL
            PROVE  t \in Opened' /\ sessions'[t].expires = user'.lastLogin + RefreshTTL
        BY <1>8, <1>16, <4>1, <4>2 DEF Opened
      <4> QED
        BY <4>1, <4>2 DEF SessionsInv, LastLoginInv
    <3> QED
      BY <3>1, <3>2
  <2> QED
    BY <2>2, <2>3 DEF LastLoginInv
<1> QED
  BY <1>11, <1>12, <1>13, <1>14, <1>15, <1>18, <1>19 DEF SessionsInv

\* A refresh rotates its token into a new row, or finds that another call was faster.
LEMMA RotateStep ==
  ASSUME SessionsInv, NEW c \in Calls, RotateAdminSession(c), begun' \in 0..MaxCalls
  PROVE  SessionsInv'
<1> DEFINE t == call[c].token
           id == Len(sessions) + 1
           now == call[c].now
           was == [sessions[t] EXCEPT !.state = "rotated", !.next = id]
           row == [sessions[t] EXCEPT !.expires = now + RefreshTTL, !.access = call[c].access,
                                      !.raced = @ \/ PasswordChanging]
<1>1. CASE ~Live(t)
  BY <1>1, GotoStep DEF RotateAdminSession
<1>2. CASE Live(t)
  <2>1. /\ sessions' = Append([sessions EXCEPT ![t].state = "rotated", ![t].next = id], row)
        /\ End(c) /\ UNCHANGED <<clock, user, audit, counts, failed>>
    BY <1>2 DEF RotateAdminSession
  <2>2. /\ t \in DOMAIN sessions /\ sessions[t].expires <= now + RefreshTTL
        /\ now \in Nat /\ now <= clock /\ call[c].access \in Nat /\ call[c].access <= clock
        /\ clock \in Nat
    <3>1. call[c] \in CallRecords /\ TokenOK(call[c]) /\ clock \in Nat
      BY Typed
    <3> QED
      BY <3>1 DEF CallRecords, TokenOK, RotateAdminSession
  <2>3. /\ t \in 1..Len(sessions) /\ t \in Nat /\ sessions[t] \in Rows /\ Len(sessions) \in Nat
        /\ sessions \in Seq(Rows)
    BY <2>2, RowTyped, Typed, LenProperties
  <2>4. /\ row \in Rows /\ row.expires = now + RefreshTTL /\ row.access = call[c].access
        /\ row.raced = (sessions[t].raced \/ PasswordChanging) /\ row.state = sessions[t].state
        /\ row.next = sessions[t].next /\ row.gone = sessions[t].gone
        /\ row.login = sessions[t].login /\ row.pw = sessions[t].pw
    <3> DEFINE e == now + RefreshTTL
               g == sessions[t].raced \/ PasswordChanging
    <3>1. e \in Nat
      BY <2>2, Lifetimes
    <3>2. sessions[t].raced \in BOOLEAN /\ g \in BOOLEAN
      BY <2>3 DEF Rows
    <3>3. row = [sessions[t] EXCEPT !.expires = e, !.access = call[c].access, !.raced = g]
      BY <2>3 DEF Rows
    <3> HIDE DEF e, g, row
    <3>4. /\ row \in Rows /\ row.expires = e /\ row.access = call[c].access
          /\ row.raced = g /\ row.state = sessions[t].state
          /\ row.next = sessions[t].next /\ row.gone = sessions[t].gone
          /\ row.login = sessions[t].login /\ row.pw = sessions[t].pw
      BY <2>2, <2>3, <3>1, <3>2, <3>3 DEF Rows
    <3> QED
      BY <3>4 DEF e, g
  <2>5. /\ was \in Rows /\ was.state = "rotated" /\ was.next = id
        /\ was.expires = sessions[t].expires /\ was.gone = sessions[t].gone
        /\ was.login = sessions[t].login /\ was.pw = sessions[t].pw
        /\ was.raced = sessions[t].raced /\ was.access = sessions[t].access
    <3>1. id \in Nat
      BY <2>3
    <3> HIDE DEF id
    <3> QED
      BY <2>3, <3>1 DEF Rows
  <2>6. [sessions EXCEPT ![t].state = "rotated", ![t].next = id] = [sessions EXCEPT ![t] = was]
    BY <2>2, <2>3
  <2> HIDE DEF row, was, now, t
  <2> DEFINE old == [sessions EXCEPT ![t] = was]
  <2>7. /\ old \in Seq(Rows) /\ Len(old) = Len(sessions) /\ old[t] = was
        /\ \A s \in DOMAIN sessions \ {t} : old[s] = sessions[s]
    BY <2>2, <2>3, <2>5, ExceptSeq, LenProperties
  <2>8. sessions' = Append(old, row)
    BY <2>1, <2>6
  <2> HIDE DEF old
  <2>9. /\ sessions' \in Seq(Rows) /\ id \in Nat /\ id > 0 /\ id \notin DOMAIN sessions
        /\ DOMAIN sessions' = DOMAIN sessions \cup {id} /\ sessions'[id] = row
        /\ \A s \in DOMAIN sessions : s < id /\ s # id /\ sessions'[s] = old[s]
    BY <2>4, <2>7, <2>8, AppendRow
  <2> HIDE DEF id
  <2>10. ~sessions[t].gone /\ sessions[t].state = "live" /\ sessions[t].next = 0
    BY <1>2, <2>2 DEF Live, t, SessionsInv, ChainInv
  <2>11. sessions'[t] = was /\ \A s \in DOMAIN sessions \ {t} : sessions'[s] = sessions[s]
    BY <2>2, <2>7, <2>9
  <2>12. ASSUME NEW s \in DOMAIN sessions
         PROVE  /\ sessions'[s].expires = sessions[s].expires /\ sessions'[s].gone = sessions[s].gone
                /\ sessions'[s].login = sessions[s].login /\ sessions'[s].pw = sessions[s].pw
                /\ sessions'[s].raced = sessions[s].raced /\ sessions'[s].access = sessions[s].access
                /\ (Live(s)' => Live(s) /\ s # t) /\ s < id /\ s # id /\ s \in Nat
    <3>1. CASE s = t
      BY <2>5, <2>9, <2>11, <3>1, RowTyped DEF Live
    <3>2. CASE s # t
      BY <2>9, <2>11, <3>2, RowTyped DEF Live
    <3> QED
      BY <3>1, <3>2
  <2>13. CallsInv' /\ call' \in [Calls -> CallRecords]
    <3>1. \A s \in DOMAIN sessions' \ DOMAIN sessions :
            sessions'[s].raced \/ \A d \in Calls \ {c} : ~Changing(call[d])
      BY <2>4, <2>9 DEF PasswordChanging, Changing
    <3>2. DOMAIN sessions \subseteq DOMAIN sessions'
      BY <2>9
    <3> QED
      BY <2>1, <2>12, <3>1, <3>2, CallsKept
  <2>14. TypeOK'
    BY <2>1, <2>9, <2>13 DEF SessionsInv, TypeOK
  <2>15. UserInv'
    <3>1. user.exists
      BY <2>2 DEF SessionsInv, UserInv
    <3>2. ASSUME NEW s \in DOMAIN sessions', ~sessions'[s].raced, sessions'[s].pw # user'.pw
          PROVE  ~Live(s)' /\ sessions'[s].access <= user'.changed
      <4>1. CASE s = id
        <5>1. ~sessions[t].raced /\ sessions[t].pw # user.pw
          BY <2>1, <2>4, <2>9, <3>2, <4>1
        <5> QED
          BY <1>2, <2>2, <5>1 DEF SessionsInv, UserInv, t
      <4>2. CASE s \in DOMAIN sessions
        BY <2>1, <2>12, <3>2, <4>2 DEF SessionsInv, UserInv
      <4> QED
        BY <2>9, <4>1, <4>2
    <3> QED
      BY <2>1, <3>1, <3>2 DEF SessionsInv, UserInv
  <2>16. ChainInv'
    <3>1. ASSUME NEW s \in DOMAIN sessions, s # t
          PROVE  /\ sessions'[s].state = "rotated" <=> sessions'[s].next # 0
                 /\ sessions'[s].next # 0 =>
                      /\ sessions'[s].next \in DOMAIN sessions'
                      /\ sessions'[s].expires <= sessions'[sessions'[s].next].expires
                 /\ sessions'[s].login \in 1..s
                 /\ sessions'[s].expires <= clock + RefreshTTL
                 /\ sessions'[s].access <= clock
      <4>1. sessions'[s] = sessions[s]
        BY <2>11, <3>1
      <4>2. sessions[s].next # 0 => /\ sessions[s].next \in DOMAIN sessions
                                    /\ sessions[s].expires <= sessions[sessions[s].next].expires
        BY DEF SessionsInv, ChainInv
      <4>3. sessions[s].next # 0 => sessions'[sessions[s].next].expires = sessions[sessions[s].next].expires
        BY <2>12, <4>2
      <4> QED
        BY <2>9, <4>1, <4>2, <4>3 DEF SessionsInv, ChainInv
    <3>2. /\ sessions'[t].state = "rotated" <=> sessions'[t].next # 0
          /\ sessions'[t].next = id /\ id \in DOMAIN sessions'
          /\ sessions'[t].expires <= sessions'[id].expires
          /\ sessions'[t].login \in 1..t
          /\ sessions'[t].expires <= clock + RefreshTTL
          /\ sessions'[t].access <= clock
      <4>1. id # 0
        BY <2>9
      <4> QED
        BY <2>2, <2>4, <2>5, <2>9, <2>11, <4>1 DEF SessionsInv, ChainInv
    <3>3. /\ sessions'[id].state = "rotated" <=> sessions'[id].next # 0
          /\ sessions'[id].next = 0
          /\ sessions'[id].login \in 1..id
          /\ sessions'[id].expires <= clock + RefreshTTL
          /\ sessions'[id].access <= clock
      <4>1. now + RefreshTTL <= clock + RefreshTTL
        BY <2>2, Lifetimes
      <4>2. sessions[t].login \in 1..t
        BY <2>2 DEF SessionsInv, ChainInv
      <4>3. sessions[t].login \in 1..id
        BY <2>2, <2>9, <2>12, <4>2
      <4> QED
        BY <2>2, <2>4, <2>9, <2>10, <4>1, <4>3
    <3> QED
      BY <2>1, <2>9, <3>1, <3>2, <3>3 DEF ChainInv
  <2>17. RotationChains'
    <3> SUFFICES ASSUME NEW r \in DOMAIN sessions', NEW s \in DOMAIN sessions'
                 PROVE  /\ sessions'[r].login = sessions'[s].login /\ Live(r)' /\ Live(s)' => r = s
                        /\ sessions'[r].next = sessions'[s].next /\ sessions'[r].next # 0 => r = s
                        /\ sessions'[r].next = s /\ ~sessions'[r].gone => ~sessions'[s].gone
      BY DEF RotationChains
    <3>1. ASSUME NEW u \in DOMAIN sessions, sessions'[u].login = sessions[t].login, Live(u)' PROVE FALSE
      <4>1. Live(u) /\ u # t /\ sessions[u].login = sessions[t].login
        BY <2>12, <3>1
      <4> QED
        BY <1>2, <2>2, <4>1 DEF SessionsInv, RotationChains, t
    <3>2. sessions'[id].login = sessions[t].login /\ sessions'[id].next = 0 /\ ~sessions'[id].gone
      BY <2>4, <2>9, <2>10
    <3>3. ASSUME NEW u \in DOMAIN sessions, sessions'[u].next = id PROVE u = t
      BY <2>9, <2>11, <3>3 DEF SessionsInv, ChainInv
    <3>4. CASE r = id /\ s = id
      BY <3>2, <3>4
    <3>5. CASE r = id /\ s \in DOMAIN sessions
      <4>1. s # 0
        BY <3>5, RowTyped
      <4> QED
        BY <3>1, <3>2, <3>5, <4>1
    <3>6. CASE r \in DOMAIN sessions /\ s = id
      BY <3>1, <3>2, <3>6
    <3>7. CASE r \in DOMAIN sessions /\ s \in DOMAIN sessions
      <4>1. sessions'[r].login = sessions'[s].login /\ Live(r)' /\ Live(s)' => r = s
        BY <2>12, <3>7 DEF SessionsInv, RotationChains
      <4>2. sessions'[r].next = sessions'[s].next /\ sessions'[r].next # 0 => r = s
        <5>1. CASE r = t
          BY <2>5, <2>11, <3>3, <3>7, <5>1
        <5>2. CASE s = t
          BY <2>5, <2>11, <3>3, <3>7, <5>2
        <5>3. CASE r # t /\ s # t
          BY <2>11, <3>7, <5>3 DEF SessionsInv, RotationChains
        <5> QED
          BY <5>1, <5>2, <5>3
      <4>3. sessions'[r].next = s /\ ~sessions'[r].gone => ~sessions'[s].gone
        <5>1. CASE r = t
          BY <2>5, <2>9, <2>11, <3>7, <5>1
        <5>2. CASE r # t
          BY <2>11, <2>12, <3>7, <5>2 DEF SessionsInv, RotationChains
        <5> QED
          BY <5>1, <5>2
      <4> QED
        BY <4>1, <4>2, <4>3
    <3> QED
      BY <2>9, <3>4, <3>5, <3>6, <3>7
  <2>18. Opened' = Opened /\ Ended' = Ended
    <3>1. sessions'[id].login # id
      <4>1. sessions[t].login \in 1..t
        BY <2>2 DEF SessionsInv, ChainInv
      <4>2. sessions[t].login # id
        BY <2>2, <2>9, <2>12, <4>1
      <4> QED
        BY <2>4, <2>9, <4>2
    <3>2. Opened' = Opened
      BY <2>9, <2>12, <3>1 DEF Opened
    <3>3. sessions'[id].state # "ended" /\ sessions'[t].state # "ended" /\ sessions[t].state # "ended"
      BY <2>4, <2>5, <2>9, <2>10, <2>11
    <3>4. Ended' = Ended
      BY <2>2, <2>9, <2>11, <3>3 DEF Ended
    <3> QED
      BY <3>2, <3>4
  <2>19. LedgerInv'
    BY <2>1, <2>18 DEF SessionsInv, LedgerInv
  <2>20. LastLoginInv'
    <3>1. \A s \in Opened : sessions'[s].expires = sessions[s].expires
      BY <2>12 DEF Opened
    <3> QED
      BY <2>1, <2>18, <3>1 DEF SessionsInv, LastLoginInv
  <2> QED
    BY <2>13, <2>14, <2>15, <2>16, <2>17, <2>19, <2>20 DEF SessionsInv
<1> QED
  BY <1>1, <1>2

(***************************************************************************)
(* The invariant.                                                          *)
(***************************************************************************)

\* It holds before any call begins.
LEMMA SessionsInit ==
  ASSUME Init PROVE SessionsInv
<1>1. PICK made \in {0, 1} :
        /\ user = [exists |-> made = 1, disabled |-> FALSE, pw |-> made, changed |-> 0, lastLogin |-> 0]
        /\ audit = [a \in AuditActions |-> IF a = "user.create" THEN made ELSE 0]
  BY DEF Init
<1>2. /\ clock = 0 /\ sessions = <<>> /\ begun = 0 /\ counts = [k \in Clients |-> NoWindow]
      /\ failed = [k \in Clients |-> <<>>] /\ call = [c \in Calls |-> Call("idle")]
  BY DEF Init
<1>3. DOMAIN sessions = {} /\ sessions \in Seq(Rows)
  BY <1>2, EmptySeq
<1>4. /\ user \in [exists : BOOLEAN, disabled : BOOLEAN, pw : Nat, changed : Nat, lastLogin : Nat]
      /\ user.exists = (made = 1) /\ user.disabled = FALSE /\ user.pw = made /\ user.lastLogin = 0
  BY <1>1
<1>5. /\ audit \in [AuditActions -> Nat] /\ audit["user.create"] = made
      /\ \A a \in AuditActions \ {"user.create"} : audit[a] = 0
  BY <1>1 DEF AuditActions
<1>6. TypeOK
  <2>1. counts \in [Clients -> [failures : Nat, until : Nat]] /\ failed \in [Clients -> Seq(Failures)]
    BY <1>2 DEF NoWindow
  <2>2. call \in [Calls -> CallRecords]
    BY <1>2, IdleCall
  <2>3. clock \in 0..MaxClock /\ begun \in 0..MaxCalls
    BY <1>2, Lifetimes
  <2> QED
    BY <1>3, <1>4, <1>5, <2>1, <2>2, <2>3 DEF TypeOK
<1>7. CallsInv
  <2> SUFFICES ASSUME NEW c \in Calls PROVE TokenOK(call[c]) /\ LockOK(c, call[c]) /\ PasswordOK(call[c])
    BY DEF CallsInv
  <2> DEFINE r == Call("idle")
  <2>1. call[c] = r /\ r.pc = "idle" /\ r.now = 0 /\ r.access = 0
    BY <1>2 DEF Call
  <2> HIDE DEF r
  <2>2. r.now <= clock /\ r.access <= clock
    BY <1>2, <2>1
  <2> QED
    BY <2>1, <2>2 DEF TokenOK, LockOK, PasswordOK
<1>8. UserInv /\ ChainInv /\ RotationChains
  BY <1>2, <1>3, <1>4 DEF UserInv, ChainInv, RotationChains
<1>9. Opened = {} /\ Ended = {} /\ Cardinality({}) = 0
  BY <1>3, FS_EmptySet DEF Opened, Ended
<1>10. LedgerInv
  BY <1>4, <1>5, <1>9 DEF LedgerInv, AuditActions
<1>11. LastLoginInv
  BY <1>4, <1>9 DEF LastLoginInv
<1> QED
  BY <1>6, <1>7, <1>8, <1>10, <1>11 DEF SessionsInv

\* Every step keeps it.
LEMMA SessionsInductive ==
  SessionsInv /\ [Next]_vars => SessionsInv'
<1> SUFFICES ASSUME SessionsInv, [Next]_vars PROVE SessionsInv'
  OBVIOUS
<1>1. CASE Advance
  BY <1>1, AdvanceStep
<1>2. ASSUME NEW c \in Calls, Begin(c) PROVE SessionsInv'
  <2>1. begun' \in 0..MaxCalls
    BY <1>2, Lifetimes DEF Begin, SessionsInv, TypeOK
  <2>2. CASE Create(c)
    BY <2>1, <2>2, CreateStep
  <2>3. CASE Disable(c)
    BY <2>1, <2>3, DisableStep
  <2>4. CASE SetPassword(c)
    BY <2>1, <2>4, SetPasswordStep
  <2>5. ASSUME NEW key \in Clients, NEW pw \in 0..user.pw, Login(c, key, pw) PROVE SessionsInv'
    BY <2>1, <2>5, LoginStep
  <2>6. ASSUME NEW t \in DOMAIN sessions, Refresh(c, t) PROVE SessionsInv'
    BY <2>1, <2>6, RefreshStep
  <2>7. ASSUME NEW t \in DOMAIN sessions, Logout(c, t) PROVE SessionsInv'
    BY <2>1, <2>7, LogoutStep
  <2> QED
    BY <1>2, <2>2, <2>3, <2>4, <2>5, <2>6, <2>7 DEF Begin
<1>3. ASSUME NEW c \in Calls, Continue(c) PROVE SessionsInv'
  <2>1. begun' \in 0..MaxCalls
    BY <1>3 DEF Continue, SessionsInv, TypeOK
  <2>2. CASE UpdateUser(c)
    BY <2>1, <2>2, UpdateUserStep
  <2>3. CASE DisableAdminUser(c)
    BY <2>1, <2>3, DisableAdminUserStep
  <2>4. CASE SetAdminUserPassword(c)
    BY <2>1, <2>4, SetAdminUserPasswordStep
  <2>5. CASE LoginTooLong(c) \/ LoginRefused(c)
    BY <2>1, <2>5, RefuseStep DEF LoginTooLong, LoginRefused
  <2>6. CASE AdminUserForLogin(c)
    BY <2>1, <2>6, LookUpStep
  <2>7. CASE LoginVerified(c)
    BY <2>1, <2>7, VerifiedStep
  <2>8. CASE StartAdminSession(c)
    BY <2>1, <2>8, StartStep
  <2>9. CASE RefreshLookup(c)
    BY <2>1, <2>9, RefreshLookupStep
  <2>10. CASE RotateAdminSession(c)
    BY <2>1, <2>10, RotateStep
  <2>11. CASE auditSessionReuse(c)
    BY <2>1, <2>11, ReuseStep
  <2>12. CASE RevokeAdminSessions(c)
    BY <2>1, <2>12, RevokeStep
  <2>13. CASE EndAdminSession(c)
    BY <2>1, <2>13, EndAdminSessionStep
  <2>14. CASE Fail(c)
    BY <2>1, <2>14, FailStep
  <2> QED
    BY <1>3, <2>2, <2>3, <2>4, <2>5, <2>6, <2>7, <2>8, <2>9, <2>10, <2>11, <2>12, <2>13, <2>14
    DEF Continue
<1>4. CASE UNCHANGED vars
  <2>1. UNCHANGED <<clock, user, sessions, audit, counts, failed, begun, call>>
    BY <1>4 DEF vars
  <2>2. TypeOK'
    BY <2>1 DEF SessionsInv, TypeOK
  <2>3. CallsInv'
    BY <2>1 DEF SessionsInv, CallsInv, TokenOK, LockOK, PasswordOK, Live
  <2>4. UserInv' /\ ChainInv' /\ RotationChains' /\ LedgerInv' /\ LastLoginInv'
    BY <2>1, DataFrame
  <2> QED
    BY <2>2, <2>3, <2>4 DEF SessionsInv
<1> QED
  BY <1>1, <1>2, <1>3, <1>4 DEF Next

\* What the theorems below rest on: the types, the calls' assumptions, the chains and
\* the ledger hold together in every reachable state.
THEOREM SessionsInvariant == Spec => []SessionsInv
<1>1. Init => SessionsInv
  BY SessionsInit
<1>2. SessionsInv /\ [Next]_vars => SessionsInv'
  BY SessionsInductive
<1> QED
  BY <1>1, <1>2, PTL DEF Spec

\* However many logins, refreshes, logouts and sweeps race, the refresh tokens of a
\* login form a chain with at most one live token, and no sweep deletes the row that a
\* row it keeps was replaced by.
THEOREM RotationsChain == Spec => []RotationChains
<1>1. SessionsInv => RotationChains
  BY DEF SessionsInv
<1> QED
  BY <1>1, SessionsInvariant, PTL

\* Truncating to the second keeps the order of two times, and once is enough.
LEMMA TruncProperties ==
  ASSUME NEW a \in Nat, NEW b \in Nat, a <= b
  PROVE  /\ Trunc(a) \in Nat /\ Trunc(a) <= Trunc(b) /\ Trunc(Trunc(a)) = Trunc(a)
<1> DEFINE S == Second
           p == a \div S
           q == b \div S
<1>1. S \in Nat /\ S > 0
  BY Lifetimes
<1> HIDE DEF S
<1>2. p \in Nat /\ q \in Nat /\ p <= q
  BY <1>1
<1>3. (p * S) \div S = p
  <2> HIDE DEF p
  <2> QED
    BY <1>1, <1>2
<1> HIDE DEF p, q
<1>4. p * S \in Nat /\ p * S <= q * S
  BY <1>1, <1>2
<1>5. Trunc(a) = p * S /\ Trunc(b) = q * S /\ Trunc(p * S) = ((p * S) \div S) * S
  BY DEF Trunc, p, q, S
<1> QED
  BY <1>3, <1>4, <1>5

\* A password change ends what was opened under an older password: whatever login or
\* refresh raced whatever change, a session that did not overlap one is not live under
\* an older password, and its access token is refused, except within the very second.
THEOREM OldPasswordsEnd == Spec => []OldPasswordEnds
<1>1. ASSUME SessionsInv PROVE OldPasswordEnds
  <2> SUFFICES ASSUME NEW t \in DOMAIN sessions, sessions[t].pw # user.pw, ~sessions[t].raced
               PROVE  /\ ~Live(t)
                      /\ authenticateUser(t) => Trunc(sessions[t].access) = Trunc(user.changed)
    BY DEF OldPasswordEnds
  <2>1. ~Live(t) /\ sessions[t].access <= user.changed
    BY <1>1 DEF SessionsInv, UserInv
  <2>2. sessions[t].access \in Nat /\ user.changed \in Nat
    BY <1>1, Typed, RowTyped DEF Rows
  <2>3. /\ Trunc(sessions[t].access) <= Trunc(user.changed)
        /\ Trunc(Trunc(sessions[t].access)) = Trunc(sessions[t].access)
        /\ Trunc(sessions[t].access) \in Nat
    BY <2>1, <2>2, TruncProperties
  <2>4. Trunc(user.changed) \in Nat
    <3>1. user.changed <= user.changed
      BY <2>2
    <3> QED
      BY <2>2, <3>1, TruncProperties
  <2>5. ASSUME authenticateUser(t)
        PROVE  ~(Trunc(Trunc(sessions[t].access)) < Trunc(user.changed))
    BY <2>5 DEF authenticateUser, TokenIssuedAfterPasswordChange
  <2> HIDE DEF Trunc
  <2>6. authenticateUser(t) => Trunc(sessions[t].access) = Trunc(user.changed)
    BY <2>3, <2>4, <2>5
  <2> QED
    BY <2>1, <2>6
<1> QED
  BY <1>1, SessionsInvariant, PTL

\* The greatest of a set of numbers is the one that bounds the others.
LEMMA GreatestIs ==
  ASSUME NEW S \in SUBSET Int, NEW m \in S, \A y \in S : y <= m
  PROVE  Max(S) = m
<1> DEFINE P(x) == x \in S /\ \A y \in S : x >= y
<1>1. P(m) /\ \A x : P(x) => x = m
  <2>1. ASSUME NEW y \in S PROVE m >= y
    <3>1. y \in Int /\ m \in Int /\ y <= m
      OBVIOUS
    <3> QED
      BY <3>1
  <2>2. ASSUME NEW x, P(x) PROVE x = m
    <3>1. x \in Int /\ m \in Int /\ x <= m /\ x >= m
      BY <2>2
    <3> QED
      BY <3>1
  <2> QED
    BY <2>1, <2>2
<1>2. Max(S) = CHOOSE x : P(x)
  BY DEF Max
<1> HIDE DEF P
<1>3. P(CHOOSE x : P(x))
  BY <1>1
<1> QED
  BY <1>1, <1>2, <1>3

\* Every change of the account, and no other, is in the audit log, whoever raced, and
\* last_login_at is the newest login.
THEOREM AuditsAccount == Spec => []AuditAccounts
<1>1. ASSUME SessionsInv PROVE AuditAccounts
  <2> DEFINE S == {0} \cup {sessions[t].expires - RefreshTTL : t \in Opened}
             m == user.lastLogin
  <2>1. m \in Nat /\ user.pw \in Nat /\ RefreshTTL \in Nat
    BY <1>1, Typed, Lifetimes
  <2>2. ASSUME NEW t \in Opened
        PROVE  /\ sessions[t].expires - RefreshTTL \in Int
               /\ sessions[t].expires - RefreshTTL <= m
               /\ sessions[t].expires \in Nat
    <3>1. t \in DOMAIN sessions
      BY DEF Opened
    <3>2. sessions[t].expires \in Nat
      BY <1>1, <3>1, RowTyped DEF Rows
    <3>3. sessions[t].expires <= m + RefreshTTL
      BY <1>1 DEF SessionsInv, LastLoginInv
    <3> QED
      BY <2>1, <3>2, <3>3
  <2>3. S \in SUBSET Int /\ \A y \in S : y <= m
    BY <2>1, <2>2
  <2>4. m \in S
    <3>1. CASE m = 0
      BY <3>1
    <3>2. ASSUME NEW t \in Opened, sessions[t].expires = m + RefreshTTL PROVE m \in S
      <4>1. sessions[t].expires - RefreshTTL = m
        BY <2>1, <2>2, <3>2
      <4> QED
        BY <4>1
    <3> QED
      BY <1>1, <3>1, <3>2 DEF SessionsInv, LastLoginInv
  <2>5. user.lastLogin = Max(S)
    <3> HIDE DEF S
    <3> QED
      BY <2>3, <2>4, GreatestIs
  <2>6. user.exists => audit["user.password_change"] = user.pw - 1
    <3>1. audit["user.password_change"] \in Nat
      BY <1>1 DEF SessionsInv, TypeOK, AuditActions
    <3>2. user.exists => audit["user.password_change"] + 1 = user.pw
      BY <1>1 DEF SessionsInv, LedgerInv
    <3> QED
      BY <2>1, <3>1, <3>2
  <2> QED
    BY <1>1, <2>5, <2>6 DEF SessionsInv, LedgerInv, AuditAccounts
<1> QED
  BY <1>1, SessionsInvariant, PTL

(***************************************************************************)
(* The throttle.                                                           *)
(***************************************************************************)

\* The failures that Recent counts.
Young(times, now) ==
  {i \in DOMAIN times : \A j \in i..Len(times) : now < times[j].at + LoginFailureWindow}

\* They are finitely many, and none when there are none or the last is too old.
LEMMA YoungFacts ==
  ASSUME NEW times \in Seq(Failures), NEW now \in Nat
  PROVE  /\ Recent(times, now) = Cardinality(Young(times, now))
         /\ IsFiniteSet(Young(times, now)) /\ Recent(times, now) \in Nat
         /\ Young(times, now) \subseteq 1..Len(times)
         /\ times = <<>> \/ ~(now < times[Len(times)].at + LoginFailureWindow) => Recent(times, now) = 0
<1>1. Recent(times, now) = Cardinality(Young(times, now))
  BY DEF Recent, Young
<1>2. Len(times) \in Nat /\ DOMAIN times = 1..Len(times)
  BY LenProperties
<1>3. Young(times, now) \in SUBSET (1..Len(times))
  BY <1>2 DEF Young
<1>4. IsFiniteSet(1..Len(times))
  BY <1>2, FS_Interval
<1>5. IsFiniteSet(Young(times, now))
  BY <1>3, <1>4, FS_Subset
<1>6. Cardinality(Young(times, now)) \in Nat
  BY <1>5, FS_CardinalityType
<1>7. ASSUME times = <<>> \/ ~(now < times[Len(times)].at + LoginFailureWindow)
      PROVE  Cardinality(Young(times, now)) = 0
  <2>1. ASSUME NEW i \in Young(times, now) PROVE FALSE
    <3>1. i \in 1..Len(times)
      BY <1>3, <2>1
    <3>2. times # <<>> /\ Len(times) \in i..Len(times)
      BY <1>2, <3>1
    <3>3. now < times[Len(times)].at + LoginFailureWindow
      BY <2>1, <3>2 DEF Young
    <3> QED
      BY <1>7, <3>2, <3>3
  <2>2. Young(times, now) = {}
    BY <2>1
  <2> QED
    BY <2>2, FS_EmptySet
<1> QED
  BY <1>1, <1>3, <1>5, <1>6, <1>7

\* One more failure is at most one more to count.
LEMMA OneMoreFailure ==
  ASSUME NEW times \in Seq(Failures), NEW x \in Failures, NEW now \in Nat
  PROVE  Recent(Append(times, x), now) <= Recent(times, now) + 1
<1> DEFINE ts == Append(times, x)
           l == Len(times) + 1
<1>1. /\ ts \in Seq(Failures) /\ Len(ts) = l /\ \A i \in 1..Len(times) : ts[i] = times[i]
  BY AppendProperties
<1>2. Len(times) \in Nat /\ DOMAIN times = 1..Len(times) /\ DOMAIN ts = 1..l
  BY <1>1, LenProperties
<1> HIDE DEF ts
<1>3. Young(ts, now) \subseteq Young(times, now) \cup {l}
  <2> SUFFICES ASSUME NEW i \in Young(ts, now), i # l PROVE i \in Young(times, now)
    OBVIOUS
  <2>1. i \in 1..l /\ \A j \in i..l : now < ts[j].at + LoginFailureWindow
    BY <1>1, <1>2 DEF Young
  <2>2. i \in 1..Len(times)
    BY <1>2, <2>1
  <2>3. ASSUME NEW j \in i..Len(times) PROVE now < times[j].at + LoginFailureWindow
    <3>1. j \in i..l /\ j \in 1..Len(times)
      BY <1>2, <2>2
    <3> QED
      BY <1>1, <2>1, <3>1
  <2> QED
    BY <1>2, <2>2, <2>3 DEF Young
<1>4. IsFiniteSet(Young(times, now)) /\ l \notin Young(times, now)
  <2>1. l \notin 1..Len(times)
    BY <1>2
  <2> QED
    BY <2>1, YoungFacts
<1>5. /\ IsFiniteSet(Young(times, now) \cup {l})
      /\ Cardinality(Young(times, now) \cup {l}) = Cardinality(Young(times, now)) + 1
  BY <1>4, FS_AddElement
<1>6. Cardinality(Young(ts, now)) <= Cardinality(Young(times, now)) + 1
  BY <1>3, <1>5, FS_Subset
<1> QED
  BY <1>1, <1>6, YoungFacts DEF ts

\* A step that leaves the throttle alone keeps it, as time only goes on.
LEMMA ThrottleKept ==
  ASSUME SessionsInv, ThrottleInv, UNCHANGED <<counts, failed>>, clock' \in Nat, clock <= clock'
  PROVE  ThrottleInv'
<1>1. clock \in Nat /\ MaxClock \in Nat
  BY Typed, Lifetimes
<1>2. ASSUME NEW n \in clock'..MaxClock PROVE n \in clock..MaxClock
  BY <1>1
<1> QED
  BY <1>2 DEF ThrottleInv, Recent

\* A refused login is counted, whatever the time it was sampled at: a window found to
\* have passed holds no failure that is still young.
LEMMA ThrottleRefused ==
  ASSUME SessionsInv, ThrottleInv, NEW c \in Calls, RefuseLogin(c)
  PROVE  ThrottleInv'
<1> DEFINE key == call[c].key
           now == call[c].now
           x == [at |-> now, counted |-> clock]
<1>1. now \in Nat /\ now <= clock /\ clock \in Nat /\ MaxClock \in Nat /\ LoginFailureWindow \in Nat
  BY Typed, Lifetimes DEF CallRecords, TokenOK
<1>2. /\ counts' = [counts EXCEPT ![key] = Counted(counts[key], now)]
      /\ failed' = [failed EXCEPT ![key] = Append(failed[key], x)] /\ clock' = clock
  BY DEF RefuseLogin, fail
<1>7. x \in Failures /\ x.at = now
  BY <1>1 DEF Failures
<1> HIDE DEF key, now, x
<1> SUFFICES ASSUME NEW k \in Clients
             PROVE  /\ failed'[k] # <<>> => counts'[k].until = failed'[k][Len(failed'[k])].at + LoginFailureWindow
                    /\ \A n \in clock..MaxClock : Recent(failed'[k], n) <= counts'[k].failures
  BY <1>2 DEF ThrottleInv, Recent
<1> DEFINE w == counts[k]
           times == failed[k]
<1>3. w \in [failures : Nat, until : Nat] /\ times \in Seq(Failures)
  BY Typed
<1>4. /\ times # <<>> => w.until = times[Len(times)].at + LoginFailureWindow
      /\ \A n \in clock..MaxClock : Recent(times, n) <= w.failures
  BY DEF ThrottleInv
<1>5. CASE k # key
  <2>1. failed'[k] = times /\ counts'[k] = w
    BY <1>2, <1>5, Typed
  <2> QED
    BY <1>4, <2>1
<1>6. CASE k = key
  <2>1. failed'[k] = Append(times, x) /\ counts'[k] = Counted(w, now)
    BY <1>2, <1>6, Typed
  <2> HIDE DEF w, times
  <2>2. Append(times, x) \in Seq(Failures) /\ Append(times, x)[Len(Append(times, x))].at = now
    BY <1>3, <1>7, AppendProperties
  <2>3. /\ Counted(w, now).until = now + LoginFailureWindow
        /\ Counted(w, now).failures = (IF now > w.until THEN 0 ELSE w.failures) + 1
    BY DEF Counted
  <2>4. ASSUME NEW n \in clock..MaxClock
        PROVE  Recent(Append(times, x), n) <= Counted(w, now).failures
    <3>1. n \in Nat /\ now <= n /\ w.failures \in Nat /\ w.until \in Nat
      BY <1>1, <1>3
    <3>2. /\ Recent(Append(times, x), n) <= Recent(times, n) + 1
          /\ Recent(times, n) \in Nat /\ Recent(Append(times, x), n) \in Nat
      BY <1>3, <1>7, <2>2, <3>1, OneMoreFailure, YoungFacts
    <3>3. CASE now > w.until
      <4>1. Recent(times, n) = 0
        <5>1. CASE times = <<>>
          BY <1>3, <3>1, <5>1, YoungFacts
        <5>2. CASE times # <<>>
          <6>1. w.until = times[Len(times)].at + LoginFailureWindow
            BY <1>4, <5>2
          <6>2. ~(n < w.until)
            BY <1>1, <3>1, <3>3
          <6> QED
            BY <1>3, <3>1, <6>1, <6>2, YoungFacts
        <5> QED
          BY <5>1, <5>2
      <4> QED
        BY <2>3, <3>2, <3>3, <4>1
    <3>4. CASE ~(now > w.until)
      <4>1. Recent(times, n) <= w.failures
        BY <1>4
      <4> QED
        BY <2>3, <3>1, <3>2, <3>4, <4>1
    <3> QED
      BY <3>3, <3>4
  <2> QED
    BY <2>1, <2>2, <2>3, <2>4
<1> QED
  BY <1>5, <1>6

\* A success forgets the key.
LEMMA ThrottleVerified ==
  ASSUME SessionsInv, ThrottleInv, NEW c \in Calls, LoginVerified(c)
  PROVE  ThrottleInv'
<1> DEFINE key == call[c].key
<1>1. /\ counts' = [counts EXCEPT ![key] = NoWindow] /\ failed' = [failed EXCEPT ![key] = <<>>]
      /\ clock' = clock
  BY DEF LoginVerified, succeed
<1> HIDE DEF key
<1> SUFFICES ASSUME NEW k \in Clients
             PROVE  /\ failed'[k] # <<>> => counts'[k].until = failed'[k][Len(failed'[k])].at + LoginFailureWindow
                    /\ \A n \in clock..MaxClock : Recent(failed'[k], n) <= counts'[k].failures
  BY <1>1 DEF ThrottleInv, Recent
<1>2. CASE k # key
  <2>1. failed'[k] = failed[k] /\ counts'[k] = counts[k]
    BY <1>1, <1>2, Typed
  <2> QED
    BY <2>1 DEF ThrottleInv
<1>3. CASE k = key
  <2>1. failed'[k] = <<>> /\ counts'[k].failures = 0
    BY <1>1, <1>3, Typed DEF NoWindow
  <2>2. ASSUME NEW n \in clock..MaxClock PROVE Recent(<<>>, n) = 0
    <3>1. n \in Nat
      BY Typed, Lifetimes
    <3>2. <<>> \in Seq(Failures)
      OBVIOUS
    <3> QED
      BY <3>1, <3>2, YoungFacts
  <2> QED
    BY <2>1, <2>2
<1> QED
  BY <1>2, <1>3

\* Every step keeps the throttle's promise.
LEMMA ThrottleInductive ==
  SessionsInv /\ ThrottleInv /\ [Next]_vars => ThrottleInv'
<1> SUFFICES ASSUME SessionsInv, ThrottleInv, [Next]_vars PROVE ThrottleInv'
  OBVIOUS
<1>0. clock \in Nat /\ clock <= clock
  BY Typed
<1>1. CASE Advance
  <2>1. clock' \in Nat /\ clock <= clock' /\ UNCHANGED <<counts, failed>>
    BY <1>0, <1>1 DEF Advance
  <2> QED
    BY <2>1, ThrottleKept
<1>2. ASSUME NEW c \in Calls, Begin(c) PROVE ThrottleInv'
  <2>1. UNCHANGED <<clock, counts, failed>>
    BY <1>2 DEF Begin, Create, Disable, SetPassword, Login, Refresh, Logout
  <2> QED
    BY <1>0, <2>1, ThrottleKept
<1>3. ASSUME NEW c \in Calls, Continue(c) PROVE ThrottleInv'
  <2>1. CASE LoginTooLong(c) \/ LoginRefused(c)
    BY <2>1, ThrottleRefused DEF LoginTooLong, LoginRefused
  <2>2. CASE LoginVerified(c)
    BY <2>2, ThrottleVerified
  <2>3. CASE \/ UpdateUser(c) \/ DisableAdminUser(c) \/ SetAdminUserPassword(c)
             \/ AdminUserForLogin(c) \/ StartAdminSession(c) \/ RefreshLookup(c)
             \/ RotateAdminSession(c) \/ auditSessionReuse(c) \/ RevokeAdminSessions(c)
             \/ EndAdminSession(c) \/ Fail(c)
    <3>1. UNCHANGED <<clock, counts, failed>>
      BY <2>3 DEF UpdateUser, DisableAdminUser, SetAdminUserPassword, AdminUserForLogin,
                  StartAdminSession, RefreshLookup, RotateAdminSession, auditSessionReuse,
                  RevokeAdminSessions, EndAdminSession, Fail
    <3> QED
      BY <1>0, <3>1, ThrottleKept
  <2> QED
    BY <1>3, <2>1, <2>2, <2>3 DEF Continue
<1>4. CASE UNCHANGED vars
  BY <1>0, <1>4, ThrottleKept DEF vars
<1> QED
  BY <1>1, <1>2, <1>3, <1>4 DEF Next

\* A failure counted now is the last by the clock as by its place.
LEMMA CountedGrows ==
  ASSUME NEW fs \in Seq(Failures), NEW now \in Nat, NEW x \in Failures, x.counted = now,
         \A i, j \in DOMAIN fs :
           fs[i].counted <= now /\ (i <= j => fs[i].counted <= fs[j].counted)
  PROVE  LET g == Append(fs, x) IN
         \A i, j \in DOMAIN g :
           g[i].counted <= now /\ (i <= j => g[i].counted <= g[j].counted)
<1> DEFINE g == Append(fs, x)
           l == Len(fs) + 1
<1>1. /\ DOMAIN fs = 1..Len(fs) /\ DOMAIN g = 1..l /\ Len(fs) \in Nat
      /\ g[l] = x /\ \A i \in 1..Len(fs) : g[i] = fs[i]
  BY AppendProperties, LenProperties
<1> HIDE DEF g
<1>2. ASSUME NEW i \in 1..l PROVE i = l \/ i \in 1..Len(fs)
  BY <1>1
<1>3. ASSUME NEW i \in DOMAIN g, NEW j \in DOMAIN g
      PROVE  g[i].counted <= now /\ (i <= j => g[i].counted <= g[j].counted)
  <2>1. CASE i = l
    <3>1. i <= j => j = l
      BY <1>1, <2>1
    <3>2. now <= now
      OBVIOUS
    <3> QED
      BY <1>1, <2>1, <3>1, <3>2
  <2>2. CASE i \in 1..Len(fs) /\ j = l
    BY <1>1, <2>2
  <2>3. CASE i \in 1..Len(fs) /\ j \in 1..Len(fs)
    BY <1>1, <2>3
  <2> QED
    BY <1>1, <1>2, <2>1, <2>2, <2>3
<1> QED
  BY <1>3 DEF g

\* Every step keeps the failures in the order of the clock.
LEMMA CountedInductive ==
  SessionsInv /\ CountedInv /\ [Next]_vars => CountedInv'
<1> SUFFICES ASSUME SessionsInv, CountedInv, [Next]_vars PROVE CountedInv'
  OBVIOUS
<1>0. clock \in Nat /\ clock <= clock /\ failed \in [Clients -> Seq(Failures)]
  BY Typed
<1>5. ASSUME NEW k \in Clients, NEW i \in DOMAIN failed[k] PROVE failed[k][i].counted \in Nat
  <2>1. failed[k] \in Seq(Failures)
    BY <1>0
  <2>2. failed[k][i] \in Failures
    BY <1>5, <2>1
  <2> QED
    BY <2>2 DEF Failures
<1>6. ASSUME UNCHANGED failed, clock' \in Nat, clock <= clock' PROVE CountedInv'
  <2> SUFFICES ASSUME NEW k \in Clients, NEW i \in DOMAIN failed[k], NEW j \in DOMAIN failed[k]
               PROVE  /\ failed[k][i].counted <= clock'
                      /\ i <= j => failed[k][i].counted <= failed[k][j].counted
    BY <1>6 DEF CountedInv
  <2>1. /\ failed[k][i].counted <= clock
        /\ i <= j => failed[k][i].counted <= failed[k][j].counted
    BY DEF CountedInv
  <2>2. failed[k][i].counted \in Nat
    BY <1>5
  <2> QED
    BY <1>0, <1>6, <2>1, <2>2
<1>1. CASE Advance
  <2>1. clock' \in Nat /\ clock <= clock' /\ UNCHANGED failed
    BY <1>0, <1>1 DEF Advance
  <2> QED
    BY <1>6, <2>1
<1>2. ASSUME NEW c \in Calls, Begin(c) PROVE CountedInv'
  <2>1. UNCHANGED <<clock, failed>>
    BY <1>2 DEF Begin, Create, Disable, SetPassword, Login, Refresh, Logout
  <2> QED
    BY <1>0, <1>6, <2>1
<1>3. ASSUME NEW c \in Calls, Continue(c) PROVE CountedInv'
  <2> DEFINE key == call[c].key
  <2>1. CASE LoginTooLong(c) \/ LoginRefused(c)
    <3> DEFINE x == [at |-> call[c].now, counted |-> clock]
    <3>1. failed' = [failed EXCEPT ![key] = Append(failed[key], x)] /\ clock' = clock
      BY <2>1 DEF LoginTooLong, LoginRefused, RefuseLogin, fail
    <3>2. x \in Failures /\ x.counted = clock
      <4>1. call[c].now \in Nat
        BY Typed DEF CallRecords
      <4> QED
        BY <1>0, <4>1 DEF Failures
    <3> HIDE DEF x, key
    <3> SUFFICES ASSUME NEW k \in Clients
                 PROVE  \A i, j \in DOMAIN failed'[k] :
                          /\ failed'[k][i].counted <= clock
                          /\ i <= j => failed'[k][i].counted <= failed'[k][j].counted
      BY <3>1 DEF CountedInv
    <3>3. \A i, j \in DOMAIN failed[k] :
            failed[k][i].counted <= clock /\ (i <= j => failed[k][i].counted <= failed[k][j].counted)
      BY DEF CountedInv
    <3>4. CASE k # key
      BY <1>0, <3>1, <3>3, <3>4
    <3>5. CASE k = key
      <4>1. failed'[k] = Append(failed[k], x) /\ failed[k] \in Seq(Failures)
        BY <1>0, <3>1, <3>5
      <4> QED
        BY <1>0, <3>2, <3>3, <4>1, CountedGrows
    <3> QED
      BY <3>4, <3>5
  <2>2. CASE LoginVerified(c)
    <3>1. failed' = [failed EXCEPT ![key] = <<>>] /\ clock' = clock
      BY <2>2 DEF LoginVerified, succeed
    <3> HIDE DEF key
    <3>2. ASSUME NEW k \in Clients PROVE failed'[k] = failed[k] \/ DOMAIN failed'[k] = {}
      <4>1. DOMAIN <<>> = {}
        OBVIOUS
      <4> QED
        BY <1>0, <3>1, <4>1
    <3> QED
      BY <3>1, <3>2 DEF CountedInv
  <2>3. CASE \/ UpdateUser(c) \/ DisableAdminUser(c) \/ SetAdminUserPassword(c)
             \/ AdminUserForLogin(c) \/ StartAdminSession(c) \/ RefreshLookup(c)
             \/ RotateAdminSession(c) \/ auditSessionReuse(c) \/ RevokeAdminSessions(c)
             \/ EndAdminSession(c) \/ Fail(c)
    <3>1. UNCHANGED <<clock, failed>>
      BY <2>3 DEF UpdateUser, DisableAdminUser, SetAdminUserPassword, AdminUserForLogin,
                  StartAdminSession, RefreshLookup, RotateAdminSession, auditSessionReuse,
                  RevokeAdminSessions, EndAdminSession, Fail
    <3> QED
      BY <1>0, <1>6, <3>1
  <2> QED
    BY <1>3, <2>1, <2>2, <2>3 DEF Continue
<1>4. CASE UNCHANGED vars
  BY <1>0, <1>4, <1>6 DEF vars
<1> QED
  BY <1>1, <1>2, <1>3, <1>4 DEF Next

\* A failure that stands is young, and so is every one counted after it.
LEMMA StandingIsYoung ==
  ASSUME NEW fs \in Seq(Failures), NEW now \in Nat,
         \A i, j \in DOMAIN fs : i <= j => fs[i].counted <= fs[j].counted
  PROVE  Cardinality(Standing(fs, now)) \in Nat /\ Cardinality(Standing(fs, now)) <= Recent(fs, now)
<1>1. DOMAIN fs = 1..Len(fs) /\ Len(fs) \in Nat /\ LoginFailureWindow \in Nat
  BY LenProperties, Lifetimes
<1>2. ASSUME NEW i \in Standing(fs, now) PROVE i \in Young(fs, now)
  <2>1. i \in 1..Len(fs)
    BY <1>1 DEF Standing
  <2>2. ASSUME NEW j \in i..Len(fs) PROVE now < fs[j].at + LoginFailureWindow
    <3>1. j \in 1..Len(fs) /\ i <= j
      BY <1>1, <2>1
    <3>2. fs[i] \in Failures /\ fs[j] \in Failures
      BY <1>1, <2>1, <3>1
    <3>3. /\ fs[i].counted \in Nat /\ fs[j].counted \in Nat /\ fs[j].at \in Nat
      BY <3>2 DEF Failures
    <3>4. fs[i].counted <= fs[j].counted
      BY <1>1, <2>1, <3>1
    <3>5. now + (fs[j].counted - fs[j].at) < fs[i].counted + LoginFailureWindow
      BY <2>2 DEF Standing
    <3>6. \A a, b, at, w \in Nat : a <= b /\ now + (b - at) < a + w => now < at + w
      OBVIOUS
    <3> QED
      BY <1>1, <3>3, <3>4, <3>5, <3>6
  <2> QED
    BY <1>1, <2>1, <2>2 DEF Young
<1>3. Standing(fs, now) \subseteq Young(fs, now)
  BY <1>2
<1>4. IsFiniteSet(Young(fs, now)) /\ Recent(fs, now) = Cardinality(Young(fs, now))
  BY YoungFacts
<1>5. /\ IsFiniteSet(Standing(fs, now))
      /\ Cardinality(Standing(fs, now)) <= Cardinality(Young(fs, now))
  BY <1>3, <1>4, FS_Subset
<1> QED
  BY <1>4, <1>5, FS_CardinalityType

\* A call that moves to another phase than the look-up.
LEMMA MovesElsewhere ==
  ASSUME SessionsInv, NEW d \in Calls, NEW r, call' = [call EXCEPT ![d] = r], r.pc # "looking",
         NEW c \in Calls, call[c].pc = "idle"
  PROVE  call'[c].pc # "looking"
BY Typed

\* Only Login takes a call as far as the look-up.
LEMMA OnlyLoginLooks ==
  ASSUME SessionsInv, Next, NEW c \in Calls, call[c].pc = "idle", call'[c].pc = "looking"
  PROVE  \E key \in Clients, pw \in 0..user.pw : Login(c, key, pw) /\ ~blocked(key, clock) /\ call'[c].key = key
<1>1. ASSUME NEW d \in Calls, End(d) PROVE FALSE
  BY <1>1, IdleCall, MovesElsewhere DEF End
<1>2. ASSUME NEW d \in Calls, NEW p, p # "looking", NEW r, r = [call[d] EXCEPT !.pc = p],
             call' = [call EXCEPT ![d] = r]
      PROVE  FALSE
  <2>1. call[d] \in CallRecords
    BY Typed
  <2>2. r.pc = p
    BY <1>2, <2>1 DEF CallRecords
  <2> QED
    BY <1>2, <2>2, MovesElsewhere
<1>3. ASSUME Advance PROVE FALSE
  BY <1>3 DEF Advance
<1>4. ASSUME NEW d \in Calls, Create(d) \/ Disable(d) \/ SetPassword(d) PROVE FALSE
  <2>1. CASE Create(d)
    BY <1>1, <2>1 DEF Create
  <2>2. CASE Disable(d)
    <3> DEFINE r == [Call("disabling") EXCEPT !.op = "disable"]
    <3>1. r.pc = "disabling"
      BY DEF Call
    <3>2. End(d) \/ call' = [call EXCEPT ![d] = r]
      BY <2>2 DEF Disable
    <3> HIDE DEF r
    <3> QED
      BY <1>1, <3>1, <3>2, MovesElsewhere
  <2>3. CASE SetPassword(d)
    <3> DEFINE r == [Call("setting") EXCEPT !.op = "password", !.now = clock]
    <3>1. r.pc = "setting"
      BY DEF Call
    <3>2. End(d) \/ call' = [call EXCEPT ![d] = r]
      BY <2>3 DEF SetPassword
    <3> HIDE DEF r
    <3> QED
      BY <1>1, <3>1, <3>2, MovesElsewhere
  <2> QED
    BY <1>4, <2>1, <2>2, <2>3
<1>5. ASSUME NEW d \in Calls, NEW t \in DOMAIN sessions, Refresh(d, t) \/ Logout(d, t) PROVE FALSE
  <2>1. CASE Refresh(d, t)
    <3> DEFINE r == [Call("refreshing") EXCEPT !.now = clock, !.token = t]
    <3>1. r.pc = "refreshing"
      BY DEF Call
    <3>2. call' = [call EXCEPT ![d] = r]
      BY <2>1 DEF Refresh
    <3> HIDE DEF r
    <3> QED
      BY <3>1, <3>2, MovesElsewhere
  <2>2. CASE Logout(d, t)
    <3> DEFINE r == [Call("ending") EXCEPT !.token = t]
    <3>1. r.pc = "ending"
      BY DEF Call
    <3>2. End(d) \/ call' = [call EXCEPT ![d] = r]
      BY <2>2 DEF Logout
    <3> HIDE DEF r
    <3> QED
      BY <1>1, <3>1, <3>2, MovesElsewhere
  <2> QED
    BY <1>5, <2>1, <2>2
<1>6. ASSUME NEW d \in Calls, Continue(d) PROVE FALSE
  <2>1. call[d] \in CallRecords /\ call \in [Calls -> CallRecords]
    BY Typed
  <2>2. \/ End(d)
        \/ call' = [call EXCEPT ![d].pc = "revoking", ![d].cut = {t \in DOMAIN sessions : Live(t)}]
        \/ call' = [call EXCEPT ![d].pc = "verifying", ![d].hash = user.pw,
                                ![d].off = ~user.exists \/ user.disabled]
        \/ call' = [call EXCEPT ![d].pc = "starting", ![d].access = clock]
        \/ Goto(d, "reusing")
        \/ call' = [call EXCEPT ![d].pc = "rotating", ![d].access = clock]
        \/ call' = [call EXCEPT ![d].pc = "cutting", ![d].cut = {t \in DOMAIN sessions : Live(t)}]
    BY <1>6 DEF Continue, UpdateUser, DisableAdminUser, SetAdminUserPassword, LoginTooLong,
                LoginRefused, RefuseLogin, AdminUserForLogin, LoginVerified, StartAdminSession,
                RefreshLookup, RotateAdminSession, auditSessionReuse, RevokeAdminSessions,
                EndAdminSession, Fail
  <2>3. \E r : call' = [call EXCEPT ![d] = r] /\ r.pc # "looking"
    <3>1. ASSUME End(d) PROVE FALSE
      BY <1>1, <3>1
    <3>2. ASSUME call' = [call EXCEPT ![d].pc = "revoking", ![d].cut = {t \in DOMAIN sessions : Live(t)}]
          PROVE  \E r : call' = [call EXCEPT ![d] = r] /\ r.pc # "looking"
      BY <2>1, <3>2 DEF CallRecords
    <3>3. ASSUME call' = [call EXCEPT ![d].pc = "verifying", ![d].hash = user.pw,
                                      ![d].off = ~user.exists \/ user.disabled]
          PROVE  \E r : call' = [call EXCEPT ![d] = r] /\ r.pc # "looking"
      BY <2>1, <3>3 DEF CallRecords
    <3>4. ASSUME call' = [call EXCEPT ![d].pc = "starting", ![d].access = clock]
          PROVE  \E r : call' = [call EXCEPT ![d] = r] /\ r.pc # "looking"
      BY <2>1, <3>4 DEF CallRecords
    <3>5. ASSUME Goto(d, "reusing")
          PROVE  \E r : call' = [call EXCEPT ![d] = r] /\ r.pc # "looking"
      BY <2>1, <3>5 DEF CallRecords, Goto
    <3>6. ASSUME call' = [call EXCEPT ![d].pc = "rotating", ![d].access = clock]
          PROVE  \E r : call' = [call EXCEPT ![d] = r] /\ r.pc # "looking"
      BY <2>1, <3>6 DEF CallRecords
    <3>7. ASSUME call' = [call EXCEPT ![d].pc = "cutting", ![d].cut = {t \in DOMAIN sessions : Live(t)}]
          PROVE  \E r : call' = [call EXCEPT ![d] = r] /\ r.pc # "looking"
      BY <2>1, <3>7 DEF CallRecords
    <3> QED
      BY <2>2, <3>1, <3>2, <3>3, <3>4, <3>5, <3>6, <3>7
  <2> QED
    BY <2>3, MovesElsewhere
<1>7. ASSUME NEW d \in Calls, NEW key \in Clients, NEW pw \in 0..user.pw, Login(d, key, pw)
      PROVE  d = c /\ ~blocked(key, clock) /\ call'[c].key = key
  <2> DEFINE r == [Call("looking") EXCEPT !.now = clock, !.key = key, !.pw = pw]
  <2>1. ~blocked(key, clock) /\ call' = [call EXCEPT ![d] = r]
    BY <1>1, <1>7 DEF Login
  <2>2. r.key = key
    BY DEF Call
  <2> HIDE DEF r
  <2>3. d = c
    BY <2>1, Typed
  <2> QED
    BY <2>1, <2>2, <2>3, Typed
<1>8. PICK d \in Calls : Begin(d)
  BY <1>3, <1>6 DEF Next
<1>9. PICK key \in Clients, pw \in 0..user.pw : Login(d, key, pw)
  BY <1>4, <1>5, <1>8 DEF Begin
<1> QED
  BY <1>7, <1>9

\* The throttle's invariant, with the sessions'.
LEMMA ThrottleInvariant == Spec => [](SessionsInv /\ ThrottleInv /\ CountedInv)
<1>1. ASSUME Init PROVE SessionsInv /\ ThrottleInv /\ CountedInv
  <2>1. SessionsInv
    BY <1>1, SessionsInit
  <2>2. ASSUME NEW k \in Clients PROVE failed[k] = <<>> /\ counts[k].failures = 0
    BY <1>1, <2>2 DEF Init, NoWindow
  <2>3. ASSUME NEW n \in clock..MaxClock PROVE Recent(<<>>, n) = 0
    <3>1. n \in Nat /\ <<>> \in Seq(Failures)
      BY <2>1, Typed, Lifetimes
    <3> QED
      BY <3>1, YoungFacts
  <2>4. ThrottleInv
    BY <2>2, <2>3 DEF ThrottleInv
  <2>5. CountedInv
    <3>1. DOMAIN <<>> = {}
      OBVIOUS
    <3> QED
      BY <2>2, <3>1 DEF CountedInv
  <2> QED
    BY <2>1, <2>4, <2>5
<1>2. SessionsInv /\ ThrottleInv /\ CountedInv /\ [Next]_vars => (SessionsInv /\ ThrottleInv /\ CountedInv)'
  BY SessionsInductive, ThrottleInductive, CountedInductive
<1> QED
  BY <1>1, <1>2, PTL DEF Spec

\* No login gets as far as the look-up while MaxLoginFailures failures of its key are
\* within the window, less the time the slowest login counted since took: failures are
\* counted at the times their calls began and so out of order.
THEOREM ThrottleIsKept == Spec => ThrottleHolds
<1> DEFINE Held == \A c \in Calls :
             call[c].pc = "idle" /\ call'[c].pc = "looking" =>
               Cardinality(Standing(failed[call'[c].key], clock)) < MaxLoginFailures
<1>1. ASSUME SessionsInv, ThrottleInv, CountedInv, Next, NEW c \in Calls,
             call[c].pc = "idle", call'[c].pc = "looking"
      PROVE  Cardinality(Standing(failed[call'[c].key], clock)) < MaxLoginFailures
  <2>1. PICK key \in Clients : ~blocked(key, clock) /\ call'[c].key = key
    BY <1>1, OnlyLoginLooks
  <2>2. clock \in Nat /\ clock \in clock..MaxClock
    BY <1>1, Lifetimes DEF SessionsInv, TypeOK
  <2>3. failed[key] \in Seq(Failures) /\ counts[key].failures \in Nat /\ counts[key].until \in Nat
    BY <1>1, Typed
  <2>4. MaxLoginFailures \in Nat /\ 0 < MaxLoginFailures
    <3>1. MaxLoginFailures \in Nat \ {0}
      BY SessionsAssumption
    <3> QED
      BY <3>1
  <2>5. Recent(failed[key], clock) <= counts[key].failures /\ Recent(failed[key], clock) \in Nat
    BY <1>1, <2>2, <2>3, YoungFacts DEF ThrottleInv
  <2>9. /\ Cardinality(Standing(failed[key], clock)) \in Nat
        /\ Cardinality(Standing(failed[key], clock)) <= Recent(failed[key], clock)
    <3>1. \A i, j \in DOMAIN failed[key] : i <= j => failed[key][i].counted <= failed[key][j].counted
      BY <1>1 DEF CountedInv
    <3> QED
      BY <2>2, <2>3, <3>1, StandingIsYoung
  <2>6. CASE counts[key].failures < MaxLoginFailures
    BY <2>1, <2>3, <2>4, <2>5, <2>6, <2>9
  <2>7. CASE ~(clock < counts[key].until)
    <3>1. Recent(failed[key], clock) = 0
      BY <1>1, <2>2, <2>3, <2>7, YoungFacts DEF ThrottleInv
    <3> QED
      BY <2>1, <2>4, <2>9, <3>1
  <2>8. ~(clock < counts[key].until) \/ counts[key].failures < MaxLoginFailures
    BY <2>1, <2>3, <2>4 DEF blocked
  <2> QED
    BY <2>6, <2>7, <2>8
<1>2. SessionsInv /\ ThrottleInv /\ CountedInv /\ [Next]_vars => [Held]_vars
  BY <1>1
<1> QED
  BY <1>2, ThrottleInvariant, PTL DEF Spec, ThrottleHolds
=============================================================================
