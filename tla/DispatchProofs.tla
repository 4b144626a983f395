--------------------------- MODULE DispatchProofs ---------------------------
(***************************************************************************)
(* Proofs about one request on the proxy path, for a ladder of any length  *)
(* and a response of any length.                                           *)
(***************************************************************************)
EXTENDS Dispatch, FiniteSetTheorems, SequenceTheorems, TLAPS

(***************************************************************************)
(* The errors of one attempt.                                              *)
(***************************************************************************)

\* The kinds that classify, the transport and the reader give their errors.
ErrorKinds == FailureKinds \cup {"eof"}

\* Every error has one of these kinds, and a cause errors.Is finds or none.
LEMMA ErrorShape ==
  ASSUME NEW e \in StreamErrors \cup ReadErrors
  PROVE  e \in [kind : ErrorKinds, retryable : BOOLEAN, cause : {"none", "canceled", "deadline"}]
<1> DEFINE Shape == [kind : ErrorKinds, retryable : BOOLEAN, cause : {"none", "canceled", "deadline"}]
<1>1. ASSUME NEW k \in ErrorKinds, NEW r \in BOOLEAN, NEW c \in {"none", "canceled", "deadline"}
      PROVE  Err(k, r, c) \in Shape
  BY <1>1 DEF Err
<1>2. ASSUME NEW code \in Codes PROVE Classify(code) \in Shape
  <2> HIDE DEF Shape
  <2>1. CASE code = 400
    <3>1. Classify(400) = Err("bad request", FALSE, "none")
      BY DEF Classify
    <3> QED
      BY <1>1, <2>1, <3>1 DEF ErrorKinds, FailureKinds
  <2>2. CASE code = 401
    <3>1. Classify(401) = Err("auth", FALSE, "none")
      BY DEF Classify
    <3> QED
      BY <1>1, <2>2, <3>1 DEF ErrorKinds, FailureKinds
  <2>3. CASE code = 404
    <3>1. Classify(404) = Err("bad request", TRUE, "none")
      BY DEF Classify
    <3> QED
      BY <1>1, <2>3, <3>1 DEF ErrorKinds, FailureKinds
  <2>4. CASE code = 408
    <3>1. Classify(408) = Err("timeout", TRUE, "none")
      BY DEF Classify
    <3> QED
      BY <1>1, <2>4, <3>1 DEF ErrorKinds, FailureKinds
  <2>5. CASE code = 418
    <3>1. Classify(418) = Err("unknown", TRUE, "none")
      BY DEF Classify
    <3> QED
      BY <1>1, <2>5, <3>1 DEF ErrorKinds, FailureKinds
  <2>6. CASE code = 429
    <3>1. Classify(429) = Err("rate limit", TRUE, "none")
      BY DEF Classify
    <3> QED
      BY <1>1, <2>6, <3>1 DEF ErrorKinds, FailureKinds
  <2>7. CASE code = 500
    <3>1. Classify(500) = Err("upstream", TRUE, "none")
      BY DEF Classify
    <3> QED
      BY <1>1, <2>7, <3>1 DEF ErrorKinds, FailureKinds
  <2> QED
    BY <2>1, <2>2, <2>3, <2>4, <2>5, <2>6, <2>7 DEF Codes
<1>3. ASSUME NEW k \in ErrorKinds PROVE Canceled(k) \subseteq Shape
  <2> HIDE DEF Shape
  <2> QED
    BY <1>1 DEF Canceled
<1>4. StreamErrors \subseteq Shape
  <2> HIDE DEF Shape
  <2> QED
    BY <1>1, <1>2, <1>3 DEF StreamErrors, HeaderTimeout, ErrorKinds, FailureKinds
<1>5. ReadErrors \subseteq Shape
  <2> HIDE DEF Shape
  <2> QED
    BY <1>1, <1>3 DEF ReadErrors, EndOfStream, ErrorKinds, FailureKinds
<1> QED
  BY <1>4, <1>5

\* What failedAttempt records is never taken for success, and says what retryable
\* decided.
LEMMA FailureRecorded ==
  ASSUME NEW e \in StreamErrors \cup ReadErrors
  PROVE  /\ Failure(e) \in Attempts
         /\ Failure(e) # NoFailure
         /\ Failure(e).retryable = Retryable(e)
         /\ Retryable(e) \in BOOLEAN
<1>1. e \in [kind : ErrorKinds, retryable : BOOLEAN, cause : {"none", "canceled", "deadline"}]
  BY ErrorShape
<1>2. Failure(e).kind \in FailureKinds
  <2>1. e.kind \in ErrorKinds
    BY <1>1
  <2>2. FailureKind(e) \in {"client_disconnect", "timeout", "unknown"} \/ (FailureKind(e) = e.kind /\ e.kind # "eof")
    BY Zenon DEF FailureKind
  <2>3. FailureKind(e) \in FailureKinds
    BY <2>1, <2>2 DEF ErrorKinds, FailureKinds
  <2> QED
    BY <2>3 DEF Failure
<1>3. Failure(e).retryable = Retryable(e) /\ Retryable(e) \in BOOLEAN
  BY <1>1 DEF Failure, Retryable
<1>4. Failure(e) \in Attempts
  BY <1>2, <1>3 DEF Failure, Attempts
<1>5. Failure(e) # NoFailure
  <2>1. NoFailure.kind = "none"
    BY DEF NoFailure
  <2> QED
    BY <1>2, <2>1 DEF FailureKinds
<1> QED
  BY <1>2, <1>3, <1>4, <1>5

(***************************************************************************)
(* What the client was sent.                                               *)
(***************************************************************************)

\* Nothing is the visible part of nothing.
LEMMA VisibleNone ==
  ASSUME NEW s, NEW t, DOMAIN s = {}, DOMAIN t = {}
  PROVE  IsVisiblePart(s, t)
<1> DEFINE k == [i \in DOMAIN s |-> 0]
<1>1. k \in [DOMAIN s -> DOMAIN t]
  OBVIOUS
<1> QED
  BY <1>1 DEF IsVisiblePart

\* A hidden event more leaves the visible part as it is.
LEMMA VisibleSkips ==
  ASSUME NEW S, NEW t \in Seq(S), NEW s \in Seq(S), NEW ev \in S,
         IsVisiblePart(s, t), ~Visible(ev)
  PROVE  IsVisiblePart(s, Append(t, ev))
<1>1. PICK k \in [DOMAIN s -> DOMAIN t] :
        /\ \A i, j \in DOMAIN s : i < j => k[i] < k[j]
        /\ \A i \in DOMAIN s : s[i] = t[k[i]]
        /\ \A j \in DOMAIN t : Visible(t[j]) <=> \E i \in DOMAIN s : k[i] = j
  BY DEF IsVisiblePart
<1> DEFINE u == Append(t, ev)
<1>2. /\ DOMAIN t = 1..Len(t) /\ DOMAIN u = 1..(Len(t) + 1) /\ Len(t) \in Nat
      /\ u[Len(t) + 1] = ev /\ \A j \in DOMAIN t : u[j] = t[j]
  OBVIOUS
<1> HIDE DEF u
<1>3. k \in [DOMAIN s -> DOMAIN u]
  BY <1>1, <1>2
<1>4. \A i \in DOMAIN s : s[i] = u[k[i]]
  BY <1>1, <1>2
<1>5. ASSUME NEW j \in DOMAIN u PROVE Visible(u[j]) <=> \E i \in DOMAIN s : k[i] = j
  <2>1. CASE j \in DOMAIN t
    BY <1>1, <1>2, <2>1
  <2>2. CASE j = Len(t) + 1
    BY <1>1, <1>2, <2>2
  <2> QED
    BY <1>2, <1>5, <2>1, <2>2
<1>6. IsVisiblePart(s, u)
  BY <1>1, <1>3, <1>4, <1>5 DEF IsVisiblePart
<1> QED
  BY <1>6 DEF u

\* A visible event more is one more in the visible part.
LEMMA VisibleKeeps ==
  ASSUME NEW S, NEW t \in Seq(S), NEW s \in Seq(S), NEW ev \in S,
         IsVisiblePart(s, t), Visible(ev)
  PROVE  IsVisiblePart(Append(s, ev), Append(t, ev))
<1>1. PICK k \in [DOMAIN s -> DOMAIN t] :
        /\ \A i, j \in DOMAIN s : i < j => k[i] < k[j]
        /\ \A i \in DOMAIN s : s[i] = t[k[i]]
        /\ \A j \in DOMAIN t : Visible(t[j]) <=> \E i \in DOMAIN s : k[i] = j
  BY DEF IsVisiblePart
<1> DEFINE u == Append(t, ev)
           v == Append(s, ev)
           h == [i \in DOMAIN v |-> IF i = Len(s) + 1 THEN Len(t) + 1 ELSE k[i]]
<1>2. /\ DOMAIN t = 1..Len(t) /\ DOMAIN u = 1..(Len(t) + 1) /\ Len(t) \in Nat
      /\ u[Len(t) + 1] = ev /\ \A j \in DOMAIN t : u[j] = t[j]
  OBVIOUS
<1>3. /\ DOMAIN s = 1..Len(s) /\ DOMAIN v = 1..(Len(s) + 1) /\ Len(s) \in Nat
      /\ v[Len(s) + 1] = ev /\ \A j \in DOMAIN s : v[j] = s[j]
  OBVIOUS
<1> HIDE DEF u, v
<1>4. \A i \in DOMAIN s : h[i] = k[i] /\ k[i] \in 1..Len(t)
  BY <1>1, <1>2, <1>3
<1>5. h[Len(s) + 1] = Len(t) + 1
  BY <1>3
<1>6. h \in [DOMAIN v -> DOMAIN u]
  BY <1>2, <1>3, <1>4, <1>5
<1> HIDE DEF h
<1>7. ASSUME NEW i \in DOMAIN v, NEW j \in DOMAIN v, i < j PROVE h[i] < h[j]
  <2>1. i \in DOMAIN s
    BY <1>3, <1>7
  <2>2. CASE j \in DOMAIN s
    BY <1>1, <1>4, <1>7, <2>1, <2>2
  <2>3. CASE j = Len(s) + 1
    BY <1>2, <1>4, <1>5, <2>1, <2>3
  <2> QED
    BY <1>3, <1>7, <2>2, <2>3
<1>8. ASSUME NEW i \in DOMAIN v PROVE v[i] = u[h[i]]
  <2>1. CASE i \in DOMAIN s
    BY <1>1, <1>2, <1>3, <1>4, <2>1
  <2>2. CASE i = Len(s) + 1
    BY <1>2, <1>3, <1>5, <2>2
  <2> QED
    BY <1>3, <1>8, <2>1, <2>2
<1>9. ASSUME NEW j \in DOMAIN u PROVE Visible(u[j]) <=> \E i \in DOMAIN v : h[i] = j
  <2>1. CASE j \in DOMAIN t
    <3>1. Visible(u[j]) <=> \E i \in DOMAIN s : k[i] = j
      BY <1>1, <1>2, <2>1
    <3>2. ASSUME NEW i \in DOMAIN s, k[i] = j PROVE i \in DOMAIN v /\ h[i] = j
      BY <1>3, <1>4, <3>2
    <3>3. ASSUME NEW i \in DOMAIN v, h[i] = j PROVE i \in DOMAIN s /\ k[i] = j
      <4>1. i # Len(s) + 1
        BY <1>2, <1>5, <2>1, <3>3
      <4> QED
        BY <1>3, <1>4, <3>3, <4>1
    <3> QED
      BY <3>1, <3>2, <3>3
  <2>2. CASE j = Len(t) + 1
    <3>1. Len(s) + 1 \in DOMAIN v /\ h[Len(s) + 1] = j
      BY <1>3, <1>5, <2>2
    <3>2. Visible(u[j])
      BY <1>2, <2>2
    <3> QED
      BY <3>1, <3>2
  <2> QED
    BY <1>2, <1>9, <2>1, <2>2
<1>10. IsVisiblePart(v, u)
  BY <1>6, <1>7, <1>8, <1>9 DEF IsVisiblePart
<1> QED
  BY <1>10 DEF u, v

(***************************************************************************)
(* The invariant, action by action.                                        *)
(***************************************************************************)

\* A step that sends and reads nothing, and neither takes up nor finishes an
\* event, leaves what was relayed as it is.
LEMMA RelayFrame ==
  ASSUME DispatchInv, UNCHANGED <<wantsUsage, sent, feed>>,
         Answered' => /\ Answered
                      /\ pc \in {"commit", "relay"} <=> pc' \in {"commit", "relay"}
                      /\ status = "client_disconnect" => status' = status
  PROVE  RelayInv'
<1> SUFFICES ASSUME Answered' PROVE RelayInv'
  BY DEF RelayInv
<1>1. RelayInv /\ Answered
  BY DEF DispatchInv
<1>2. /\ SentEvents' = SentEvents /\ Relayed' = Relayed
      /\ Front(feed)' = Front(feed)
  BY DEF SentEvents, Relayed, Front
<1>3. ASSUME NEW CONSTANT s, NEW CONSTANT t PROVE IsVisiblePart(s, t)' = IsVisiblePart(s, t)
  BY DEF IsVisiblePart, Visible, Hidden
<1> QED
  BY <1>1, <1>2, <1>3 DEF RelayInv

\* The types of what a refusal leaves behind.
LEMMA ShortSeqs ==
  /\ <<>> \in Seq({"200", "error"}) /\ <<"200">> \in Seq({"200", "error"})
  /\ <<"error">> \in Seq({"200", "error"})
  /\ \A s : Append(<<>>, s) = <<s>>
  /\ DOMAIN <<>> = {}
OBVIOUS

\* The handler refuses.
LEMMA RefuseStep ==
  ASSUME DispatchInv, Refuse
  PROVE  DispatchInv'
<1>a. statusLines = <<>> /\ statusLines' = <<"error">>
  BY ShortSeqs DEF DispatchInv, TypeOK, OutcomeStatuses, StageInv, ReplyInv, Unadmitted, Trying, Exhausted, Answered, Refuse
<1>1. TypeOK'
  BY <1>a, ShortSeqs DEF DispatchInv, TypeOK, StageInv, LadderInv, Unadmitted, Trying, Exhausted, Answered, Refuse, factVars, envVars, outcomeVars, clientVars, endVars, Pcs, OutcomeStatuses, Charges
<1>2. StageInv' /\ BodyInv'
  BY DEF DispatchInv, StageInv, BodyInv, Refuse, factVars, envVars, outcomeVars, clientVars, endVars
<1>3. LadderInv'
  BY DEF DispatchInv, TypeOK, StageInv, LadderInv, Unadmitted, Trying, Exhausted, Answered, Refuse, factVars, envVars, outcomeVars, clientVars, endVars
<1>4. ReplyInv'
  BY <1>a DEF DispatchInv, TypeOK, StageInv, ReplyInv, Unadmitted, Trying, Exhausted, Answered, Refuse, factVars, envVars, outcomeVars, clientVars, endVars
<1>5. RelayInv'
  BY RelayFrame DEF DispatchInv, Unadmitted, Trying, Exhausted, Answered, Refuse, factVars, envVars, outcomeVars, clientVars, endVars
<1>6. MeterInv'
  BY DEF DispatchInv, TypeOK, MeterInv, Refuse, factVars, envVars, outcomeVars, clientVars, endVars
<1>7. ChargeInv'
  BY DEF DispatchInv, StageInv, ChargeInv, ActualUsage, ChosenTarget, Unadmitted, Trying, Exhausted, Answered, Refuse, factVars, envVars, outcomeVars, clientVars, endVars
<1> QED
  BY <1>1, <1>2, <1>3, <1>4, <1>5, <1>6, <1>7 DEF DispatchInv

\* The quota enforcer refuses.
LEMMA RefuseOverQuotaStep ==
  ASSUME DispatchInv, RefuseOverQuota
  PROVE  DispatchInv'
<1>a. statusLines = <<>> /\ statusLines' = <<"error">>
  BY ShortSeqs DEF DispatchInv, TypeOK, OutcomeStatuses, StageInv, ReplyInv, Unadmitted, Trying, Exhausted, Answered, RefuseOverQuota
<1>1. TypeOK'
  BY <1>a, ShortSeqs DEF DispatchInv, TypeOK, StageInv, LadderInv, Unadmitted, Trying, Exhausted, Answered, RefuseOverQuota, factVars, envVars, outcomeVars, clientVars, endVars, Pcs, OutcomeStatuses, Charges
<1>2. StageInv' /\ BodyInv'
  BY DEF DispatchInv, StageInv, BodyInv, RefuseOverQuota, factVars, envVars, outcomeVars, clientVars, endVars
<1>3. LadderInv'
  BY DEF DispatchInv, TypeOK, StageInv, LadderInv, Unadmitted, Trying, Exhausted, Answered, RefuseOverQuota, factVars, envVars, outcomeVars, clientVars, endVars
<1>4. ReplyInv'
  BY <1>a DEF DispatchInv, TypeOK, StageInv, ReplyInv, Unadmitted, Trying, Exhausted, Answered, RefuseOverQuota, factVars, envVars, outcomeVars, clientVars, endVars
<1>5. RelayInv'
  BY RelayFrame DEF DispatchInv, Unadmitted, Trying, Exhausted, Answered, RefuseOverQuota, factVars, envVars, outcomeVars, clientVars, endVars
<1>6. MeterInv'
  <2>1. feed' = <<>> /\ usage' = 0
    BY DEF DispatchInv, StageInv, ReplyInv, Answered, RefuseOverQuota
  <2>2. Len(feed') = 0
    BY <2>1
  <2> QED
    BY <2>1, <2>2 DEF MeterInv
<1>7. ChargeInv'
  BY DEF DispatchInv, StageInv, ChargeInv, ActualUsage, ChosenTarget, Unadmitted, Trying, Exhausted, Answered, RefuseOverQuota, factVars, envVars, outcomeVars, clientVars, endVars
<1> QED
  BY <1>1, <1>2, <1>3, <1>4, <1>5, <1>6, <1>7 DEF DispatchInv

\* The handler enters Run.
LEMMA AdmitStep ==
  ASSUME DispatchInv, Admit
  PROVE  DispatchInv'
<1>a. attempts = <<>> /\ Len(attempts) = 0 /\ target = 1 /\ 1 <= N
  BY DispatchAssumption DEF DispatchInv, LadderInv, Unadmitted, Admit
<1>1. TypeOK'
  BY DEF DispatchInv, TypeOK, StageInv, LadderInv, Unadmitted, Trying, Exhausted, Answered, Admit, factVars, envVars, outcomeVars, clientVars, endVars, Pcs, OutcomeStatuses, Charges
<1>2. StageInv' /\ BodyInv'
  BY DEF DispatchInv, StageInv, BodyInv, Admit, factVars, envVars, outcomeVars, clientVars, endVars
<1>3. LadderInv'
  <2>1. pc' = "dial" /\ attempts' = attempts /\ target' = target /\ status' = status /\ status = ""
    BY DEF DispatchInv, StageInv, Admit, outcomeVars
  <2>2. target' = Len(attempts') + 1
    <3>1. Len(attempts') = 0 /\ target' = 1
      BY <1>a, <2>1
    <3> QED
      BY <3>1
  <2>4. target' <= N
    BY <1>a, <2>1
  <2>3. DOMAIN attempts' = {}
    BY <1>a, <2>1, ShortSeqs
  <2> QED
    BY <1>a, <2>1, <2>2, <2>3, <2>4 DEF LadderInv, Unadmitted, Trying, Exhausted, Answered
<1>4. ReplyInv'
  BY DEF DispatchInv, TypeOK, StageInv, ReplyInv, Unadmitted, Trying, Exhausted, Answered, Admit, factVars, envVars, outcomeVars, clientVars, endVars
<1>5. RelayInv'
  BY RelayFrame DEF DispatchInv, Unadmitted, Trying, Exhausted, Answered, Admit, factVars, envVars, outcomeVars, clientVars, endVars
<1>6. MeterInv'
  BY DEF DispatchInv, TypeOK, MeterInv, Admit, factVars, envVars, outcomeVars, clientVars, endVars
<1>7. ChargeInv'
  BY DEF DispatchInv, StageInv, ChargeInv, ActualUsage, ChosenTarget, Unadmitted, Trying, Exhausted, Answered, Admit, factVars, envVars, outcomeVars, clientVars, endVars
<1> QED
  BY <1>1, <1>2, <1>3, <1>4, <1>5, <1>6, <1>7 DEF DispatchInv

\* The handler answers an exhausted ladder.
LEMMA AnswerStep ==
  ASSUME DispatchInv, Answer
  PROVE  DispatchInv'
<1>a. statusLines' = IF Exhausted THEN <<"error">> ELSE <<"200">>
  BY ShortSeqs DEF DispatchInv, TypeOK, OutcomeStatuses, StageInv, ReplyInv, Exhausted, Answered, Answer
<1>1. TypeOK'
  BY <1>a, ShortSeqs DEF DispatchInv, TypeOK, StageInv, LadderInv, Unadmitted, Trying, Exhausted, Answered, Answer, factVars, envVars, outcomeVars, clientVars, endVars, Pcs, OutcomeStatuses, Charges
<1>2. StageInv' /\ BodyInv'
  BY DEF DispatchInv, StageInv, BodyInv, Answer, factVars, envVars, outcomeVars, clientVars, endVars
<1>3. LadderInv'
  BY DEF DispatchInv, TypeOK, StageInv, LadderInv, Unadmitted, Trying, Exhausted, Answered, Answer, factVars, envVars, outcomeVars, clientVars, endVars
<1>4. ReplyInv'
  BY <1>a DEF DispatchInv, TypeOK, StageInv, ReplyInv, Unadmitted, Trying, Exhausted, Answered, Answer, factVars, envVars, outcomeVars, clientVars, endVars
<1>5. RelayInv'
  BY RelayFrame DEF DispatchInv, Unadmitted, Trying, Exhausted, Answered, Answer, factVars, envVars, outcomeVars, clientVars, endVars
<1>6. MeterInv'
  BY DEF DispatchInv, TypeOK, MeterInv, Answer, factVars, envVars, outcomeVars, clientVars, endVars
<1>7. ChargeInv'
  BY DEF DispatchInv, StageInv, ChargeInv, ActualUsage, ChosenTarget, Unadmitted, Trying, Exhausted, Answered, Answer, factVars, envVars, outcomeVars, clientVars, endVars
<1> QED
  BY <1>1, <1>2, <1>3, <1>4, <1>5, <1>6, <1>7 DEF DispatchInv

\* The decision is recorded.
LEMMA RecordStep ==
  ASSUME DispatchInv, Record
  PROVE  DispatchInv'
<1>a. recorded' = 1
  <2>1. recorded = 0 /\ recorded' = recorded + 1
    BY DEF DispatchInv, StageInv, Record
  <2> QED
    BY <2>1
<1>1. TypeOK'
  <2>1. pc' \in Pcs /\ UNCHANGED <<factVars, envVars, outcomeVars, clientVars, charges, target, open, feed>>
    BY DEF Record, AfterRecord, Pcs
  <2> QED
    BY <1>a, <2>1 DEF DispatchInv, TypeOK, factVars, envVars, outcomeVars, clientVars
<1>2. StageInv' /\ BodyInv'
  BY DEF DispatchInv, StageInv, BodyInv, Record, AfterRecord, factVars, envVars, outcomeVars, clientVars, endVars
<1>3. LadderInv'
  BY DEF DispatchInv, TypeOK, StageInv, LadderInv, Unadmitted, Trying, Exhausted, Answered, Record, AfterRecord, factVars, envVars, outcomeVars, clientVars, endVars
<1>4. ReplyInv'
  BY DEF DispatchInv, TypeOK, StageInv, ReplyInv, Unadmitted, Trying, Exhausted, Answered, Record, AfterRecord, factVars, envVars, outcomeVars, clientVars, endVars
<1>5. RelayInv'
  BY RelayFrame DEF DispatchInv, Unadmitted, Trying, Exhausted, Answered, Record, AfterRecord, factVars, envVars, outcomeVars, clientVars, endVars
<1>6. MeterInv'
  BY DEF DispatchInv, TypeOK, MeterInv, Record, AfterRecord, factVars, envVars, outcomeVars, clientVars, endVars
<1>7. ChargeInv'
  BY DEF DispatchInv, StageInv, ChargeInv, ActualUsage, ChosenTarget, Unadmitted, Trying, Exhausted, Answered, Record, AfterRecord, factVars, envVars, outcomeVars, clientVars, endVars
<1> QED
  BY <1>1, <1>2, <1>3, <1>4, <1>5, <1>6, <1>7 DEF DispatchInv

\* The decision meets a closed sink.
LEMMA RecordPanicsStep ==
  ASSUME DispatchInv, RecordPanics
  PROVE  DispatchInv'
<1>1. TypeOK'
  BY DEF DispatchInv, TypeOK, StageInv, LadderInv, Unadmitted, Trying, Exhausted, Answered, RecordPanics, AfterRecord, factVars, envVars, outcomeVars, clientVars, endVars, Pcs, OutcomeStatuses, Charges
<1>2. StageInv' /\ BodyInv'
  BY DEF DispatchInv, StageInv, BodyInv, RecordPanics, AfterRecord, factVars, envVars, outcomeVars, clientVars, endVars
<1>3. LadderInv'
  BY DEF DispatchInv, TypeOK, StageInv, LadderInv, Unadmitted, Trying, Exhausted, Answered, RecordPanics, AfterRecord, factVars, envVars, outcomeVars, clientVars, endVars
<1>4. ReplyInv'
  BY DEF DispatchInv, TypeOK, StageInv, ReplyInv, Unadmitted, Trying, Exhausted, Answered, RecordPanics, AfterRecord, factVars, envVars, outcomeVars, clientVars, endVars
<1>5. RelayInv'
  BY RelayFrame DEF DispatchInv, Unadmitted, Trying, Exhausted, Answered, RecordPanics, AfterRecord, factVars, envVars, outcomeVars, clientVars, endVars
<1>6. MeterInv'
  BY DEF DispatchInv, TypeOK, MeterInv, RecordPanics, AfterRecord, factVars, envVars, outcomeVars, clientVars, endVars
<1>7. ChargeInv'
  BY DEF DispatchInv, StageInv, ChargeInv, ActualUsage, ChosenTarget, Unadmitted, Trying, Exhausted, Answered, RecordPanics, AfterRecord, factVars, envVars, outcomeVars, clientVars, endVars
<1> QED
  BY <1>1, <1>2, <1>3, <1>4, <1>5, <1>6, <1>7 DEF DispatchInv

\* The reservation is settled.
LEMMA ReconcileStep ==
  ASSUME DispatchInv, Reconcile
  PROVE  DispatchInv'
<1>a. charges = <<>> /\ ActualUsage' = ActualUsage /\ ActualUsage \in Charges
  BY DEF DispatchInv, ChargeInv, ActualUsage, ChosenTarget, Charges, Reconcile, outcomeVars
<1>b. charges' = <<ActualUsage>> /\ charges' \in Seq(Charges)
  <2>1. charges' = Append(charges, ActualUsage)
    BY DEF Reconcile
  <2> QED
    BY <1>a, <2>1
<1>1. TypeOK'
  BY <1>b DEF DispatchInv, TypeOK, Reconcile, factVars, envVars, outcomeVars, clientVars, Pcs
<1>2. StageInv' /\ BodyInv'
  BY DEF DispatchInv, StageInv, BodyInv, Reconcile, factVars, envVars, outcomeVars, clientVars, endVars
<1>3. LadderInv'
  BY DEF DispatchInv, TypeOK, StageInv, LadderInv, Unadmitted, Trying, Exhausted, Answered, Reconcile, factVars, envVars, outcomeVars, clientVars, endVars
<1>4. ReplyInv'
  BY DEF DispatchInv, TypeOK, StageInv, ReplyInv, Unadmitted, Trying, Exhausted, Answered, Reconcile, factVars, envVars, outcomeVars, clientVars, endVars
<1>5. RelayInv'
  BY RelayFrame DEF DispatchInv, Unadmitted, Trying, Exhausted, Answered, Reconcile, factVars, envVars, outcomeVars, clientVars, endVars
<1>6. MeterInv'
  BY DEF DispatchInv, TypeOK, MeterInv, Reconcile, factVars, envVars, outcomeVars, clientVars, endVars
<1>7. ChargeInv'
  <2>1. pc' = "done" /\ status' = status /\ status \notin {"", "policy_blocked"}
    BY DEF DispatchInv, StageInv, Reconcile, outcomeVars
  <2> QED
    BY <1>a, <1>b, <2>1 DEF ChargeInv, Unadmitted
<1> QED
  BY <1>1, <1>2, <1>3, <1>4, <1>5, <1>6, <1>7 DEF DispatchInv

\* What is known while no target has answered.
LEMMA BeforeAnswer ==
  ASSUME DispatchInv, Trying
  PROVE  /\ status = "" /\ recorded = 0 /\ charges = <<>> /\ statusLines = <<>>
         /\ sent = <<>> /\ feed = <<>> /\ usage = 0 /\ ttft = FALSE
         /\ target \in 1..N /\ target = Len(attempts) + 1
         /\ attempts \in Seq(Attempts) /\ \A i \in 1..Len(attempts) : attempts[i].retryable
<1>1. status = "" /\ recorded = 0 /\ ~Unadmitted /\ ~Exhausted /\ ~Answered
  BY DEF DispatchInv, StageInv, Trying, Unadmitted, Exhausted, Answered
<1>2. charges = <<>> /\ statusLines = <<>>
  BY <1>1 DEF DispatchInv, ChargeInv, ReplyInv, Trying
<1>3. sent = <<>> /\ feed = <<>> /\ usage = 0 /\ ttft = FALSE
  BY <1>1 DEF DispatchInv, TypeOK, ReplyInv
<1>4. target \in 1..N /\ target = Len(attempts) + 1
  BY DispatchAssumption DEF DispatchInv, TypeOK, LadderInv
<1>5. attempts \in Seq(Attempts) /\ \A i \in 1..Len(attempts) : attempts[i].retryable
  BY DEF DispatchInv, TypeOK, LadderInv
<1> QED
  BY <1>1, <1>2, <1>3, <1>4, <1>5

\* One attempt more.
LEMMA AttemptAdded ==
  ASSUME NEW s \in Seq(Attempts), NEW a \in Attempts
  PROVE  LET t == Append(s, a)
         IN  /\ t \in Seq(Attempts) /\ t # <<>> /\ Len(t) = Len(s) + 1
             /\ Last(t) = a /\ \A i \in 1..Len(s) : t[i] = s[i]
BY DEF Last

\* An attempt fails, and the ladder goes on or ends.
LEMMA AttemptFails ==
  ASSUME DispatchInv, Trying, NEW e \in StreamErrors \cup ReadErrors, NextTarget(e), open' = {},
         UNCHANGED <<factVars, envVars, clientVars, endVars, usage, ttft, feed>>
  PROVE  DispatchInv'
<1> DEFINE f == Failure(e)
<1>1. f \in Attempts /\ f # NoFailure /\ f.retryable = Retryable(e) /\ Retryable(e) \in BOOLEAN
  BY FailureRecorded
<1>2. /\ status = "" /\ recorded = 0 /\ charges = <<>> /\ statusLines = <<>>
      /\ sent = <<>> /\ feed = <<>> /\ usage = 0 /\ ttft = FALSE
  BY BeforeAnswer
<1>a. target \in 1..N /\ target = Len(attempts) + 1 /\ attempts \in Seq(Attempts)
  BY BeforeAnswer
<1>b. \A i \in 1..Len(attempts) : attempts[i].retryable
  BY BeforeAnswer
<1>3. attempts' = Append(attempts, f) /\ target' = target + 1
  BY DEF NextTarget
<1>4. /\ attempts' \in Seq(Attempts) /\ attempts' # <<>> /\ Len(attempts') = target
      /\ Last(attempts') = f
      /\ \A i \in 1..(Len(attempts') - 1) : attempts'[i].retryable
  <2>1. /\ attempts' \in Seq(Attempts) /\ attempts' # <<>> /\ Len(attempts') = Len(attempts) + 1
        /\ Last(attempts') = f /\ \A i \in 1..Len(attempts) : attempts'[i] = attempts[i]
    BY <1>1, <1>a, <1>3, AttemptAdded
  <2>2. Len(attempts) \in Nat /\ Len(attempts') - 1 = Len(attempts)
    BY <1>a, <2>1
  <2> QED
    BY <1>a, <1>b, <2>1, <2>2
<1>5. \/ Retryable(e) /\ target < N /\ pc' = "dial" /\ status' = ""
      \/ ~(Retryable(e) /\ target < N) /\ pc' = "answer" /\ status' = "exhausted"
  BY <1>2 DEF NextTarget
<1>n. N \in Nat /\ target \in Nat /\ 1 <= target /\ target <= N
  BY <1>a, DispatchAssumption
<1> HIDE DEF f
<1>6. TypeOK'
  <2>1. target' \in 1..(N + 1) /\ Len(attempts') <= N
    BY <1>n, <1>3, <1>4
  <2>2. pc' \in Pcs /\ status' \in OutcomeStatuses
    BY <1>5 DEF Pcs, OutcomeStatuses
  <2> QED
    BY <1>4, <2>1, <2>2 DEF DispatchInv, TypeOK, factVars, envVars, clientVars, endVars
<1>7. StageInv' /\ BodyInv'
  BY <1>2, <1>5 DEF StageInv, BodyInv, endVars
<1>8. LadderInv'
  <2>1. CASE Retryable(e) /\ target < N /\ pc' = "dial" /\ status' = ""
    <3>1. target' <= N /\ target' = Len(attempts') + 1
      <4>1. Len(attempts') = target /\ target' = target + 1 /\ target < N
        BY <1>3, <1>4, <2>1
      <4> QED
        BY <1>n, <4>1
    <3>2. attempts'[target].retryable
      BY <1>1, <1>4, <2>1 DEF Last
    <3>3. ASSUME NEW i \in DOMAIN attempts' PROVE attempts'[i].retryable
      <4>1. i \in 1..(Len(attempts') - 1) \/ i = target
        BY <1>n, <1>4
      <4> QED
        BY <1>4, <3>2, <4>1
    <3> QED
      BY <2>1, <3>1, <3>3 DEF LadderInv, Unadmitted, Trying, Exhausted, Answered
  <2>2. CASE ~(Retryable(e) /\ target < N) /\ pc' = "answer" /\ status' = "exhausted"
    <3>1. target' = Len(attempts') + 1 /\ (Len(attempts') < N => ~Last(attempts').retryable)
      BY <1>1, <1>n, <1>3, <1>4, <2>2
    <3> QED
      BY <1>1, <1>4, <2>2, <3>1 DEF LadderInv, Unadmitted, Trying, Exhausted, Answered
  <2> QED
    BY <1>5, <2>1, <2>2
<1>9. ~Answered' /\ ~Unadmitted'
  BY <1>5 DEF Answered, Unadmitted
<1>10. ReplyInv'
  BY <1>2, <1>5, <1>9 DEF ReplyInv, Exhausted, clientVars
<1>11. RelayInv' /\ MeterInv' /\ ChargeInv'
  <2>1. feed' = <<>> /\ Len(feed') = 0 /\ usage' = 0 /\ charges' = <<>> /\ pc' # "done"
    BY <1>2, <1>5 DEF endVars
  <2> QED
    BY <1>9, <2>1 DEF RelayInv, MeterInv, ChargeInv
<1> QED
  BY <1>6, <1>7, <1>8, <1>10, <1>11 DEF DispatchInv

\* A call fails: there is no body to close.
LEMMA StreamFailsStep ==
  ASSUME DispatchInv, NEW e \in StreamErrors, StreamFails(e)
  PROVE  DispatchInv'
<1>1. Trying /\ open' = {}
  BY DEF DispatchInv, BodyInv, StreamFails, Trying
<1> QED
  BY <1>1, AttemptFails DEF StreamFails

\* A first read fails: its body is closed.
LEMMA FirstFailsStep ==
  ASSUME DispatchInv, NEW e \in ReadErrors, FirstFails(e)
  PROVE  DispatchInv'
<1>1. Trying /\ open' = {}
  BY DEF DispatchInv, BodyInv, FirstFails, CloseReader, Trying
<1> QED
  BY <1>1, AttemptFails DEF FirstFails

\* The world around the request changes nothing the invariant speaks of.
LEMMA WorldStep ==
  ASSUME DispatchInv, World \/ UNCHANGED vars
  PROVE  DispatchInv'
<1>1. UNCHANGED <<factVars, outcomeVars, clientVars, endVars, pc, target, open, feed>>
  BY DEF World, ClientLeaves, ContextCanceled, SinkFlushed, vars
<1>2. TypeOK'
  BY <1>1 DEF DispatchInv, TypeOK, World, ClientLeaves, ContextCanceled, SinkFlushed, vars,
     factVars, envVars, outcomeVars, clientVars, endVars
<1>3. StageInv' /\ BodyInv' /\ LadderInv'
  BY <1>1 DEF DispatchInv, StageInv, BodyInv, LadderInv, Unadmitted, Trying, Exhausted, Answered,
     outcomeVars, endVars
<1>4. ReplyInv' /\ MeterInv'
  BY <1>1 DEF DispatchInv, ReplyInv, MeterInv, Exhausted, Answered, outcomeVars, clientVars
<1>5. RelayInv'
  BY <1>1, RelayFrame DEF Answered, factVars, outcomeVars, clientVars
<1>6. ChargeInv'
  BY <1>1 DEF DispatchInv, ChargeInv, Unadmitted, ActualUsage, ChosenTarget, outcomeVars, endVars
<1> QED
  BY <1>2, <1>3, <1>4, <1>5, <1>6 DEF DispatchInv

\* A response opens.
LEMMA StreamOpensStep ==
  ASSUME DispatchInv, StreamOpens
  PROVE  DispatchInv'
<1>1. /\ status = "" /\ recorded = 0 /\ charges = <<>> /\ statusLines = <<>>
      /\ sent = <<>> /\ feed = <<>> /\ usage = 0 /\ ttft = FALSE
      /\ target \in 1..N
  BY BeforeAnswer DEF StreamOpens, Trying
<1>2. pc = "dial" /\ pc' = "first" /\ feed' = feed /\ open' = {target}
  BY <1>1 DEF DispatchInv, BodyInv, StreamOpens
<1>3. UNCHANGED <<factVars, envVars, outcomeVars, clientVars, endVars, target>>
  BY DEF StreamOpens
<1>4. TypeOK'
  BY <1>1, <1>2, <1>3 DEF DispatchInv, TypeOK, Pcs, factVars, envVars, outcomeVars, clientVars, endVars
<1>5. StageInv' /\ BodyInv' /\ LadderInv'
  BY <1>1, <1>2, <1>3 DEF DispatchInv, StageInv, BodyInv, LadderInv, Unadmitted, Trying, Exhausted,
     Answered, outcomeVars, endVars
<1>6. ReplyInv' /\ MeterInv'
  BY <1>1, <1>2, <1>3 DEF DispatchInv, ReplyInv, MeterInv, Exhausted, Answered, outcomeVars, clientVars
<1>7. RelayInv' /\ ChargeInv'
  BY <1>1, <1>2, <1>3 DEF RelayInv, ChargeInv, Answered, outcomeVars, endVars
<1> QED
  BY <1>4, <1>5, <1>6, <1>7 DEF DispatchInv

(***************************************************************************)
(* The invariant, while a target answers.                                  *)
(***************************************************************************)

AnyEvent == StreamEvents \cup BodyEvents
Sendings == [from : 1..N, event : AnyEvent]
Reading == pc \in {"commit", "relay", "read"}
AnsweredStatuses == {"ok", "truncated", "client_disconnect"}

\* What is known while a target answers.
LEMMA WhileAnswering ==
  ASSUME DispatchInv, Reading
  PROVE  /\ Answered /\ status = "" /\ recorded = 0 /\ charges = <<>>
         /\ statusLines = IF pc = "commit" THEN <<>> ELSE <<"200">>
         /\ open = {target} /\ target \in 1..N
         /\ feed \in Seq(AnyEvent) /\ feed # <<>> /\ Len(feed) <= MaxEvents
         /\ sent \in Seq(Sendings) /\ usage \in 0..Len(feed)
<1>1. Answered /\ status = "" /\ recorded = 0 /\ ~Unadmitted /\ ~Exhausted
  BY DEF DispatchInv, StageInv, Reading, Unadmitted, Exhausted, Answered
<1>2. charges = <<>> /\ statusLines = IF pc = "commit" THEN <<>> ELSE <<"200">>
  BY <1>1 DEF DispatchInv, ChargeInv, ReplyInv, Reading
<1>3. open = {target}
  BY DEF DispatchInv, BodyInv, Reading
<1>4. target \in 1..N
  BY <1>1, <1>3 DEF DispatchInv, TypeOK
<1>5. feed \in Seq(AnyEvent) /\ feed # <<>> /\ Len(feed) <= MaxEvents /\ sent \in Seq(Sendings)
  BY <1>1 DEF DispatchInv, TypeOK, ReplyInv, AnyEvent, Sendings
<1>6. usage \in 0..Len(feed)
  BY <1>5, DispatchAssumption DEF DispatchInv, TypeOK, MeterInv
<1> QED
  BY <1>1, <1>2, <1>3, <1>4, <1>5, <1>6

\* One sending more, from the same target.
LEMMA SendingAdded ==
  ASSUME NEW S, NEW s \in Seq(S), NEW x \in S, NEW t,
         \A i \in DOMAIN s : s[i].from = t, x.from = t
  PROVE  LET u == Append(s, x) IN u \in Seq(S) /\ \A i \in DOMAIN u : u[i].from = t
<1> DEFINE u == Append(s, x)
<1>1. /\ u \in Seq(S) /\ DOMAIN s = 1..Len(s) /\ DOMAIN u = 1..(Len(s) + 1) /\ Len(s) \in Nat
      /\ u[Len(s) + 1] = x /\ \A i \in DOMAIN s : u[i] = s[i]
  OBVIOUS
<1> HIDE DEF u
<1>2. ASSUME NEW i \in DOMAIN u PROVE u[i].from = t
  <2>1. i \in DOMAIN s \/ i = Len(s) + 1
    BY <1>1
  <2> QED
    BY <1>1, <2>1
<1>3. u \in Seq(S) /\ \A i \in DOMAIN u : u[i].from = t
  BY <1>1, <1>2
<1> QED
  BY <1>3 DEF u

\* The bounds on the position of a usage report.
LEMMA ReportBounds ==
  ASSUME NEW S, NEW f \in Seq(S), Len(f) <= MaxEvents, NEW u \in 0..Len(f)
  PROVE  u \in 0..MaxEvents
BY DispatchAssumption

\* It is within the events read.
LEMMA ReportWithin ==
  ASSUME NEW u \in 0..MaxEvents, NEW n \in Nat, u <= n
  PROVE  u \in 0..n
BY DispatchAssumption

\* A report that was made has a place among the events.
LEMMA ReportPlace ==
  ASSUME NEW S, NEW f \in Seq(S), NEW u \in 0..Len(f)
  PROVE  /\ u # 0 => u \in 1..Len(f)
         /\ DOMAIN f = 1..Len(f)
         /\ \A i \in 1..Len(f) : i \notin (u + 1)..Len(f) /\ u \notin (i + 1)..Len(f) => i = u
<1>1. Len(f) \in Nat
  BY LenProperties
<1>2. DOMAIN f = 1..Len(f)
  BY LenProperties
<1> QED
  BY <1>1, <1>2

\* A step from a target's answer on: it stays with that target, and Run ends with
\* its body closed.
LEMMA AnswerKept ==
  ASSUME DispatchInv, Reading,
         \/ pc' \in {"relay", "read"} /\ status' = "" /\ open' = open
         \/ pc' = "answer" /\ status' \in AnsweredStatuses /\ open' = open \ {target},
         UNCHANGED <<factVars, envVars, endVars, attempts, ttft, target>>,
         statusLines' = <<"200">>, errorFrames' \in Nat,
         feed' \in Seq(AnyEvent), feed' # <<>>, Len(feed') <= MaxEvents,
         usage' \in 0..Len(feed'),
         \/ sent' = sent
         \/ \E ev \in AnyEvent : sent' = Append(sent, [from |-> target, event |-> ev])
  PROVE  TypeOK' /\ StageInv' /\ BodyInv' /\ LadderInv' /\ ReplyInv' /\ ChargeInv'
<1>1. /\ Answered /\ status = "" /\ recorded = 0 /\ charges = <<>>
      /\ open = {target} /\ target \in 1..N /\ sent \in Seq(Sendings)
  BY WhileAnswering
<1>2. Answered' /\ ~Unadmitted' /\ ~Trying' /\ ~Exhausted'
  BY DEF Answered, Unadmitted, Trying, Exhausted, AnsweredStatuses
<1>3. open' = (IF pc' = "answer" THEN {} ELSE {target'}) /\ target' = target
  BY <1>1
<1>4. sent' \in Seq(Sendings) /\ \A i \in DOMAIN sent' : sent'[i].from = target
  <2>1. \A i \in DOMAIN sent : sent[i].from = target
    BY <1>1 DEF DispatchInv, ReplyInv
  <2>2. ASSUME NEW ev \in AnyEvent, sent' = Append(sent, [from |-> target, event |-> ev])
        PROVE  sent' \in Seq(Sendings) /\ \A i \in DOMAIN sent' : sent'[i].from = target
    <3>1. [from |-> target, event |-> ev] \in Sendings
      BY <1>1 DEF Sendings
    <3>2. [from |-> target, event |-> ev].from = target
      OBVIOUS
    <3> QED
      BY <1>1, <2>1, <2>2, <3>1, <3>2, SendingAdded
  <2>3. CASE sent' = sent
    BY <1>1, <2>1, <2>3
  <2> QED
    BY <2>2, <2>3
<1>5. TypeOK'
  <2>1. pc' \in Pcs /\ status' \in OutcomeStatuses /\ open' \in SUBSET (1..N)
    BY <1>1 DEF Pcs, OutcomeStatuses, AnsweredStatuses
  <2>2. usage' \in 0..MaxEvents
    BY ReportBounds
  <2>3. statusLines' \in Seq({"200", "error"})
    BY ShortSeqs
  <2> QED
    BY <1>4, <2>1, <2>2, <2>3 DEF DispatchInv, TypeOK, AnyEvent, Sendings, factVars, envVars, endVars
<1>6. StageInv' /\ BodyInv'
  BY <1>1, <1>3 DEF StageInv, BodyInv, AnsweredStatuses, endVars
<1>7. LadderInv'
  <2>1. attempts' = attempts /\ pc' # "admit"
    OBVIOUS
  <2> QED
    BY <1>1, <1>2, <1>3, <2>1 DEF DispatchInv, LadderInv
<1>8. ReplyInv'
  <2>1. pc' \notin {"admit", "dial", "first", "commit"}
    OBVIOUS
  <2> QED
    BY <1>2, <1>3, <1>4, <2>1 DEF ReplyInv
<1>9. ChargeInv'
  BY <1>1 DEF ChargeInv, endVars
<1> QED
  BY <1>5, <1>6, <1>7, <1>8, <1>9

\* A response is its earlier events and its last.
LEMMA FrontAndLast ==
  ASSUME NEW S, NEW f \in Seq(S), f # <<>>
  PROVE  /\ Front(f) \in Seq(S) /\ Last(f) \in S /\ f = Append(Front(f), Last(f))
         /\ Len(Front(f)) = Len(f) - 1 /\ Len(f) \in Nat \ {0}
<1>1. Len(f) \in Nat \ {0} /\ DOMAIN f = 1..Len(f)
  BY EmptySeq, LenProperties
<1>2. \A i \in 1..(Len(f) - 1) : f[i] \in S
  BY <1>1, ElementOfSeq
<1>3. /\ Front(f) \in Seq(S) /\ Len(Front(f)) = Len(f) - 1
      /\ \A i \in 1..(Len(f) - 1) : Front(f)[i] = f[i]
  BY <1>1, <1>2, SubSeqProperties DEF Front
<1>4. Last(f) \in S /\ Last(f) = f[Len(f)]
  BY <1>1, ElementOfSeq DEF Last
<1> DEFINE g == Append(Front(f), Last(f))
<1>5. /\ g \in Seq(S) /\ Len(g) = Len(f) /\ g[Len(f)] = Last(f)
      /\ \A i \in 1..(Len(f) - 1) : g[i] = f[i]
  <2>1. /\ g \in Seq(S) /\ Len(g) = Len(Front(f)) + 1 /\ g[Len(Front(f)) + 1] = Last(f)
        /\ \A i \in 1..Len(Front(f)) : g[i] = Front(f)[i]
    BY <1>3, <1>4, AppendProperties
  <2>2. Len(Front(f)) + 1 = Len(f)
    BY <1>1, <1>3
  <2> QED
    BY <1>3, <2>1, <2>2
<1> HIDE DEF g
<1>6. \A i \in 1..Len(f) : g[i] = f[i]
  BY <1>1, <1>4, <1>5
<1>7. f = g
  BY <1>5, <1>6, SeqEqual
<1> QED
  BY <1>1, <1>3, <1>4, <1>7 DEF g

\* The earlier events of a response that grew by one.
LEMMA FrontOfGrown ==
  ASSUME NEW S, NEW f \in Seq(S), NEW x \in S
  PROVE  Front(Append(f, x)) = f
<1> DEFINE g == Append(f, x)
<1>1. g \in Seq(S) /\ g # <<>> /\ Len(g) = Len(f) + 1 /\ \A i \in 1..Len(f) : g[i] = f[i]
  BY AppendProperties
<1>2. Len(f) \in Nat
  BY LenProperties
<1> HIDE DEF g
<1>3. Len(g) - 1 = Len(f)
  BY <1>1, <1>2
<1>4. \A i \in 1..Len(f) : g[i] \in S
  BY <1>1, ElementOfSeq
<1>5. /\ Front(g) \in Seq(S) /\ Len(Front(g)) = Len(f)
      /\ \A i \in 1..Len(f) : Front(g)[i] = g[i]
  BY <1>2, <1>3, <1>4, SubSeqProperties DEF Front
<1>6. Front(g) = f
  BY <1>1, <1>5, SeqEqual
<1> QED
  BY <1>6 DEF g

\* The events of what was sent.
EventsOf(s) == [i \in DOMAIN s |-> s[i].event]

\* They are a sequence of events.
LEMMA EventsOfTyped ==
  ASSUME NEW s \in Seq(Sendings)
  PROVE  EventsOf(s) \in Seq(AnyEvent) /\ Len(EventsOf(s)) = Len(s)
<1>1. Len(s) \in Nat /\ DOMAIN s = 1..Len(s) /\ \A i \in 1..Len(s) : s[i] \in Sendings
  BY LenProperties, ElementOfSeq
<1>2. \A i \in 1..Len(s) : s[i].event \in AnyEvent
  BY <1>1 DEF Sendings
<1> QED
  BY <1>1, <1>2 DEF EventsOf

\* Sending an event appends it.
LEMMA EventsOfGrown ==
  ASSUME NEW s \in Seq(Sendings), NEW t \in 1..N, NEW ev \in AnyEvent
  PROVE  EventsOf(Append(s, [from |-> t, event |-> ev])) = Append(EventsOf(s), ev)
<1> DEFINE x == [from |-> t, event |-> ev]
           u == Append(s, x)
<1>1. x \in Sendings /\ x.event = ev
  BY DEF Sendings
<1> HIDE DEF x
<1>2. /\ u \in Seq(Sendings) /\ Len(u) = Len(s) + 1
      /\ \A i \in 1..Len(s) : u[i] = s[i]
      /\ u[Len(s) + 1] = x
  BY <1>1, AppendProperties
<1>3. Len(s) \in Nat /\ DOMAIN s = 1..Len(s)
  BY LenProperties
<1> HIDE DEF u
<1>4. DOMAIN u = 1..(Len(s) + 1)
  BY <1>2, LenProperties
<1>5. EventsOf(u) \in Seq(AnyEvent) /\ Len(EventsOf(u)) = Len(s) + 1
  BY <1>2, EventsOfTyped
<1>6. /\ Append(EventsOf(s), ev) \in Seq(AnyEvent) /\ Len(Append(EventsOf(s), ev)) = Len(s) + 1
      /\ \A i \in 1..Len(s) : Append(EventsOf(s), ev)[i] = EventsOf(s)[i]
      /\ Append(EventsOf(s), ev)[Len(s) + 1] = ev
  BY EventsOfTyped, AppendProperties
<1>7. ASSUME NEW i \in 1..(Len(s) + 1) PROVE EventsOf(u)[i] = Append(EventsOf(s), ev)[i]
  <2>1. CASE i = Len(s) + 1
    BY <1>1, <1>2, <1>4, <1>6, <2>1 DEF EventsOf
  <2>2. CASE i \in 1..Len(s)
    BY <1>2, <1>3, <1>4, <1>6, <2>2 DEF EventsOf
  <2>3. i = Len(s) + 1 \/ i \in 1..Len(s)
    BY <1>3
  <2> QED
    BY <2>1, <2>2, <2>3
<1>8. EventsOf(u) = Append(EventsOf(s), ev)
  BY <1>5, <1>6, <1>7, SeqEqual
<1> QED
  BY <1>8 DEF u, x

\* What the client sees of an event depends on its request alone.
LEMMA SameVisible ==
  ASSUME UNCHANGED wantsUsage
  PROVE  \A s, t : IsVisiblePart(s, t)' <=> IsVisiblePart(s, t)
BY DEF IsVisiblePart, Visible, Hidden

\* While a target answers, everything relayed was delivered.
LEMMA AllDelivered ==
  ASSUME DispatchInv, Reading
  PROVE  IsVisiblePart(SentEvents, Relayed)
BY WhileAnswering DEF DispatchInv, RelayInv

\* Metering the last event keeps usage at the last report.
LEMMA LastMetered ==
  ASSUME NEW S, NEW f \in Seq(S), f # <<>>, NEW u \in 0..Len(f),
         \A i \in (u + 1)..(Len(f) - 1) : ~HasUsage(f[i]), u # 0 => HasUsage(f[u]),
         NEW v, v = IF HasUsage(Last(f)) THEN Len(f) ELSE u
  PROVE  /\ v \in 0..Len(f) /\ (v # 0 => HasUsage(f[v]))
         /\ \A i \in (v + 1)..Len(f) : ~HasUsage(f[i])
<1>1. Len(f) \in Nat \ {0}
  BY EmptySeq
<1>2. CASE HasUsage(Last(f))
  <2>1. v = Len(f) /\ HasUsage(f[v])
    BY <1>2 DEF Last
  <2> QED
    BY <1>1, <2>1
<1>3. CASE ~HasUsage(Last(f))
  <2>1. v = u
    BY <1>3
  <2>2. ASSUME NEW i \in (u + 1)..Len(f) PROVE ~HasUsage(f[i])
    <3>1. i = Len(f) \/ i \in (u + 1)..(Len(f) - 1)
      BY <1>1
    <3> QED
      BY <1>3, <3>1 DEF Last
  <2> QED
    BY <2>1, <2>2
<1> QED
  BY <1>2, <1>3

\* The first event is read, and the ladder ends at its target.
LEMMA FirstEventStep ==
  ASSUME DispatchInv, NEW ev \in AnyEvent, FirstEvent(ev)
  PROVE  DispatchInv'
<1>1. /\ status = "" /\ recorded = 0 /\ charges = <<>> /\ statusLines = <<>>
      /\ sent = <<>> /\ feed = <<>> /\ usage = 0 /\ ttft = FALSE
  BY BeforeAnswer DEF FirstEvent, Trying
<1>2. target \in 1..N /\ target = Len(attempts) + 1 /\ attempts \in Seq(Attempts)
  BY BeforeAnswer DEF FirstEvent, Trying
<1>3. \A i \in 1..Len(attempts) : attempts[i].retryable
  BY BeforeAnswer DEF FirstEvent, Trying
<1>4. /\ pc = "first" /\ pc' = "commit" /\ feed' = <<ev>> /\ ttft' = TRUE
      /\ attempts' = Append(attempts, NoFailure)
      /\ UNCHANGED <<factVars, envVars, clientVars, endVars, usage, status, target, open>>
  BY DEF FirstEvent
<1>5. NoFailure \in Attempts
  BY DEF NoFailure, Attempts
<1>6. /\ attempts' \in Seq(Attempts) /\ attempts' # <<>> /\ Len(attempts') = Len(attempts) + 1
      /\ Last(attempts') = NoFailure /\ \A i \in 1..Len(attempts) : attempts'[i] = attempts[i]
  BY <1>2, <1>4, <1>5, AttemptAdded
<1>7. Len(attempts) \in Nat /\ Len(attempts') - 1 = Len(attempts) /\ Len(attempts') = target
  BY <1>2, <1>6
<1>8. feed' \in Seq(AnyEvent) /\ Len(feed') = 1 /\ feed' # <<>> /\ 1 <= MaxEvents
  BY <1>4, DispatchAssumption
<1>9. TypeOK'
  <2>1. Len(attempts') <= N /\ Len(feed') <= MaxEvents
    BY <1>2, <1>7, <1>8
  <2> QED
    BY <1>4, <1>6, <1>8, <2>1 DEF DispatchInv, TypeOK, AnyEvent, Pcs, factVars, envVars, clientVars, endVars
<1>10. Answered' /\ ~Unadmitted' /\ ~Trying' /\ ~Exhausted'
  BY <1>1, <1>4 DEF Answered, Unadmitted, Trying, Exhausted
<1>11. StageInv' /\ BodyInv' /\ ChargeInv'
  BY <1>1, <1>4 DEF DispatchInv, StageInv, BodyInv, ChargeInv, endVars
<1>12. LadderInv'
  <2>1. \A i \in 1..(Len(attempts') - 1) : attempts'[i].retryable
    BY <1>3, <1>6, <1>7
  <2>2. Len(attempts') = target' /\ pc' # "admit"
    BY <1>4, <1>7
  <2> QED
    BY <1>6, <1>10, <2>1, <2>2 DEF LadderInv
<1>13. ReplyInv'
  <2>1. DOMAIN sent' = {} /\ statusLines' = <<>>
    BY <1>1, <1>4, ShortSeqs DEF clientVars
  <2> QED
    BY <1>4, <1>8, <1>10, <2>1 DEF ReplyInv
<1>14. RelayInv'
  <2>1. DOMAIN SentEvents' = {}
    BY <1>1, <1>4, ShortSeqs DEF SentEvents, clientVars
  <2>2. Relayed' = Front(feed')
    BY <1>4 DEF Relayed
  <2>3. Front(feed') = <<>>
    BY <1>8, SubSeqEmpty DEF Front
  <2>4. IsVisiblePart(SentEvents', Relayed')
    BY <2>1, <2>2, <2>3, ShortSeqs, VisibleNone
  <2> QED
    BY <1>4, <2>4, SameVisible DEF RelayInv, factVars
<1>15. MeterInv'
  <2>1. usage' = 0 /\ Len(feed') = 1
    BY <1>1, <1>4, <1>8
  <2> QED
    BY <1>4, <2>1 DEF MeterInv
<1> QED
  BY <1>9, <1>11, <1>12, <1>13, <1>14, <1>15 DEF DispatchInv

\* The status line is written, and relaying starts.
LEMMA CommitOKStep ==
  ASSUME DispatchInv, CommitOK
  PROVE  DispatchInv'
<1>1. Reading
  BY DEF CommitOK, Reading
<1>2. /\ status = "" /\ statusLines = <<>> /\ feed \in Seq(AnyEvent) /\ feed # <<>>
      /\ Len(feed) <= MaxEvents /\ usage \in 0..Len(feed) /\ errorFrames \in Nat
  BY <1>1, WhileAnswering DEF CommitOK, DispatchInv, TypeOK
<1>3. statusLines' = <<"200">>
  BY <1>2, ShortSeqs DEF CommitOK
<1>4. TypeOK' /\ StageInv' /\ BodyInv' /\ LadderInv' /\ ReplyInv' /\ ChargeInv'
  BY <1>1, <1>2, <1>3, AnswerKept DEF CommitOK, outcomeVars
<1>5. RelayInv'
  BY <1>1, <1>2, RelayFrame, WhileAnswering DEF CommitOK, factVars, outcomeVars
<1>6. MeterInv'
  BY DEF DispatchInv, MeterInv, CommitOK, outcomeVars
<1> QED
  BY <1>4, <1>5, <1>6 DEF DispatchInv

\* Run ends because the client did, with its last event undelivered.
LEMMA DeliveryFails ==
  ASSUME DispatchInv, pc \in {"commit", "relay"}, pc' = "answer", status' = "client_disconnect",
         UNCHANGED <<wantsUsage, sent, feed>>
  PROVE  RelayInv'
<1>1. IsVisiblePart(SentEvents, Front(feed))
  BY AllDelivered DEF Reading, Relayed
<1>2. SentEvents' = SentEvents /\ Front(feed)' = Front(feed)
  BY DEF SentEvents, Front
<1> QED
  BY <1>1, <1>2, SameVisible DEF RelayInv

\* The status line could not be written.
LEMMA CommitFailsStep ==
  ASSUME DispatchInv, CommitFails
  PROVE  DispatchInv'
<1>1. Reading
  BY DEF CommitFails, Reading
<1>2. /\ statusLines = <<>> /\ feed \in Seq(AnyEvent) /\ feed # <<>>
      /\ Len(feed) <= MaxEvents /\ usage \in 0..Len(feed) /\ errorFrames \in Nat
  BY <1>1, WhileAnswering DEF CommitFails, DispatchInv, TypeOK
<1>3. statusLines' = <<"200">>
  BY <1>2, ShortSeqs DEF CommitFails
<1>4. TypeOK' /\ StageInv' /\ BodyInv' /\ LadderInv' /\ ReplyInv' /\ ChargeInv'
  BY <1>1, <1>2, <1>3, AnswerKept DEF CommitFails, EndRun, CloseReader, AnsweredStatuses
<1>5. RelayInv'
  BY DeliveryFails DEF CommitFails, EndRun, factVars
<1>6. MeterInv'
  <2>1. usage = 0 /\ usage' = usage /\ feed' = feed /\ pc' = "answer" /\ status' = "client_disconnect"
    BY DEF DispatchInv, MeterInv, CommitFails, EndRun
  <2> QED
    BY <2>1 DEF DispatchInv, MeterInv
<1> QED
  BY <1>4, <1>5, <1>6 DEF DispatchInv

\* What metering the event at hand yields.
LEMMA EventMetered ==
  ASSUME DispatchInv, pc = "relay", Meter(Last(feed))
  PROVE  /\ usage' \in 0..Len(feed) /\ (usage' # 0 => HasUsage(feed[usage']))
         /\ \A i \in (usage' + 1)..Len(feed) : ~HasUsage(feed[i])
<1>1. feed \in Seq(AnyEvent) /\ feed # <<>> /\ usage \in 0..Len(feed)
  BY WhileAnswering DEF Reading
<1>2. (\A i \in (usage + 1)..(Len(feed) - 1) : ~HasUsage(feed[i])) /\ (usage # 0 => HasUsage(feed[usage]))
  BY DEF DispatchInv, MeterInv
<1>3. usage' = IF HasUsage(Last(feed)) THEN Len(feed) ELSE usage
  BY DEF Meter
<1> QED
  BY <1>1, <1>2, <1>3, LastMetered

\* Once metered, the events need no more.
LEMMA MeteredOn ==
  ASSUME usage' \in 0..Len(feed), \A i \in (usage' + 1)..Len(feed) : ~HasUsage(feed[i]),
         usage' # 0 => HasUsage(feed[usage']), feed' = feed, pc' \notin {"commit", "relay"}, feed \in Seq(AnyEvent)
  PROVE  MeterInv'
<1>1. /\ usage' \in 0..Len(feed') /\ (usage' # 0 => HasUsage(feed'[usage']))
      /\ \A i \in (usage' + 1)..Len(feed') : ~HasUsage(feed'[i])
  OBVIOUS
<1>2. Len(feed') \in Nat
  OBVIOUS
<1>3. usage' <= Len(feed')
  BY <1>1, <1>2
<1> QED
  BY <1>1, <1>3 DEF MeterInv

\* An event is relayed: what the client has is again the visible part of what was
\* read.
LEMMA EventDelivered ==
  ASSUME DispatchInv, pc = "relay", Forward(Last(feed)), UNCHANGED <<wantsUsage, feed>>,
         pc' \notin {"commit", "relay"}
  PROVE  RelayInv'
<1>1. feed \in Seq(AnyEvent) /\ feed # <<>> /\ sent \in Seq(Sendings) /\ target \in 1..N
  BY WhileAnswering DEF Reading
<1>2. /\ Front(feed) \in Seq(AnyEvent) /\ Last(feed) \in AnyEvent
      /\ feed = Append(Front(feed), Last(feed))
  BY <1>1, FrontAndLast
<1>3. IsVisiblePart(SentEvents, Front(feed))
  BY AllDelivered DEF Reading, Relayed
<1>4. SentEvents = EventsOf(sent) /\ SentEvents' = EventsOf(sent') /\ SentEvents \in Seq(AnyEvent)
  BY <1>1, EventsOfTyped DEF SentEvents, EventsOf
<1>5. CASE Hidden(Last(feed))
  <2>1. SentEvents' = SentEvents /\ ~Visible(Last(feed))
    BY <1>5 DEF Forward, SentEvents, Visible
  <2>2. IsVisiblePart(SentEvents, Append(Front(feed), Last(feed)))
    BY <1>2, <1>3, <1>4, <2>1, VisibleSkips
  <2>3. IsVisiblePart(SentEvents', feed)
    BY <1>2, <2>1, <2>2
  <2> QED
    BY <2>3, SameVisible DEF RelayInv, Relayed
<1>6. CASE ~Hidden(Last(feed))
  <2>1. sent' = Append(sent, [from |-> target, event |-> Last(feed)]) /\ Visible(Last(feed))
    BY <1>6 DEF Forward, Visible
  <2>2. SentEvents' = Append(SentEvents, Last(feed))
    BY <1>1, <1>2, <1>4, <2>1, EventsOfGrown
  <2>3. IsVisiblePart(Append(SentEvents, Last(feed)), Append(Front(feed), Last(feed)))
    BY <1>2, <1>3, <1>4, <2>1, VisibleKeeps
  <2>4. IsVisiblePart(SentEvents', feed)
    BY <1>2, <2>2, <2>3
  <2> QED
    BY <2>4, SameVisible DEF RelayInv, Relayed
<1> QED
  BY <1>5, <1>6

\* An event is metered and relayed, and ends Run if it is terminal.
LEMMA RelayEventStep ==
  ASSUME DispatchInv, RelayEvent
  PROVE  DispatchInv'
<1>1. Reading /\ pc = "relay"
  BY DEF RelayEvent, Reading
<1>2. /\ status = "" /\ statusLines = <<"200">> /\ feed \in Seq(AnyEvent) /\ feed # <<>>
      /\ Len(feed) <= MaxEvents /\ errorFrames \in Nat
  BY <1>1, WhileAnswering DEF DispatchInv, TypeOK
<1>3. /\ usage' \in 0..Len(feed) /\ (usage' # 0 => HasUsage(feed[usage']))
      /\ \A i \in (usage' + 1)..Len(feed) : ~HasUsage(feed[i])
  BY <1>1, EventMetered DEF RelayEvent
<1>4. \/ pc' = "read" /\ status' = "" /\ open' = open
      \/ pc' = "answer" /\ status' = "ok" /\ open' = open \ {target}
  BY <1>2 DEF RelayEvent, EndRun, CloseReader
<1>5. \/ sent' = sent
      \/ \E ev \in AnyEvent : sent' = Append(sent, [from |-> target, event |-> ev])
  BY <1>2, FrontAndLast DEF RelayEvent, Forward
<1>6. UNCHANGED <<factVars, envVars, endVars, attempts, ttft, errorFrames, statusLines, target, feed>>
  BY DEF RelayEvent
<1>7. TypeOK' /\ StageInv' /\ BodyInv' /\ LadderInv' /\ ReplyInv' /\ ChargeInv'
  <2>1. usage' \in 0..Len(feed')
    BY <1>3, <1>6
  <2> QED
    BY <1>1, <1>2, <1>4, <1>5, <1>6, <2>1, AnswerKept DEF AnsweredStatuses
<1>8. RelayInv'
  BY <1>1, <1>4, <1>6, EventDelivered DEF RelayEvent, factVars
<1>9. MeterInv'
  BY <1>2, <1>3, <1>4, <1>6, MeteredOn
<1> QED
  BY <1>7, <1>8, <1>9 DEF DispatchInv

\* An event is metered and cannot be delivered.
LEMMA SendFailsStep ==
  ASSUME DispatchInv, SendFails
  PROVE  DispatchInv'
<1>1. Reading /\ pc = "relay"
  BY DEF SendFails, Reading
<1>2. /\ statusLines = <<"200">> /\ feed \in Seq(AnyEvent) /\ feed # <<>>
      /\ Len(feed) <= MaxEvents /\ errorFrames \in Nat
  BY <1>1, WhileAnswering DEF DispatchInv, TypeOK
<1>3. /\ usage' \in 0..Len(feed) /\ (usage' # 0 => HasUsage(feed[usage']))
      /\ \A i \in (usage' + 1)..Len(feed) : ~HasUsage(feed[i])
  BY <1>1, EventMetered DEF SendFails
<1>4. /\ pc' = "answer" /\ status' = "client_disconnect" /\ open' = open \ {target}
      /\ UNCHANGED <<factVars, envVars, clientVars, endVars, attempts, ttft, target, feed>>
  BY DEF SendFails, EndRun, CloseReader
<1>5. TypeOK' /\ StageInv' /\ BodyInv' /\ LadderInv' /\ ReplyInv' /\ ChargeInv'
  <2>1. usage' \in 0..Len(feed')
    BY <1>3, <1>4
  <2> QED
    BY <1>1, <1>2, <1>4, <2>1, AnswerKept DEF AnsweredStatuses, clientVars
<1>6. RelayInv'
  BY <1>1, <1>4, DeliveryFails DEF factVars, clientVars
<1>7. MeterInv'
  BY <1>2, <1>3, <1>4, MeteredOn
<1> QED
  BY <1>5, <1>6, <1>7 DEF DispatchInv

\* A response one event longer, still within its bound.
LEMMA FeedGrows ==
  ASSUME NEW S, NEW f \in Seq(S), NEW x \in S, Len(f) < MaxEvents, NEW u \in 0..Len(f)
  PROVE  LET g == Append(f, x)
         IN  /\ g \in Seq(S) /\ g # <<>> /\ Len(g) <= MaxEvents /\ Len(g) - 1 = Len(f)
             /\ u \in 0..Len(g) /\ u <= Len(g)
             /\ \A i \in (u + 1)..Len(f) : g[i] = f[i]
<1> DEFINE g == Append(f, x)
<1>1. /\ g \in Seq(S) /\ g # <<>> /\ Len(g) = Len(f) + 1
      /\ \A i \in 1..Len(f) : g[i] = f[i]
  BY AppendProperties
<1>2. Len(f) \in Nat /\ MaxEvents \in Nat
  BY LenProperties, DispatchAssumption
<1> HIDE DEF g
<1>3. Len(g) <= MaxEvents /\ Len(g) - 1 = Len(f) /\ u \in 0..Len(g) /\ u <= Len(g)
  BY <1>1, <1>2
<1>4. \A i \in (u + 1)..Len(f) : g[i] = f[i]
  BY <1>1, <1>2
<1>5. /\ g \in Seq(S) /\ g # <<>> /\ Len(g) <= MaxEvents /\ Len(g) - 1 = Len(f)
      /\ u \in 0..Len(g) /\ u <= Len(g)
      /\ \A i \in (u + 1)..Len(f) : g[i] = f[i]
  BY <1>1, <1>3, <1>4
<1> QED
  BY <1>5 DEF g

\* One more event is read.
LEMMA ReadEventStep ==
  ASSUME DispatchInv, NEW ev \in AnyEvent, ReadEvent(ev)
  PROVE  DispatchInv'
<1>1. Reading /\ pc = "read"
  BY DEF ReadEvent, Reading
<1>2. /\ status = "" /\ statusLines = <<"200">> /\ feed \in Seq(AnyEvent)
      /\ usage \in 0..Len(feed) /\ errorFrames \in Nat
  BY <1>1, WhileAnswering DEF DispatchInv, TypeOK
<1>3. /\ pc' = "relay" /\ feed' = Append(feed, ev) /\ Len(feed) < MaxEvents
      /\ UNCHANGED <<factVars, envVars, outcomeVars, clientVars, endVars, target, open>>
  BY DEF ReadEvent
<1>4. /\ feed' \in Seq(AnyEvent) /\ feed' # <<>> /\ Len(feed') <= MaxEvents
      /\ Len(feed') - 1 = Len(feed) /\ usage \in 0..Len(feed') /\ usage <= Len(feed')
      /\ \A i \in (usage + 1)..Len(feed) : feed'[i] = feed[i]
  <2>1. feed \in Seq(AnyEvent) /\ Len(feed) < MaxEvents /\ usage \in 0..Len(feed)
    BY <1>2, <1>3
  <2>2. LET g == Append(feed, ev)
        IN  /\ g \in Seq(AnyEvent) /\ g # <<>> /\ Len(g) <= MaxEvents /\ Len(g) - 1 = Len(feed)
            /\ usage \in 0..Len(g) /\ usage <= Len(g)
            /\ \A i \in (usage + 1)..Len(feed) : g[i] = feed[i]
    BY <2>1, FeedGrows
  <2> QED
    BY <1>3, <2>2
<1>5. usage' = usage
  BY <1>3 DEF outcomeVars
<1>6. TypeOK' /\ StageInv' /\ BodyInv' /\ LadderInv' /\ ReplyInv' /\ ChargeInv'
  BY <1>1, <1>2, <1>3, <1>4, <1>5, AnswerKept DEF outcomeVars, clientVars
<1>7. RelayInv'
  <2>1. IsVisiblePart(SentEvents, feed)
    BY <1>1, AllDelivered DEF Relayed
  <2>2. SentEvents' = SentEvents /\ Relayed' = Front(feed') /\ Front(feed') = feed
    BY <1>2, <1>3, FrontOfGrown DEF SentEvents, Relayed, clientVars
  <2> QED
    BY <1>3, <2>1, <2>2, SameVisible DEF RelayInv, factVars
<1>8. MeterInv'
  <2>1. \A i \in (usage + 1)..Len(feed) : ~HasUsage(feed[i])
    BY <1>1, <1>2 DEF DispatchInv, MeterInv
  <2>2. \A i \in (usage' + 1)..(Len(feed') - 1) : ~HasUsage(feed'[i])
    BY <1>4, <1>5, <2>1
  <2>3. ASSUME usage' # 0 PROVE HasUsage(feed'[usage'])
    <3>1. usage # 0 /\ HasUsage(feed[usage])
      BY <1>5, <2>3 DEF DispatchInv, MeterInv
    <3>3. usage \in 1..Len(feed)
      BY <1>2, <3>1, ReportPlace
    <3>2. feed'[usage] = feed[usage]
      BY <1>2, <1>3, <3>3, AppendProperties
    <3> QED
      BY <1>5, <3>1, <3>2
  <2> QED
    BY <1>3, <1>4, <1>5, <2>2, <2>3 DEF MeterInv
<1> QED
  BY <1>6, <1>7, <1>8 DEF DispatchInv

\* The stream ends, one way or another.
LEMMA ReadFailsStep ==
  ASSUME DispatchInv, NEW e \in ReadErrors, ReadFails(e)
  PROVE  DispatchInv'
<1>1. Reading /\ pc = "read"
  BY DEF ReadFails, Reading
<1>2. /\ Answered /\ status = "" /\ statusLines = <<"200">> /\ feed \in Seq(AnyEvent) /\ feed # <<>>
      /\ Len(feed) <= MaxEvents /\ usage \in 0..Len(feed) /\ errorFrames \in Nat
  BY <1>1, WhileAnswering DEF DispatchInv, TypeOK
<1>3. /\ pc' = "answer" /\ status' \in AnsweredStatuses /\ open' = open \ {target}
      /\ UNCHANGED <<factVars, envVars, endVars, attempts, usage, ttft, sent, statusLines, target, feed>>
  BY DEF ReadFails, EndRun, CloseReader, AnsweredStatuses
<1>4. errorFrames' \in Nat
  <2>1. errorFrames \in Nat /\ errorFrames' \in {errorFrames, errorFrames + 1}
    BY <1>2 DEF ReadFails
  <2> QED
    BY <2>1
<1>5. TypeOK' /\ StageInv' /\ BodyInv' /\ LadderInv' /\ ReplyInv' /\ ChargeInv'
  BY <1>1, <1>2, <1>3, <1>4, AnswerKept
<1>6. RelayInv'
  BY <1>1, <1>2, <1>3, RelayFrame DEF factVars
<1>7. MeterInv'
  <2>1. (\A i \in (usage' + 1)..Len(feed) : ~HasUsage(feed[i])) /\ (usage' # 0 => HasUsage(feed[usage']))
    BY <1>1, <1>2, <1>3 DEF DispatchInv, MeterInv
  <2> QED
    BY <1>2, <1>3, <2>1, MeteredOn
<1> QED
  BY <1>5, <1>6, <1>7 DEF DispatchInv

(***************************************************************************)
(* The invariant holds.                                                    *)
(***************************************************************************)

\* A request starts in it.
LEMMA DispatchInit == Init => DispatchInv
<1> SUFFICES ASSUME Init PROVE DispatchInv
  OBVIOUS
<1>1. ~Answered /\ ~Trying /\ ~Exhausted
  BY DEF Init, Answered, Trying, Exhausted
<1>2. TypeOK
  <2>1. N \in Nat /\ MaxEvents \in Nat /\ 1 \in 1..(N + 1) /\ 0 <= N /\ 0 <= MaxEvents
    BY DispatchAssumption
  <2>2. Len(<<>>) = 0 /\ \A S : <<>> \in Seq(S)
    OBVIOUS
  <2>5. 0 \in 0..MaxEvents /\ 0 \in 0..1 /\ 0 \in Nat
    BY <2>1
  <2>3. /\ target \in 1..(N + 1) /\ Len(feed) <= MaxEvents /\ Len(attempts) <= N
        /\ usage \in 0..MaxEvents /\ recorded \in 0..1 /\ errorFrames \in Nat
    BY <2>1, <2>2, <2>5 DEF Init
  <2>4. /\ feed \in Seq(StreamEvents \cup BodyEvents) /\ attempts \in Seq(Attempts)
        /\ sent \in Seq([from : 1..N, event : StreamEvents \cup BodyEvents])
        /\ statusLines \in Seq({"200", "error"}) /\ charges \in Seq(Charges)
    BY <2>2 DEF Init
  <2> QED
    BY <2>3, <2>4 DEF Init, TypeOK, Pcs, OutcomeStatuses
<1>3. StageInv /\ BodyInv /\ LadderInv
  BY <1>1 DEF Init, StageInv, BodyInv, LadderInv
<1>4. ReplyInv /\ RelayInv
  BY <1>1 DEF Init, ReplyInv, RelayInv
<1>5. MeterInv
  <2>1. usage = 0 /\ Len(feed) = 0 /\ pc = "admit"
    BY DEF Init
  <2> QED
    BY <2>1 DEF MeterInv
<1>6. ChargeInv
  BY DEF Init, ChargeInv
<1> QED
  BY <1>2, <1>3, <1>4, <1>5, <1>6 DEF DispatchInv

\* Every reachable state of a request satisfies it.
LEMMA DispatchInductive == Spec => []DispatchInv
<1>1. ASSUME DispatchInv, [Next]_vars PROVE DispatchInv'
  <2>1. ASSUME Handler PROVE DispatchInv'
    BY <1>1, <2>1, RefuseStep, RefuseOverQuotaStep, AdmitStep, CommitOKStep, CommitFailsStep,
       RelayEventStep, SendFailsStep, AnswerStep, RecordStep, RecordPanicsStep, ReconcileStep
       DEF Handler
  <2>2. ASSUME Upstream PROVE DispatchInv'
    BY <1>1, <2>2, StreamOpensStep, FirstEventStep, ReadEventStep, StreamFailsStep,
       FirstFailsStep, ReadFailsStep DEF Upstream, AnyEvent
  <2>3. ASSUME World \/ Over \/ UNCHANGED vars PROVE DispatchInv'
    BY <1>1, <2>3, WorldStep DEF Over
  <2> QED
    BY <1>1, <2>1, <2>2, <2>3 DEF Next
<1> QED
  BY <1>1, DispatchInit, PTL DEF Spec

(***************************************************************************)
(* The properties.                                                         *)
(***************************************************************************)

\* The request is well typed: the attempts never outnumber the ladder, and a
\* decision is recorded at most once.
THEOREM DispatchTyped == Spec => []TypeOK
<1>1. DispatchInv => TypeOK
  BY DEF DispatchInv
<1> QED
  BY <1>1, DispatchInductive, PTL

\* The target Outcome.ChosenTarget names: the one in hand once it answered, and
\* none before.
LEMMA ChosenIsTarget ==
  ASSUME DispatchInv
  PROVE  ChosenTarget = IF Answered THEN target ELSE 0
<1>1. CASE Answered
  BY <1>1 DEF DispatchInv, LadderInv, ChosenTarget
<1>2. CASE ~Answered
  <2>1. CASE attempts = <<>>
    BY <1>2, <2>1 DEF ChosenTarget
  <2>2. CASE attempts # <<>>
    <3>1. Trying \/ Exhausted
      BY <1>2, <2>2 DEF DispatchInv, TypeOK, StageInv, LadderInv, Unadmitted, Trying, Exhausted,
         Answered, Pcs, OutcomeStatuses
    <3>2. Last(attempts) # NoFailure
      <4>1. CASE Exhausted
        BY <4>1 DEF DispatchInv, LadderInv
      <4>2. CASE Trying
        <5>1. attempts \in Seq(Attempts) /\ \A i \in 1..Len(attempts) : attempts[i].retryable
          BY <4>2, BeforeAnswer
        <5>2. Len(attempts) \in 1..Len(attempts)
          BY <2>2, <5>1, EmptySeq
        <5>3. Last(attempts).retryable
          BY <5>1, <5>2 DEF Last
        <5> QED
          BY <5>3 DEF NoFailure
      <4> QED
        BY <3>1, <4>1, <4>2
    <3> QED
      BY <1>2, <3>2 DEF ChosenTarget
  <2> QED
    BY <2>1, <2>2
<1> QED
  BY <1>1, <1>2

\* The client sees one status line and one target's events, in order, whatever the
\* ladder went through and wherever the stream ends.
THEOREM OneResponse == Spec => []OneTargetSeen
<1>1. DispatchInv => OneTargetSeen
  <2> SUFFICES ASSUME DispatchInv PROVE OneTargetSeen
    OBVIOUS
  <2>1. OneStatusLine
    <3>1. Len(<<>>) = 0 /\ Len(<<"200">>) = 1 /\ Len(<<"error">>) = 1
      OBVIOUS
    <3>2. statusLines \in {<<>>, <<"200">>, <<"error">>}
      BY DEF DispatchInv, ReplyInv
    <3>3. pc = "done" => statusLines \in {<<"200">>, <<"error">>}
      BY DEF DispatchInv, ReplyInv
    <3>4. ASSUME status = "exhausted" PROVE sent = <<>> /\ "200" \notin Range(statusLines)
      <4>1. ~Answered
        BY <3>4 DEF DispatchInv, StageInv, Answered
      <4>2. sent = <<>> /\ statusLines \in {<<>>, <<"error">>}
        BY <4>1 DEF DispatchInv, ReplyInv
      <4>3. Range(<<>>) = {} /\ Range(<<"error">>) = {"error"}
        BY DEF Range
      <4> QED
        BY <4>2, <4>3
    <3>5. Len(statusLines) <= 1 /\ (pc = "done" => Len(statusLines) = 1)
      BY <3>1, <3>2, <3>3
    <3> QED
      BY <3>4, <3>5 DEF OneStatusLine
  <2>2. \A i \in DOMAIN sent : sent[i].from = ChosenTarget
    <3>1. CASE Answered
      BY <3>1, ChosenIsTarget DEF DispatchInv, ReplyInv
    <3>2. CASE ~Answered
      BY <3>2, ShortSeqs DEF DispatchInv, ReplyInv
    <3> QED
      BY <3>1, <3>2
  <2>3. ChosenTarget # 0 => Answered
    BY ChosenIsTarget
  <2> QED
    BY <2>1, <2>2, <2>3 DEF OneTargetSeen, DispatchInv, RelayInv
<1> QED
  BY <1>1, DispatchInductive, PTL

\* Every outcome Run returns is one Validate accepts, and names the target that
\* answered.
THEOREM OutcomesAreValid == Spec => []OutcomeValid
<1>1. DispatchInv => OutcomeValid
  <2> SUFFICES ASSUME DispatchInv, pc \in {"answer", "record", "reconcile"}
               PROVE  /\ status # ""
                      /\ status = "exhausted" => ~ttft /\ ChosenTarget = 0
                      /\ status # "exhausted" /\ attempts # <<>> => ChosenTarget = target
    BY DEF OutcomeValid
  <2>1. status # ""
    BY DEF DispatchInv, StageInv
  <2>2. ASSUME status = "exhausted" PROVE ~ttft /\ ChosenTarget = 0
    BY <2>2, ChosenIsTarget DEF DispatchInv, ReplyInv, Answered
  <2>3. ASSUME status # "exhausted", attempts # <<>> PROVE ChosenTarget = target
    <3>1. Answered
      BY <2>1, <2>3 DEF DispatchInv, TypeOK, LadderInv, OutcomeStatuses, Unadmitted, Answered
    <3> QED
      BY <3>1, ChosenIsTarget
  <2> QED
    BY <2>1, <2>2, <2>3
<1> QED
  BY <1>1, DispatchInductive, PTL

\* Every attempt but the last failed in a way that is retried, and a ladder that
\* stopped early stopped at a final failure.
THEOREM LadderIsExplained == Spec => []LadderExplained
<1>1. DispatchInv => LadderExplained
  <2> SUFFICES ASSUME DispatchInv PROVE LadderExplained
    OBVIOUS
  <2>1. \A i \in 1..(Len(attempts) - 1) : attempts[i].retryable
    <3>1. CASE Exhausted \/ Answered
      BY <3>1 DEF DispatchInv, LadderInv
    <3>2. CASE Trying
      <4>1. attempts \in Seq(Attempts) /\ \A i \in 1..Len(attempts) : attempts[i].retryable
        BY <3>2, BeforeAnswer
      <4>2. Len(attempts) \in Nat
        BY <4>1
      <4> QED
        BY <4>1, <4>2
    <3>3. CASE Unadmitted
      BY <3>3 DEF DispatchInv, LadderInv
    <3> QED
      BY <3>1, <3>2, <3>3 DEF DispatchInv, TypeOK, StageInv, Unadmitted, Trying, Exhausted,
         Answered, Pcs, OutcomeStatuses
  <2>2. status = "exhausted" /\ Len(attempts) < N => ~Last(attempts).retryable
    BY DEF DispatchInv, LadderInv, Exhausted
  <2> QED
    BY <2>1, <2>2 DEF LadderExplained
<1> QED
  BY <1>1, DispatchInductive, PTL

\* No response body outlives its attempt.
THEOREM NoBodyLeaks == Spec => []NoLeakedBody
<1>1. DispatchInv => NoLeakedBody
  <2> SUFFICES ASSUME DispatchInv PROVE NoLeakedBody
    OBVIOUS
  <2>1. (open = {} \/ open = {target}) /\ (pc \in {"answer", "done"} => open = {})
    BY DEF DispatchInv, BodyInv
  <2>2. Cardinality({}) = 0 /\ Cardinality({target}) = 1
    BY FS_EmptySet, FS_Singleton
  <2> QED
    BY <2>1, <2>2 DEF NoLeakedBody
<1> QED
  BY <1>1, DispatchInductive, PTL

\* Facts about positions and one-element sequences.
LEMMA Positions ==
  /\ \A t \in 1..(N + 1) : t # 0
  /\ \A S : \A f \in Seq(S) : DOMAIN f = (0 + 1)..Len(f)
  /\ \A x : Len(<<x>>) = 1 /\ Head(<<x>>) = x
<1>1. \A t \in 1..(N + 1) : t # 0
  BY DispatchAssumption
<1>2. \A S : \A f \in Seq(S) : DOMAIN f = (0 + 1)..Len(f)
  OBVIOUS
<1>3. ASSUME NEW x PROVE Len(<<x>>) = 1 /\ Head(<<x>>) = x
  OBVIOUS
<1> QED
  BY <1>1, <1>2, <1>3

\* An admitted request is settled once: for the last report the upstream sent, or for
\* its reservation when there was none or it totals zero.
THEOREM RequestsSettledFairly == Spec => []SettledFairly
<1>1. DispatchInv => SettledFairly
  <2> SUFFICES ASSUME DispatchInv, pc = "done", status \notin {"", "policy_blocked"}
               PROVE  SettledFairly
    BY DEF SettledFairly
  <2>1. charges = <<ActualUsage>>
    BY DEF DispatchInv, ChargeInv, Unadmitted
  <2>2. Len(charges) = 1 /\ Head(charges) = ActualUsage
    BY <2>1, Positions
  <2>3. (Answered <=> status # "exhausted") /\ (ChosenTarget = 0 <=> ~Answered)
    <3>1. Answered <=> status # "exhausted"
      BY DEF DispatchInv, TypeOK, OutcomeStatuses, Answered
    <3>2. target # 0
      <4>1. target \in 1..(N + 1)
        BY DEF DispatchInv, TypeOK
      <4> QED
        BY <4>1, Positions
    <3> QED
      BY <3>1, <3>2, ChosenIsTarget
  <2>4. ActualUsage = IF ~Answered THEN "nothing"
                      ELSE IF usage = 0 \/ ZeroTotal(feed[usage]) THEN "reserved" ELSE "reported"
    BY <2>3 DEF ActualUsage
  <2>5. (Head(charges) = "nothing") = (ChosenTarget = 0)
    BY <2>2, <2>3, <2>4
  <2>6. /\ usage # 0 => HasUsage(feed[usage])
        /\ usage # 0 \/ status # "client_disconnect" =>
             \A i \in (usage + 1)..Len(feed) : ~HasUsage(feed[i])
    BY DEF DispatchInv, MeterInv
  <2>9. feed \in Seq(AnyEvent) /\ usage \in 0..Len(feed)
    <3>1. feed \in Seq(AnyEvent) /\ usage \in 0..MaxEvents /\ usage <= Len(feed)
      BY DEF DispatchInv, TypeOK, MeterInv, AnyEvent
    <3>2. Len(feed) \in Nat
      BY <3>1, LenProperties
    <3> QED
      BY <3>1, <3>2, ReportWithin
  <2>7. ASSUME Head(charges) = "reported" PROVE LastReportCounts
    <3>1. usage # 0 /\ ~ZeroTotal(feed[usage])
      BY <2>2, <2>4, <2>7
    <3>2. usage \in DOMAIN feed
      BY <2>9, <3>1, ReportPlace
    <3> QED
      BY <2>6, <3>1, <3>2 DEF LastReportCounts
  <2>8. ASSUME status \in {"ok", "truncated"}, LastReportCounts
        PROVE  Head(charges) = "reported"
    <3>1. Answered /\ status # "client_disconnect"
      BY <2>8 DEF Answered
    <3>2. PICK i \in DOMAIN feed : /\ HasUsage(feed[i]) /\ ~ZeroTotal(feed[i])
                                  /\ \A j \in (i + 1)..Len(feed) : ~HasUsage(feed[j])
      BY <2>8 DEF LastReportCounts
    <3>3. i \notin (usage + 1)..Len(feed)
      BY <2>6, <3>1, <3>2
    <3>4. usage # 0
      <4>1. CASE usage = 0
        <5>1. i \in (0 + 1)..Len(feed)
          BY <2>9, <3>2, Positions
        <5> QED
          BY <3>3, <4>1, <5>1
      <4> QED
        BY <4>1
    <3>5. usage \notin (i + 1)..Len(feed)
      BY <2>6, <3>2, <3>4
    <3>6. usage = i
      <4>1. i \in 1..Len(feed)
        BY <2>9, <3>2, ReportPlace
      <4> QED
        BY <2>9, <3>3, <3>5, <4>1, ReportPlace
    <3> QED
      BY <2>2, <2>4, <3>1, <3>2, <3>4, <3>6
  <2> QED
    BY <2>2, <2>5, <2>7, <2>8 DEF SettledFairly
<1> QED
  BY <1>1, DispatchInductive, PTL
=============================================================================
