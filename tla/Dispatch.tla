------------------------------ MODULE Dispatch ------------------------------
(***************************************************************************)
(* One request on the proxy path: the handler (proxyapi/handler.go), the   *)
(* dispatcher that walks the failover ladder (usecases/dispatch), the      *)
(* provider client and its stream reader (oaicompat), and the client's     *)
(* response (proxyapi/client_stream.go).  The client may leave, and a      *)
(* shutdown may cut the request, between any two steps.                    *)
(***************************************************************************)
EXTENDS Naturals, Sequences, FiniteSets, SequencesExt

CONSTANTS
  N,          \* targets in the resolved ladder
  MaxEvents   \* bound: how many events an upstream sends in one response

\* Configuration refuses an empty ladder (routing/table.go).
ASSUME DispatchAssumption == N \in Nat \ {0} /\ MaxEvents \in Nat \ {0}

VARIABLES
  stream,      \* the request asked for a streamed response
  wantsUsage,  \* and for the usage chunk
  pc,          \* where the handler is
  client,      \* "there" or "gone"
  ctx,         \* the request's context: "live" or "canceled"
  sink,        \* the decision sink: "open", or "closed" by a shutdown's flush
  target,      \* the target being tried
  open,        \* targets whose response body is open
  feed,        \* events read from the current target
  sent,        \* what the client was sent: [from |-> target, event |-> event]
  errorFrames, \* error events appended to the client's stream
  statusLines, \* status lines written, "200" or "error"
  attempts,    \* outcome.Attempts: the failure of each, NoFailure for success
  usage,       \* outcome.Usage: position in feed of its report, 0 for none
  ttft,        \* outcome.TTFTMs was taken
  status,      \* outcome.Status
  recorded,    \* decisions the sink accepted or dropped
  charges      \* what each Reconcile charged

factVars == <<stream, wantsUsage>>
envVars == <<client, ctx, sink>>
outcomeVars == <<attempts, usage, ttft, status>>
clientVars == <<sent, errorFrames, statusLines>>
endVars == <<recorded, charges>>
vars == <<factVars, envVars, outcomeVars, clientVars, endVars, pc, target, open, feed>>

(***************************************************************************)
(* Events and errors.                                                      *)
(***************************************************************************)

\* A chunk of content, one that reports usage too, the chunk with usage and no
\* choices, and the [DONE] sentinel.  A response that is not streamed is one
\* terminal event, with or without usage.  A report may total zero ("Zero").
StreamEvents == {"content", "contentUsage", "contentZero", "usageOnly", "usageOnlyZero", "done"}
BodyEvents == {"body", "bodyUsage", "bodyZero"}
Events == IF stream THEN StreamEvents ELSE BodyEvents

\* A report of zeros is a report (chunk.usage), and TokenUsage.Total of it is 0.
ZeroTotal(ev) == ev \in {"contentZero", "usageOnlyZero", "bodyZero"}
HasUsage(ev) == ev \in {"contentUsage", "usageOnly", "bodyUsage"} \/ ZeroTotal(ev)
Terminal(ev) == ev \in BodyEvents \cup {"done"}

\* What the dispatcher keeps from the client: the chunk its own stream_options
\* caused to exist.
Hidden(ev) == ev \in {"usageOnly", "usageOnlyZero"} /\ ~wantsUsage

\* errors.Is finds the context's error under whatever wraps it: cause.
Err(kind, retryable, cause) ==
  [kind |-> kind, retryable |-> retryable, cause |-> cause]

\* classify: what each upstream status becomes.
Classify(code) ==
  CASE code \in {401, 403} -> Err("auth", FALSE, "none")
    [] code \in {400, 422} -> Err("bad request", FALSE, "none")
    [] code \in {404, 413} -> Err("bad request", TRUE, "none")
    [] code \in {408, 504} -> Err("timeout", TRUE, "none")
    [] code = 429          -> Err("rate limit", TRUE, "none")
    [] code >= 500 /\ code # 504 -> Err("upstream", TRUE, "none")
    [] OTHER               -> Err("unknown", TRUE, "none")

Codes == {400, 401, 404, 408, 418, 429, 500}

\* The transport's own timeout awaiting headers is a context.DeadlineExceeded
\* to errors.Is.
HeaderTimeout == Err("connect", TRUE, "deadline")

Canceled(kind) == IF ctx = "canceled" THEN {Err(kind, TRUE, "canceled")} ELSE {}

\* Provider.Stream fails: the body cannot be built, the connection fails, the
\* upstream refuses, or the body of an unstreamed response breaks off.
StreamErrors ==
  {Err("bad request", FALSE, "none"), Err("connect", TRUE, "none"), HeaderTimeout}
  \cup Canceled("connect")
  \cup {Classify(code) : code \in Codes}
  \cup (IF stream THEN {} ELSE {Err("upstream", TRUE, "none")} \cup Canceled("upstream"))

\* StreamReader.Next fails: a clean end, or a stream that breaks.
EndOfStream == Err("eof", TRUE, "none")
ReadErrors == IF stream
              THEN {EndOfStream, Err("unknown", TRUE, "none")} \cup Canceled("unknown")
              ELSE {}

NoFailure == [kind |-> "none", retryable |-> FALSE]

\* Mutation: a client that went away is a failure like any other.
RetryableAlways(e) == e.retryable

\* retryable: a done context ends the ladder, whatever the provider said.
Retryable(e) == e.cause = "none" /\ e.retryable

\* failedAttempt: how a failure is recorded.
FailureKind(e) ==
  IF e.cause = "canceled" THEN "client_disconnect"
  ELSE IF e.cause = "deadline" THEN "timeout"
  ELSE IF e.kind = "eof" THEN "unknown" ELSE e.kind

Failure(e) ==
  [kind |-> FailureKind(e), retryable |-> e.retryable /\ e.cause = "none"]

\* Outcome.ChosenTarget, 0 for none.
ChosenTarget ==
  IF attempts # <<>> /\ Last(attempts) = NoFailure THEN Len(attempts) ELSE 0

-----------------------------------------------------------------------------

Pcs == {"admit", "dial", "first", "commit", "relay", "read", "answer", "record",
        "reconcile", "done"}
OutcomeStatuses == {"", "ok", "exhausted", "truncated", "client_disconnect",
                    "policy_blocked"}
Charges == {"nothing", "reserved", "reported"}
FailureKinds == {"auth", "bad request", "timeout", "rate limit", "upstream", "unknown",
                 "connect", "client_disconnect"}
Attempts == [kind : FailureKinds \cup {"none"}, retryable : BOOLEAN]

TypeOK ==
  /\ stream \in BOOLEAN /\ wantsUsage \in BOOLEAN
  /\ pc \in Pcs
  /\ client \in {"there", "gone"}
  /\ ctx \in {"live", "canceled"}
  /\ sink \in {"open", "closed"}
  /\ target \in 1..(N + 1)
  /\ open \in SUBSET (1..N)
  /\ feed \in Seq(StreamEvents \cup BodyEvents) /\ Len(feed) <= MaxEvents
  /\ sent \in Seq([from : 1..N, event : StreamEvents \cup BodyEvents])
  /\ errorFrames \in Nat
  /\ statusLines \in Seq({"200", "error"})
  /\ attempts \in Seq(Attempts) /\ Len(attempts) <= N
  /\ usage \in 0..MaxEvents
  /\ ttft \in BOOLEAN
  /\ status \in OutcomeStatuses
  /\ recorded \in 0..1
  /\ charges \in Seq(Charges)

Init ==
  /\ stream \in BOOLEAN
  /\ wantsUsage \in BOOLEAN
  /\ pc = "admit"
  /\ client = "there" /\ ctx = "live" /\ sink = "open"
  /\ target = 1
  /\ open = {}
  /\ feed = <<>>
  /\ sent = <<>> /\ errorFrames = 0 /\ statusLines = <<>>
  /\ attempts = <<>> /\ usage = 0 /\ ttft = FALSE /\ status = ""
  /\ recorded = 0
  /\ charges = <<>>

(***************************************************************************)
(* The world around the request.                                           *)
(***************************************************************************)

ClientLeaves ==
  /\ client = "there" /\ pc # "done"
  /\ client' = "gone"
  /\ UNCHANGED <<factVars, outcomeVars, clientVars, endVars, ctx, sink, pc, target, open, feed>>

\* net/http notices that the client left, or a shutdown's drain expired.
ContextCanceled ==
  /\ ctx = "live" /\ pc # "done"
  /\ ctx' = "canceled"
  /\ UNCHANGED <<factVars, outcomeVars, clientVars, endVars, client, sink, pc, target, open, feed>>

\* A shutdown flushes the sink right after it cut the streams still open.
SinkFlushed ==
  /\ sink = "open" /\ ctx = "canceled" /\ pc # "done"
  /\ sink' = "closed"
  /\ UNCHANGED <<factVars, outcomeVars, clientVars, endVars, client, ctx, pc, target, open, feed>>

(***************************************************************************)
(* The handler, up to the reservation.                                     *)
(***************************************************************************)

\* Body, facts, model, route or ladder refused, or the quota check unavailable
\* with fail_closed: an error response and nothing else.
Refuse ==
  /\ pc = "admit"
  /\ statusLines' = Append(statusLines, "error")
  /\ pc' = "done"
  /\ UNCHANGED <<factVars, envVars, outcomeVars, endVars, sent, errorFrames, target, open, feed>>

\* Over quota: answered, and then recorded as policy_blocked.
RefuseOverQuota ==
  /\ pc = "admit"
  /\ statusLines' = Append(statusLines, "error")
  /\ status' = "policy_blocked"
  /\ pc' = "record"
  /\ UNCHANGED <<factVars, envVars, endVars, attempts, usage, ttft, sent, errorFrames, target, open, feed>>

\* The reservation is made, or there is nothing to reserve: Run is entered.
Admit ==
  /\ pc = "admit"
  /\ pc' = "dial"
  /\ UNCHANGED <<factVars, envVars, outcomeVars, clientVars, endVars, target, open, feed>>

(***************************************************************************)
(* Run and tryTarget: one attempt after another, until one is committed.   *)
(***************************************************************************)

\* The attempt failed before anything was sent.
NextTarget(e) ==
  /\ attempts' = Append(attempts, Failure(e))
  /\ target' = target + 1
  /\ \/ /\ Retryable(e) /\ target < N
        /\ pc' = "dial"
        /\ UNCHANGED status
     \/ /\ ~(Retryable(e) /\ target < N)
        /\ pc' = "answer"
        /\ status' = "exhausted"

StreamFails(e) ==
  /\ pc = "dial"
  /\ e \in StreamErrors
  /\ NextTarget(e)
  /\ UNCHANGED <<factVars, envVars, clientVars, endVars, usage, ttft, open, feed>>

StreamOpens ==
  /\ pc = "dial"
  /\ open' = open \cup {target}
  /\ feed' = <<>>
  /\ pc' = "first"
  /\ UNCHANGED <<factVars, envVars, outcomeVars, clientVars, endVars, target>>

\* Mutation: the body of a failed attempt is left open.
CloseNothing == UNCHANGED open

\* The deferred reader.Close.
CloseReader == open' = open \ {target}

\* Mutation: the first-token time is taken before the read is checked.
FirstFailsTimed(e) ==
  /\ pc = "first"
  /\ e \in ReadErrors
  /\ ttft' = TRUE
  /\ CloseReader
  /\ NextTarget(e)
  /\ UNCHANGED <<factVars, envVars, clientVars, endVars, usage, feed>>

FirstFails(e) ==
  /\ pc = "first"
  /\ e \in ReadErrors
  /\ CloseReader
  /\ NextTarget(e)
  /\ UNCHANGED <<factVars, envVars, clientVars, endVars, usage, ttft, feed>>

FirstEvent(ev) ==
  /\ pc = "first"
  /\ ev \in Events
  /\ feed' = <<ev>>
  /\ ttft' = TRUE
  /\ attempts' = Append(attempts, NoFailure)
  /\ pc' = "commit"
  /\ UNCHANGED <<factVars, envVars, clientVars, endVars, usage, status, target, open>>

\* tryTarget is over: the reader is closed, and Run returns.
EndRun(s) ==
  /\ status' = s
  /\ CloseReader
  /\ pc' = "answer"

\* Commit writes the status line before it can fail.
CommitOK ==
  /\ pc = "commit"
  /\ statusLines' = Append(statusLines, "200")
  /\ pc' = "relay"
  /\ UNCHANGED <<factVars, envVars, outcomeVars, endVars, sent, errorFrames, target, open, feed>>

CommitFails ==
  /\ pc = "commit"
  /\ client = "gone"
  /\ statusLines' = Append(statusLines, "200")
  /\ EndRun("client_disconnect")
  /\ UNCHANGED <<factVars, envVars, endVars, attempts, usage, ttft, sent, errorFrames, target, feed>>

(***************************************************************************)
(* relay.                                                                  *)
(***************************************************************************)

\* Mutation: usage is read off the events the client sees.
MeterVisible(ev) ==
  usage' = IF HasUsage(ev) /\ ~Hidden(ev) THEN Len(feed) ELSE usage

\* An event's usage replaces what an earlier one reported.
Meter(ev) == usage' = IF HasUsage(ev) THEN Len(feed) ELSE usage

Forward(ev) ==
  sent' = IF Hidden(ev) THEN sent ELSE Append(sent, [from |-> target, event |-> ev])

RelayEvent ==
  /\ pc = "relay"
  /\ Meter(Last(feed))
  /\ Forward(Last(feed))
  /\ \/ Terminal(Last(feed)) /\ EndRun("ok")
     \/ ~Terminal(Last(feed)) /\ pc' = "read" /\ UNCHANGED <<status, open>>
  /\ UNCHANGED <<factVars, envVars, endVars, attempts, ttft, errorFrames, statusLines, target, feed>>

SendFails ==
  /\ pc = "relay"
  /\ client = "gone"
  /\ ~Hidden(Last(feed))
  /\ Meter(Last(feed))
  /\ EndRun("client_disconnect")
  /\ UNCHANGED <<factVars, envVars, clientVars, endVars, attempts, ttft, target, feed>>

ReadEvent(ev) ==
  /\ pc = "read"
  /\ Len(feed) < MaxEvents
  /\ ev \in Events
  /\ feed' = Append(feed, ev)
  /\ pc' = "relay"
  /\ UNCHANGED <<factVars, envVars, outcomeVars, clientVars, endVars, target, open>>

\* Mutation: a stream that breaks is resumed on the next target.
ReadFailsOver(e) ==
  /\ pc = "read"
  /\ e \in ReadErrors
  /\ CloseReader
  /\ \/ e = EndOfStream /\ status' = "ok" /\ pc' = "answer" /\ UNCHANGED target
     \/ e # EndOfStream /\ target < N /\ target' = target + 1 /\ pc' = "dial"
                        /\ UNCHANGED status
     \/ e # EndOfStream /\ target = N /\ status' = "truncated" /\ pc' = "answer"
                        /\ UNCHANGED target
  /\ UNCHANGED <<factVars, envVars, clientVars, endVars, attempts, usage, ttft, feed>>

\* Mutation: a canceled read goes round the loop again.
ReadIgnoresCancel(e) ==
  /\ pc = "read"
  /\ e \in ReadErrors
  /\ \/ e = EndOfStream /\ EndRun("ok")
     \/ e.cause = "none" /\ e # EndOfStream /\ EndRun("truncated")
     \/ e.cause # "none" /\ UNCHANGED <<status, open, pc>>
  /\ UNCHANGED <<factVars, envVars, clientVars, endVars, attempts, usage, ttft, target, feed>>

\* The stream ends: cleanly, with its context, or by breaking off, and then the
\* client is told with an error event.
ReadFails(e) ==
  /\ pc = "read"
  /\ e \in ReadErrors
  /\ \/ e = EndOfStream /\ EndRun("ok") /\ UNCHANGED errorFrames
     \/ e.cause # "none" /\ EndRun("client_disconnect") /\ UNCHANGED errorFrames
     \/ /\ e # EndOfStream /\ e.cause = "none"
        /\ EndRun("truncated")
        /\ errorFrames' = errorFrames + 1
  /\ UNCHANGED <<factVars, envVars, endVars, attempts, usage, ttft, sent, statusLines, target, feed>>

(***************************************************************************)
(* The handler, after Run.                                                 *)
(***************************************************************************)

Answer ==
  /\ pc = "answer"
  /\ statusLines' = IF status = "exhausted" THEN Append(statusLines, "error")
                    ELSE statusLines
  /\ pc' = "record"
  /\ UNCHANGED <<factVars, envVars, outcomeVars, endVars, sent, errorFrames, target, open, feed>>

\* A refused request made no reservation that a deferred call would reconcile.
AfterRecord == pc' = IF status = "policy_blocked" THEN "done" ELSE "reconcile"

Record ==
  /\ pc = "record"
  /\ recorded' = recorded + 1
  /\ AfterRecord
  /\ UNCHANGED <<factVars, envVars, outcomeVars, clientVars, charges, target, open, feed>>

\* A send on the sink's closed channel panics (module Sink); net/http recovers
\* it after the handler's deferred calls ran.
RecordPanics ==
  /\ pc = "record"
  /\ sink = "closed"
  /\ AfterRecord
  /\ UNCHANGED <<factVars, envVars, outcomeVars, clientVars, endVars, target, open, feed>>

\* actualUsage: what the quota enforcer takes the request to have used.  Usage that
\* totals zero, reported or not, is no usage to charge by.
ActualUsage ==
  IF status = "exhausted" \/ ChosenTarget = 0 THEN "nothing"
  ELSE IF usage = 0 \/ ZeroTotal(feed[usage]) THEN "reserved" ELSE "reported"

Reconcile ==
  /\ pc = "reconcile"
  /\ charges' = Append(charges, ActualUsage)
  /\ pc' = "done"
  /\ UNCHANGED <<factVars, envVars, outcomeVars, clientVars, recorded, target, open, feed>>

-----------------------------------------------------------------------------

Upstream ==
  \/ StreamOpens
  \/ \E ev \in StreamEvents \cup BodyEvents : FirstEvent(ev) \/ ReadEvent(ev)
  \/ \E e \in StreamErrors : StreamFails(e)
  \/ \E e \in ReadErrors : FirstFails(e) \/ ReadFails(e)

Handler ==
  \/ Refuse \/ RefuseOverQuota \/ Admit
  \/ CommitOK \/ CommitFails \/ RelayEvent \/ SendFails
  \/ Answer \/ Record \/ RecordPanics \/ Reconcile

World == ClientLeaves \/ ContextCanceled \/ SinkFlushed

\* The request is over.
Over == pc = "done" /\ UNCHANGED vars

Next == Handler \/ Upstream \/ World \/ Over

Spec == Init /\ [][Next]_vars

\* An unstreamed response was read whole, and its one event is at hand.
BodyAtHand == \E ev \in BodyEvents : FirstEvent(ev)

\* A call or read that ends because the request's context did.
CutShort ==
  \E e \in Canceled("connect") \cup Canceled("upstream") \cup Canceled("unknown") :
    StreamFails(e) \/ FirstFails(e) \/ ReadFails(e)

\* The handler runs on.  An upstream may stay silent for ever, but not past the
\* end of the request's context, with which net/http ends every call and every
\* read that finds no more buffered data.
Fairness == WF_vars(Handler) /\ WF_vars(BodyAtHand) /\ SF_vars(CutShort)
FairSpec == Spec /\ Fairness

(***************************************************************************)
(* Properties.                                                             *)
(***************************************************************************)

Visible(ev) == ~Hidden(ev)
Relayed == IF pc \in {"commit", "relay"} THEN Front(feed) ELSE feed
SentEvents == [i \in DOMAIN sent |-> sent[i].event]

\* s is t less its hidden events, in order: k maps the positions of s, increasing,
\* onto those of t's visible events.
IsVisiblePart(s, t) ==
  \E k \in [DOMAIN s -> DOMAIN t] :
    /\ \A i, j \in DOMAIN s : i < j => k[i] < k[j]
    /\ \A i \in DOMAIN s : s[i] = t[k[i]]
    /\ \A j \in DOMAIN t : Visible(t[j]) <=> \E i \in DOMAIN s : k[i] = j

\* Exactly one status line reaches the client, and an exhausted ladder, which
\* writes its own, has sent nothing before it.
OneStatusLine ==
  /\ Len(statusLines) <= 1
  /\ pc = "done" => Len(statusLines) = 1
  /\ status = "exhausted" => sent = <<>> /\ "200" \notin Range(statusLines)

\* The client's response is one target's stream under one status line: what it was
\* sent is, in order and without gaps, what the chosen target sent, less the usage
\* chunk it did not ask for; it lacks at most the event whose delivery failed.  Run
\* relays only after its first event and never fails over after Commit.
OneTargetSeen ==
  /\ OneStatusLine
  /\ \A i \in DOMAIN sent : sent[i].from = ChosenTarget
  /\ ChosenTarget # 0 =>
       \/ IsVisiblePart(SentEvents, Relayed)
       \/ /\ status = "client_disconnect"
          /\ IsVisiblePart(SentEvents, Front(feed))

\* Validate of dispatch.go and of outcome.go accept every outcome Run returns, and
\* the target Outcome names is the one that answered.
OutcomeValid ==
  pc \in {"answer", "record", "reconcile"} =>
    /\ status # ""
    /\ status = "exhausted" => ~ttft /\ ChosenTarget = 0
    /\ status # "exhausted" /\ attempts # <<>> => ChosenTarget = target

\* The recorded attempts explain the ladder's course: every attempt but the last
\* failed in a way recorded as retryable, and a ladder that stopped early stopped
\* at one recorded as final, which the loss of the client always is: it never costs
\* a further attempt.  (retryable decides, failedAttempt records.)
LadderExplained ==
  /\ \A i \in 1..(Len(attempts) - 1) : attempts[i].retryable
  /\ status = "exhausted" /\ Len(attempts) < N => ~Last(attempts).retryable

\* At most one upstream response is open, and none once the request is over.
NoLeakedBody == Cardinality(open) <= 1 /\ (pc \in {"answer", "done"} => open = {})

\* The last usage report among the events read, hidden or not, is not all zeros.
LastReportCounts ==
  \E i \in DOMAIN feed : /\ HasUsage(feed[i]) /\ ~ZeroTotal(feed[i])
                         /\ \A j \in (i + 1)..Len(feed) : ~HasUsage(feed[j])

\* An admitted request is settled exactly once, even when the sink panics.  It is
\* free when no target answered and only then.  A charge by report is by the last
\* report the upstream sent, hidden or not, and that one is not all zeros; when the
\* stream ran to an end, such a report is what is charged, and the reservation is
\* charged otherwise: when there was no report, or the last one totals zero.
SettledFairly ==
  pc = "done" /\ status \notin {"", "policy_blocked"} =>
    /\ Len(charges) = 1
    /\ (Head(charges) = "nothing") = (ChosenTarget = 0)
    /\ Head(charges) = "reported" => LastReportCounts
    /\ status \in {"ok", "truncated"} /\ LastReportCounts => Head(charges) = "reported"

\* Once its context ends, a request ends.
CancelEnds == ctx = "canceled" ~> pc = "done"

\* "Bounds time-to-headers ... exactly the pre-commit window the dispatcher can
\* still fail over from": an upstream that sends no headers in time is followed by
\* the next target, if the client is still waiting and there is one.
HeaderTimeoutFailsOver ==
  \A i \in 1..(N - 1) :
    pc = "done" /\ ctx = "live" /\ i \in DOMAIN attempts /\ attempts[i] = Failure(HeaderTimeout)
      => Len(attempts) > i

(***************************************************************************)
(* What every step keeps, from which the properties above are proved.      *)
(***************************************************************************)

\* Refused before Run, not yet answered by any target, answered by one.
Unadmitted == pc = "admit" \/ status = "policy_blocked" \/ (pc = "done" /\ status = "")
Trying == pc \in {"dial", "first"}
Exhausted == status = "exhausted"
Answered == pc \in {"commit", "relay", "read"}
            \/ status \in {"ok", "truncated", "client_disconnect"}

\* The outcome's status is set when Run returns, and by a refusal.
StageInv ==
  /\ status # "" => pc \in {"answer", "record", "reconcile", "done"}
  /\ pc \in {"answer", "record", "reconcile"} => status # ""
  /\ status = "policy_blocked" => pc \in {"record", "done"}
  /\ pc \notin {"reconcile", "done"} => recorded = 0

\* The body open is the one of the target being read.
BodyInv == open = IF pc \in {"first", "commit", "relay", "read"} THEN {target} ELSE {}

\* The attempts are the targets up to the one in hand, and all but the last failed
\* in a way that lets the ladder go on.
LadderInv ==
  /\ Unadmitted => attempts = <<>>
  /\ pc = "admit" => target = 1
  /\ Trying => /\ target <= N /\ target = Len(attempts) + 1
               /\ \A i \in DOMAIN attempts : attempts[i].retryable
  /\ Exhausted => /\ attempts # <<>> /\ target = Len(attempts) + 1
                  /\ Last(attempts) # NoFailure
                  /\ Len(attempts) < N => ~Last(attempts).retryable
  /\ Answered => attempts # <<>> /\ Len(attempts) = target /\ Last(attempts) = NoFailure
  /\ Exhausted \/ Answered => \A i \in 1..(Len(attempts) - 1) : attempts[i].retryable

\* Nothing reaches the client before a target answered.
ReplyInv ==
  /\ ~Answered => sent = <<>> /\ feed = <<>> /\ usage = 0 /\ ~ttft
  /\ Answered => feed # <<>> /\ \A i \in DOMAIN sent : sent[i].from = target
  /\ statusLines =
       IF pc \in {"admit", "dial", "first", "commit"} \/ (Exhausted /\ pc = "answer") THEN <<>>
       ELSE IF Answered THEN <<"200">> ELSE <<"error">>

\* The events relayed so far, all of them or all but one that was not delivered.
RelayInv ==
  Answered =>
    \/ IsVisiblePart(SentEvents, Relayed)
    \/ /\ status = "client_disconnect"
       /\ IsVisiblePart(SentEvents, Front(feed))

\* usage is the last report among the events relayed; a Commit that failed relayed
\* none.
MeterInv ==
  /\ usage <= Len(feed) /\ (pc = "commit" => usage = 0)
  /\ usage # 0 => HasUsage(feed[usage])
  /\ pc \in {"commit", "relay"} => \A i \in (usage + 1)..(Len(feed) - 1) : ~HasUsage(feed[i])
  /\ pc \notin {"commit", "relay"} /\ (usage # 0 \/ status # "client_disconnect") =>
       \A i \in (usage + 1)..Len(feed) : ~HasUsage(feed[i])

\* A request that was admitted is settled in its last step.
ChargeInv ==
  charges = IF pc = "done" /\ ~Unadmitted THEN <<ActualUsage>> ELSE <<>>

DispatchInv ==
  /\ TypeOK /\ StageInv /\ BodyInv /\ LadderInv /\ ReplyInv /\ RelayInv
  /\ MeterInv /\ ChargeInv
=============================================================================
