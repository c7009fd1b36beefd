------------------------- MODULE HostedRuntimeProofs -------------------------
(***************************************************************************)
(* The hosted runtime implements the control plane: whatever the server     *)
(* does with rate limits, bodies, tokens, payouts and metering, and however *)
(* often clients send a command again, the control plane takes one of its   *)
(* own steps or none.  What is proved of the control plane therefore holds  *)
(* behind the server, for any workload.  Of the server's own services: the   *)
(* limiter lets through at most twice its limit, a withdrawal has one        *)
(* result, every attempt is on the trail and every call served is metered    *)
(* once.                                                                    *)
(***************************************************************************)
EXTENDS HostedRuntime, ControlPlaneProofs, FiniteSetTheorems, FunctionTheorems

Fields == {"apiKey", "command", "body", "at", "phase", "answer"}

\* Every command that waits to be served is one its route accepts.
InboundInv ==
  /\ workload \in Workloads /\ now \in Nat
  /\ \E S : inbound \in Seq(S)
  /\ \A i \in DOMAIN inbound :
       DOMAIN inbound[i] = Fields /\ Validated(inbound[i].command)

-----------------------------------------------------------------------------
(* Nothing waits when the server starts.                                     *)
LEMMA InboundInit == Init => InboundInv
<1>. SUFFICES ASSUME Init PROVE InboundInv
  OBVIOUS
<1>1. inbound \in Seq({}) /\ DOMAIN inbound = {}
  BY DEF Init
<1>. QED
  BY <1>1 DEF Init, InboundInv

(* Serving a request changes its phase and answer, never its command.        *)
LEMMA CloseKeepsCommands ==
  ASSUME InboundInv, NEW i, NEW phase, NEW answer, Close(i, phase, answer),
         UNCHANGED <<workload, now>>
  PROVE  InboundInv'
<1>1. DOMAIN inbound' = DOMAIN inbound
  BY DEF Close
<1>2. \E S : inbound' \in Seq(S)
  <2>1. PICK S : inbound \in Seq(S)
    BY DEF InboundInv
  <2>2. PICK r : inbound' = [inbound EXCEPT ![i] = r]
    BY DEF Close
  <2>3. inbound \in Seq(S \cup {r})
    BY <2>1
  <2>4. CASE i \in DOMAIN inbound
    BY <2>2, <2>3, <2>4
  <2>5. CASE i \notin DOMAIN inbound
    <3>1. inbound' = inbound
      BY <2>1, <2>2, <2>5
    <3>. QED
      BY <2>1, <3>1
  <2>. QED
    BY <2>4, <2>5
<1>3. ASSUME NEW j \in DOMAIN inbound
      PROVE  /\ DOMAIN inbound'[j] = DOMAIN inbound[j]
             /\ inbound'[j].command = inbound[j].command
  BY DEF InboundInv, Close, Fields
<1>. QED
  BY <1>1, <1>2, <1>3 DEF InboundInv

(* A request that arrives is appended with the command the client sent.      *)
LEMMA ArriveKeepsCommands ==
  ASSUME InboundInv, NEW call \in workload.calls, Arrive(call)
  PROVE  InboundInv'
<1> DEFINE r == [apiKey |-> call.apiKey, command |-> call.command, body |-> call.body,
                 at |-> now,
                 phase |-> IF WithinLimit(call.apiKey) THEN "reading" ELSE "limited",
                 answer |-> Absent]
<1>1. inbound' = Append(inbound, r) /\ UNCHANGED <<workload, now>>
  BY DEF Arrive
<1>2. DOMAIN r = Fields /\ Validated(r.command)
  BY HostedAssumption DEF InboundInv, Fields
<1>. HIDE DEF r
<1>3. PICK S : inbound \in Seq(S)
  BY DEF InboundInv
<1>4. inbound' \in Seq(S \cup {r})
  BY <1>1, <1>3
<1>5. \A j \in DOMAIN inbound' : inbound'[j] = r \/ (j \in DOMAIN inbound /\ inbound'[j] = inbound[j])
  BY <1>1, <1>3
<1>. QED
  BY <1>1, <1>2, <1>4, <1>5 DEF InboundInv

(* Whatever route serves a request, it closes that request.                  *)
LEMMA ProceedCloses ==
  ASSUME NEW i, Proceed(i)
  PROVE  /\ \E phase, answer : Close(i, phase, answer)
         /\ UNCHANGED <<workload, now>>
<1>1. CASE RefuseBody(i) \/ RefuseCapability(i)
  BY <1>1 DEF RefuseBody, RefuseCapability
<1>2. CASE ServeAccessRequest(i)
  BY <1>2 DEF ServeAccessRequest, Succeed
<1>3. CASE ServeDecision(i) \/ ServeRevocation(i)
  BY <1>3 DEF ServeDecision, ServeRevocation, Succeed, Fail
<1>4. CASE ServeRegistration(i) \/ ServeConsent(i) \/ ServeVerification(i)
  BY <1>4 DEF ServeRegistration, ServeConsent, ServeVerification, Succeed, Fail
<1>5. CASE ServeDataAccess(i) \/ ServePayoutCallback(i)
  BY <1>5 DEF ServeDataAccess, ServePayoutCallback, Succeed
<1>6. CASE ServePayout(i)
  BY <1>6 DEF ServePayout, ReplayPayout, DecidePayout, BreakPayout, Succeed, Fail
<1>. QED
  BY <1>1, <1>2, <1>3, <1>4, <1>5, <1>6 DEF Proceed, Serve

(* Every step leaves in flight only commands their routes accept.            *)
LEMMA InboundStep == InboundInv /\ [Next]_vars => InboundInv'
<1>. SUFFICES ASSUME InboundInv, [Next]_vars PROVE InboundInv'
  OBVIOUS
<1>1. ASSUME NEW call \in workload.calls, Arrive(call) PROVE InboundInv'
  BY <1>1, ArriveKeepsCommands
<1>2. ASSUME NEW i, Proceed(i) PROVE InboundInv'
  BY <1>2, ProceedCloses, CloseKeepsCommands
<1>3. CASE Meter
  BY <1>3 DEF Meter, InboundInv
<1>4. CASE Tick
  BY <1>4 DEF Tick, InboundInv
<1>5. CASE UNCHANGED vars
  BY <1>5 DEF vars, hostVars, InboundInv
<1>. QED
  BY <1>1, <1>2, <1>3, <1>4, <1>5 DEF Next

-----------------------------------------------------------------------------
(* Three routes are steps of the control plane; no other touches it.         *)
LEMMA RoutesImplement == InboundInv /\ [Next]_vars => [CPNext]_cpVars
<1>. SUFFICES ASSUME InboundInv, [Next]_vars PROVE [CPNext]_cpVars
  OBVIOUS
<1>1. ASSUME NEW i \in DOMAIN inbound, ServeAccessRequest(i) PROVE CPNext
  BY <1>1 DEF ServeAccessRequest, Is, InboundInv, Validated, CPNext
<1>2. ASSUME NEW i \in DOMAIN inbound, ServeDecision(i) PROVE CPNext
  <2> DEFINE c == inbound[i].command
  <2>1. c.request \in Nat /\ c.subject \in Optional(Subjects) /\ c.decision \in {"approve", "deny"}
    BY <1>2 DEF ServeDecision, Is, InboundInv, Validated, Optional
  <2>2. DecideAccessRequest(c.request, c.subject, c.decision) \/ RefuseDecision(c.request, c.subject)
    BY <1>2 DEF ServeDecision
  <2>. QED
    BY <2>1, <2>2 DEF CPNext
<1>3. ASSUME NEW i \in DOMAIN inbound, ServeRevocation(i) PROVE CPNext
  <2> DEFINE c == inbound[i].command.revoke
  <2>1. c \in RevokeCommand /\ now \in Nat
    BY <1>3 DEF ServeRevocation, Is, InboundInv, Validated
  <2>2. RevokeGrant(c, now)
    BY <1>3 DEF ServeRevocation, RevokeGrant
  <2>. QED
    BY <2>1, <2>2 DEF CPNext
<1>4. ASSUME NEW i \in DOMAIN inbound, Proceed(i) PROVE CPNext \/ UNCHANGED cpVars
  <2>1. CASE RefuseBody(i) \/ RefuseCapability(i)
    BY <2>1 DEF RefuseBody, RefuseCapability
  <2>2. CASE ServeRegistration(i) \/ ServeConsent(i) \/ ServeVerification(i)
    BY <2>2 DEF ServeRegistration, ServeConsent, ServeVerification
  <2>3. CASE ServeDataAccess(i) \/ ServePayout(i) \/ ServePayoutCallback(i)
    BY <2>3 DEF ServeDataAccess, ServePayout, ServePayoutCallback
  <2>. QED
    BY <1>1, <1>2, <1>3, <1>4, <2>1, <2>2, <2>3 DEF Proceed, Serve
<1>5. ASSUME NEW call, Arrive(call) PROVE UNCHANGED cpVars
  BY <1>5 DEF Arrive
<1>6. CASE Meter \/ Tick
  BY <1>6 DEF Meter, Tick
<1>7. CASE UNCHANGED vars
  BY <1>7 DEF vars
<1>. QED
  BY <1>4, <1>5, <1>6, <1>7 DEF Next

(* The hosted runtime implements the control plane.                          *)
THEOREM ImplementsControlPlane == Spec => CPSpec
<1>1. Init => CPInit /\ InboundInv
  BY InboundInit DEF Init
<1>2. InboundInv /\ [Next]_vars => InboundInv' /\ [CPNext]_cpVars
  BY InboundStep, RoutesImplement
<1>. QED
  BY <1>1, <1>2, PTL DEF Spec, CPSpec

(* So, behind the server and for any workload: however a grant is revoked,   *)
(* all answers about it name one revocation, one record and one instant.     *)
THEOREM HostedRevocationsConverge == Spec => []RevocationsConverge
BY ImplementsControlPlane, RevocationConverges, PTL

(* What a revocation was answered stays true of the grant and its record.    *)
THEOREM HostedAnswersStayTrue == Spec => []AnsweredIsRevoked
BY ImplementsControlPlane, AnswersStayTrue, PTL

(* No two commands are ever answered under one idempotency key.              *)
THEOREM HostedKeysAreNotReused == Spec => []KeyNamesOneCommand
BY ImplementsControlPlane, KeysAreNotReused, PTL

(* A revoked grant never changes, whatever requests are served later.        *)
THEOREM HostedRevocationIsFinal == Spec => RevokedIsFinal
BY ImplementsControlPlane, RevocationIsFinal, PTL

-----------------------------------------------------------------------------
(* What is known of a request, and of what the trust service keeps.          *)

RequestInv ==
  /\ workload \in Workloads /\ now \in 0..workload.until
  /\ \A i \in DOMAIN inbound :
       /\ inbound[i].phase \in Phases /\ inbound[i].at \in 0..now
       /\ inbound[i].answer \in Optional(Reply)
       /\ inbound[i].phase = "answered" <=> inbound[i].answer # Absent
       /\ Named(inbound[i].command)

TrustInv ==
  /\ \E F : consents \in [ConsentIds -> F]
  /\ \A c \in ConsentIds : consents[c] # Absent => consents[c].consumer \in Consumers
  /\ \E S : credentials \in Seq(S)
  /\ \A n \in DOMAIN credentials : credentials[n].ref \in CredentialRefs

(* The limiter.  What a key got through lies in its window, in the window    *)
(* before, or before that: further back than any stretch that meets this one.*)

Through(k) == {i \in DOMAIN inbound : inbound[i].apiKey = k /\ inbound[i].phase # "limited"}

InWindow(k) == {i \in Through(k) : inbound[i].at + WindowLength >= windows[k].resetAt}
JustBefore(k) ==
  {i \in Through(k) : /\ inbound[i].at + WindowLength < windows[k].resetAt
                      /\ inbound[i].at + 2 * WindowLength > windows[k].resetAt}
Stretch(k, t) == {i \in Through(k) : inbound[i].at \in t..(t + WindowLength - 1)}

RateOf(k) ==
  /\ windows[k] = Absent => Through(k) = {}
  /\ windows[k] # Absent =>
       /\ windows[k] \in Window /\ windows[k].count \in 1..Limit[Tier[k]]
       /\ WindowLength <= windows[k].resetAt /\ windows[k].resetAt <= now + WindowLength
       /\ \A i \in Through(k) : inbound[i].at < windows[k].resetAt
       /\ Cardinality(InWindow(k)) <= windows[k].count
       /\ Cardinality(JustBefore(k)) <= Limit[Tier[k]]
  /\ \A t \in Nat : Cardinality(Stretch(k, t)) <= 2 * Limit[Tier[k]]

RateInv == (\E F : windows \in [ApiKeys -> F]) /\ \A k \in ApiKeys : RateOf(k)

(* The executor.  Until a withdrawal has its result nothing is said of it.   *)

Settled(w) ==
  \E n \in DOMAIN payoutAudit :
    Entries("RESULT", w) = {n} /\ payoutAudit[n].reason = idempotentResults[w].reason

PayoutInv ==
  /\ \E S : payoutAudit \in Seq(S)
  /\ idempotentResults \in [Withdrawals -> Optional(PayoutResult)]
  /\ \A w \in Withdrawals :
       IF idempotentResults[w] = Absent THEN Entries("RESULT", w) = {} ELSE Settled(w)
  /\ \A i \in DOMAIN inbound : \A w \in Withdrawals :
       (/\ inbound[i].answer # Absent
        /\ inbound[i].answer.payout # Absent
        /\ inbound[i].command.withdrawal = w) =>
          idempotentResults[w] # Absent /\ inbound[i].answer.payout = idempotentResults[w]

Broken(w) ==
  {i \in DOMAIN inbound :
     /\ inbound[i].command.endpoint = "/payout/execute"
     /\ inbound[i].command.withdrawal = w
     /\ inbound[i].answer = Failure}

AttemptInv ==
  \A w \in Withdrawals :
    Cardinality(Entries("REQUESTED", w)) =
      Cardinality(Entries("RESULT", w)) + Cardinality(Broken(w))

(* Metering.                                                                 *)

\* How the calls of one consumer at one endpoint, r of them recorded, b billed,
\* l reported lost and q queued, make up the n that were served.
Balanced(r, b, l, q, n, e) ==
  /\ r + q <= n /\ n <= r + q + l
  /\ b <= r
  /\ e \in Priced => b + q + l = n

Books(u, e) ==
  Balanced(CallsOf(usageRecords, u, e), CallsOf(billableEvents, u, e),
           CallsOf(meteringErrors, u, e), CallsOf(microtasks, u, e),
           ServedCalls(u, e), e)

Listed(S) ==
  /\ usageRecords \in Seq(S) /\ billableEvents \in Seq(S)
  /\ meteringErrors \in Seq(S) /\ microtasks \in Seq(S)

MeterInv ==
  /\ \E S : Listed(S)
  /\ \A u \in Consumers, e \in MeteredEndpoints : Books(u, e)

-----------------------------------------------------------------------------
(* What one step does to the requests and to the executor.                   *)

\* Request i got a phase and an answer; nothing else of the requests changed.
ClosedAs(i, phase, answer) ==
  /\ DOMAIN inbound' = DOMAIN inbound
  /\ \A j \in DOMAIN inbound \ {i} : inbound'[j] = inbound[j]
  /\ inbound'[i].apiKey = inbound[i].apiKey /\ inbound'[i].command = inbound[i].command
  /\ inbound'[i].at = inbound[i].at
  /\ inbound'[i].phase = phase /\ inbound'[i].answer = answer

(* Closing a request is just that.                                           *)
LEMMA ClosingIsAll ==
  ASSUME InboundInv, NEW i \in DOMAIN inbound, NEW phase, NEW answer, Close(i, phase, answer)
  PROVE  ClosedAs(i, phase, answer)
<1>1. DOMAIN inbound[i] = Fields
  BY DEF InboundInv
<1>. QED
  BY <1>1 DEF Close, ClosedAs, Fields

\* Request m arrived from a call, at now.
ArrivedAs(m, call) ==
  /\ m \notin DOMAIN inbound /\ DOMAIN inbound' = DOMAIN inbound \cup {m}
  /\ \A j \in DOMAIN inbound : inbound'[j] = inbound[j]
  /\ inbound'[m].apiKey = call.apiKey /\ inbound'[m].command = call.command
  /\ inbound'[m].at = now /\ inbound'[m].answer = Absent
  /\ inbound'[m].phase = IF WithinLimit(call.apiKey) THEN "reading" ELSE "limited"

(* Arriving appends one request.                                             *)
LEMMA ArrivingIsAll ==
  ASSUME InboundInv, NEW call, Arrive(call)
  PROVE  ArrivedAs(Len(inbound) + 1, call)
<1> DEFINE r == [apiKey |-> call.apiKey, command |-> call.command, body |-> call.body,
                 at |-> now,
                 phase |-> IF WithinLimit(call.apiKey) THEN "reading" ELSE "limited",
                 answer |-> Absent]
<1>1. inbound' = Append(inbound, r)
  BY DEF Arrive
<1>2. /\ r.apiKey = call.apiKey /\ r.command = call.command /\ r.at = now /\ r.answer = Absent
      /\ r.phase = IF WithinLimit(call.apiKey) THEN "reading" ELSE "limited"
  OBVIOUS
<1>. HIDE DEF r
<1>3. PICK S : inbound \in Seq(S)
  BY DEF InboundInv
<1>4. /\ Len(inbound) + 1 \notin DOMAIN inbound
      /\ DOMAIN inbound' = DOMAIN inbound \cup {Len(inbound) + 1}
      /\ \A j \in DOMAIN inbound : inbound'[j] = inbound[j]
      /\ inbound'[Len(inbound) + 1] = r
  BY <1>1, <1>3
<1>. QED
  BY <1>2, <1>4 DEF ArrivedAs

\* The routes, by what they do beyond their own service.
TurnedAway(i) ==
  /\ \E phase \in {"malformed", "forbidden"} : Close(i, phase, Absent)
  /\ UNCHANGED <<microtasks, payoutVars>>
Failed(i) ==
  inbound[i].command.endpoint # "/payout/execute" /\ Fail(i) /\ UNCHANGED payoutVars
Succeeded(i) ==
  /\ \E decision : Succeed(i, Success, decision)
  /\ UNCHANGED payoutVars
Reported(i) ==
  /\ \E decision : Succeed(i, Success, decision)
  /\ UNCHANGED idempotentResults
  /\ \E payout : payoutAudit' = Append(payoutAudit, CallbackEntry(payout))

(* Whatever the server does with a request, it is one of these or a payout.  *)
LEMMA ProceedIsOne ==
  ASSUME NEW i, Proceed(i)
  PROVE  /\ i \in Reading /\ UNCHANGED <<workload, now, windows, meterVars>>
         /\ TurnedAway(i) \/ Failed(i) \/ Succeeded(i) \/ Reported(i) \/ ServePayout(i)
<1>1. CASE RefuseBody(i) \/ RefuseCapability(i)
  BY <1>1 DEF RefuseBody, RefuseCapability, Ready, TurnedAway
<1>2. CASE ServeAccessRequest(i)
  BY <1>2 DEF ServeAccessRequest, Is, Ready, Succeeded
<1>3. CASE ServeDecision(i)
  BY <1>3 DEF ServeDecision, Is, Ready, Succeeded, Failed
<1>4. CASE ServeRevocation(i)
  BY <1>4 DEF ServeRevocation, Is, Ready, Succeeded, Failed
<1>5. CASE ServeRegistration(i) \/ ServeConsent(i)
  BY <1>5 DEF ServeRegistration, ServeConsent, Is, Ready, Succeeded, Failed
<1>6. CASE ServeVerification(i) \/ ServeDataAccess(i)
  BY <1>6 DEF ServeVerification, ServeDataAccess, Is, Ready, Succeeded
<1>7. CASE ServePayoutCallback(i)
  BY <1>7 DEF ServePayoutCallback, Is, Ready, Reported
<1>8. CASE ServePayout(i)
  BY <1>8 DEF ServePayout, Is, Ready
<1>. QED
  BY <1>1, <1>2, <1>3, <1>4, <1>5, <1>6, <1>7, <1>8 DEF Proceed, Serve

(* What the trust service says is one of four things.                        *)
LEMMA VerificationTyped ==
  ASSUME NEW query, NEW at
  PROVE  Verification(query, at) \in
           {"NOT_FOUND", "EXPIRED", "CONSENT_REQUIRED", "VERIFIED"}
BY DEF Verification

\* The three things a payout request comes to, for withdrawal w.
PayoutCase(i, w, v) == ReplayPayout(i, w) \/ DecidePayout(i, w, v) \/ BreakPayout(i, w, v)

(* A payout request is for a known withdrawal.                               *)
LEMMA PayoutIsOne ==
  ASSUME RequestInv, NEW i \in DOMAIN inbound, ServePayout(i)
  PROVE  \E w \in Withdrawals,
            v \in {"NOT_FOUND", "EXPIRED", "CONSENT_REQUIRED", "VERIFIED"} :
           /\ inbound[i].command.withdrawal = w
           /\ inbound[i].command.endpoint = "/payout/execute"
           /\ PayoutCase(i, w, v)
<1>1. /\ inbound[i].command.endpoint = "/payout/execute"
      /\ inbound[i].command.withdrawal \in Withdrawals
  BY DEF ServePayout, Is, RequestInv, Named
<1>. QED
  BY <1>1, VerificationTyped DEF ServePayout, PayoutCase

(* Nor is a decided one anything but a result.                               *)
LEMMA ResultTyped ==
  ASSUME NEW v \in {"NOT_FOUND", "EXPIRED", "CONSENT_REQUIRED", "VERIFIED"}
  PROVE  [allowed |-> v = "VERIFIED", reason |-> v] \in PayoutResult
BY DEF PayoutResult

(* A success and a failure are replies, and a reply is never a missing one.  *)
LEMMA RepliesTyped ==
  /\ Success \in Reply /\ Failure \in Reply /\ Absent \notin Reply
  /\ Success # Failure /\ Success # Absent /\ Failure # Absent
<1>1. Success \in Reply /\ Failure \in Reply /\ Success # Failure
  BY DEF Success, Failure, Reply, Optional
<1>. QED
  BY <1>1, HostedAssumption

(* Every route answers with a reply, or not at all.                          *)
LEMMA ProceedReplies ==
  ASSUME InboundInv, RequestInv, PayoutInv, NEW i \in DOMAIN inbound, Proceed(i)
  PROVE  \E phase \in Phases \ {"limited", "reading"}, answer \in Optional(Reply) :
           ClosedAs(i, phase, answer) /\ (phase = "answered" <=> answer # Absent)
<1>1. Success \in Reply /\ Failure \in Reply /\ Absent \notin Reply
  BY RepliesTyped
<1>2. ASSUME NEW answer \in Reply, Close(i, "answered", answer)
      PROVE  \E phase \in Phases \ {"limited", "reading"}, a \in Optional(Reply) :
               ClosedAs(i, phase, a) /\ (phase = "answered" <=> a # Absent)
  BY <1>1, <1>2, ClosingIsAll DEF Phases, Optional
<1>3. CASE TurnedAway(i)
  BY <1>3, ClosingIsAll DEF TurnedAway, Phases, Optional
<1>4. CASE Failed(i)
  BY <1>1, <1>2, <1>4 DEF Failed, Fail
<1>5. CASE Succeeded(i) \/ Reported(i)
  BY <1>1, <1>2, <1>5 DEF Succeeded, Reported, Succeed
<1>6. CASE ServePayout(i)
  <2>1. PICK w \in Withdrawals, v \in {"NOT_FOUND", "EXPIRED", "CONSENT_REQUIRED", "VERIFIED"} :
          PayoutCase(i, w, v)
    BY <1>6, PayoutIsOne
  <2>2. \A result \in PayoutResult : PayoutAnswer(result) \in Reply
    BY DEF PayoutAnswer, Reply, Optional
  <2>3. CASE ReplayPayout(i, w)
    <3>1. idempotentResults[w] \in PayoutResult
      BY <2>3 DEF ReplayPayout, PayoutInv, Optional
    <3>. QED
      BY <1>2, <2>2, <2>3, <3>1 DEF ReplayPayout, Succeed
  <2>4. CASE DecidePayout(i, w, v)
    BY <1>2, <2>2, <2>4, ResultTyped DEF DecidePayout, Succeed
  <2>5. CASE BreakPayout(i, w, v)
    BY <1>1, <1>2, <2>5 DEF BreakPayout, Fail
  <2>. QED
    BY <2>1, <2>3, <2>4, <2>5 DEF PayoutCase
<1>. QED
  BY <1>3, <1>4, <1>5, <1>6, ProceedIsOne

-----------------------------------------------------------------------------
(* Nothing is asked, counted or kept at first.                               *)
LEMMA HostedInit == Init => RequestInv /\ TrustInv /\ RateInv /\ PayoutInv /\ AttemptInv /\ MeterInv
<1>. SUFFICES ASSUME Init
              PROVE  RequestInv /\ TrustInv /\ RateInv /\ PayoutInv /\ AttemptInv /\ MeterInv
  OBVIOUS
<1>1. /\ DOMAIN inbound = {} /\ DOMAIN payoutAudit = {} /\ DOMAIN credentials = {}
      /\ DOMAIN usageRecords = {} /\ DOMAIN billableEvents = {}
      /\ DOMAIN meteringErrors = {} /\ DOMAIN microtasks = {}
  BY DEF Init
<1>2. \A w \in Withdrawals : \A event : Entries(event, w) = {} /\ Broken(w) = {}
  BY <1>1 DEF Entries, Broken
<1>3. \A k, t : Through(k) = {} /\ Stretch(k, t) = {}
  BY <1>1 DEF Through, Stretch
<1>4. RequestInv
  BY <1>1, HostedAssumption DEF Init, RequestInv
<1>5. TrustInv
  <2>1. credentials \in Seq({}) /\ consents \in [ConsentIds -> {Absent}]
    BY DEF Init
  <2>. QED
    BY <1>1, <2>1 DEF Init, TrustInv
<1>6. RateInv
  <2>1. windows \in [ApiKeys -> {Absent}]
    BY DEF Init
  <2>2. \A k \in ApiKeys : Limit[Tier[k]] \in Nat
    BY HostedAssumption
  <2>3. ASSUME NEW k \in ApiKeys PROVE RateOf(k)
    <3>1. windows[k] = Absent /\ Through(k) = {}
      BY <1>3, <2>1
    <3>2. \A t : Cardinality(Stretch(k, t)) = 0
      BY <1>3, FS_EmptySet
    <3>. QED
      BY <2>2, <3>1, <3>2 DEF RateOf
  <2>. QED
    BY <2>1, <2>3 DEF RateInv
<1>7. PayoutInv
  <2>1. payoutAudit \in Seq({}) /\ idempotentResults \in [Withdrawals -> {Absent}]
    BY DEF Init
  <2>. QED
    BY <1>1, <1>2, <2>1 DEF PayoutInv, Optional
<1>8. AttemptInv
  BY <1>2, FS_EmptySet DEF AttemptInv
<1>9. MeterInv
  <2>1. Listed({})
    BY DEF Init, Listed
  <2>2. \A u, e : /\ CallsOf(usageRecords, u, e) = Cardinality({})
                  /\ CallsOf(billableEvents, u, e) = Cardinality({})
                  /\ CallsOf(meteringErrors, u, e) = Cardinality({})
                  /\ CallsOf(microtasks, u, e) = Cardinality({})
                  /\ ServedCalls(u, e) = Cardinality({})
    BY <1>1 DEF CallsOf, ServedCalls
  <2>. QED
    BY <2>1, <2>2, FS_EmptySet DEF MeterInv, Books, Balanced
<1>. QED
  BY <1>4, <1>5, <1>6, <1>7, <1>8, <1>9

(* The requests keep their shape whatever is done with them.                 *)
LEMMA RequestStep ==
  InboundInv /\ RequestInv /\ PayoutInv /\ [Next]_vars => RequestInv'
<1>. SUFFICES ASSUME InboundInv, RequestInv, PayoutInv, [Next]_vars PROVE RequestInv'
  OBVIOUS
<1>. now \in Nat /\ workload \in Workloads /\ workload.until \in Nat
  BY HostedAssumption DEF RequestInv
<1>1. ASSUME NEW call \in workload.calls, Arrive(call) PROVE RequestInv'
  <2>1. ArrivedAs(Len(inbound) + 1, call) /\ UNCHANGED <<workload, now>>
    BY <1>1, ArrivingIsAll DEF Arrive
  <2>2. Named(call.command)
    BY HostedAssumption
  <2>. QED
    BY <2>1, <2>2 DEF ArrivedAs, RequestInv, Phases, Optional
<1>2. ASSUME NEW i \in DOMAIN inbound, Proceed(i) PROVE RequestInv'
  <2>1. UNCHANGED <<workload, now>>
    BY <1>2, ProceedIsOne
  <2>2. PICK phase \in Phases, answer \in Optional(Reply) :
          ClosedAs(i, phase, answer) /\ (phase = "answered" <=> answer # Absent)
    BY <1>2, ProceedReplies
  <2>. QED
    BY <2>1, <2>2 DEF ClosedAs, RequestInv
<1>3. CASE Meter
  BY <1>3 DEF Meter, RequestInv
<1>4. CASE Tick
  BY <1>4 DEF Tick, RequestInv
<1>5. CASE UNCHANGED vars
  BY <1>5 DEF vars, hostVars, RequestInv
<1>. QED
  BY <1>1, <1>2, <1>3, <1>4, <1>5 DEF Next

(* Only registrations and consents change what the trust service keeps.      *)
LEMMA TrustStep == RequestInv /\ TrustInv /\ [Next]_vars => TrustInv'
<1>. SUFFICES ASSUME RequestInv, TrustInv, [Next]_vars PROVE TrustInv'
  OBVIOUS
<1>1. ASSUME UNCHANGED trustVars PROVE TrustInv'
  BY <1>1 DEF trustVars, TrustInv
<1>2. ASSUME NEW i \in DOMAIN inbound, ServeRegistration(i), ~UNCHANGED trustVars
      PROVE  TrustInv'
  <2>1. PICK c : c = inbound[i].command.credential
    OBVIOUS
  <2>2. c.ref \in CredentialRefs /\ credentials' = WithCredential(c) /\ UNCHANGED consents
    BY <1>2, <2>1 DEF ServeRegistration, Is, RequestInv, Named, trustVars
  <2>3. PICK S : credentials \in Seq(S)
    BY DEF TrustInv
  <2>4. CASE \E n \in DOMAIN credentials : credentials[n].ref = c.ref
    <3>1. /\ credentials' = [n \in DOMAIN credentials |->
               IF credentials[n].ref = c.ref THEN c ELSE credentials[n]]
      BY <2>2, <2>4 DEF WithCredential
    <3>2. \A n \in DOMAIN credentials : credentials[n] \in S /\ DOMAIN credentials = 1..Len(credentials)
      BY <2>3
    <3>3. credentials' \in Seq(S \cup {c})
      BY <2>3, <3>1, <3>2
    <3>. QED
      BY <2>2, <3>1, <3>3 DEF TrustInv
  <2>5. CASE ~\E n \in DOMAIN credentials : credentials[n].ref = c.ref
    <3>1. credentials' = Append(credentials, c)
      BY <2>2, <2>5 DEF WithCredential
    <3>2. /\ credentials' \in Seq(S \cup {c})
          /\ \A n \in DOMAIN credentials' :
               credentials'[n] = c \/ (n \in DOMAIN credentials /\ credentials'[n] = credentials[n])
      BY <2>3, <3>1
    <3>. QED
      BY <2>2, <3>2 DEF TrustInv
  <2>. QED
    BY <2>4, <2>5
<1>3. ASSUME NEW i \in DOMAIN inbound, ServeConsent(i), ~UNCHANGED trustVars
      PROVE  TrustInv'
  <2>1. PICK c, consent : /\ c = inbound[i].command
                          /\ consent = [subject |-> c.subject, consumer |-> c.consumer,
                                        issuer |-> c.issuer]
    OBVIOUS
  <2>2. /\ c.consent \in ConsentIds /\ consent.consumer \in Consumers
        /\ consents' = [consents EXCEPT ![c.consent] = consent] /\ UNCHANGED credentials
    BY <1>3, <2>1 DEF ServeConsent, Is, RequestInv, Named, trustVars
  <2>3. PICK F : consents \in [ConsentIds -> F]
    BY DEF TrustInv
  <2>4. consents' \in [ConsentIds -> F \cup {consent}]
    BY <2>2, <2>3
  <2>. QED
    BY <2>2, <2>3, <2>4 DEF TrustInv
<1>4. ASSUME NEW i \in DOMAIN inbound, Proceed(i) PROVE TrustInv'
  <2>1. CASE RefuseBody(i) \/ RefuseCapability(i)
    BY <1>1, <2>1 DEF RefuseBody, RefuseCapability
  <2>2. CASE ServeAccessRequest(i) \/ ServeDecision(i) \/ ServeRevocation(i)
    BY <1>1, <2>2 DEF ServeAccessRequest, ServeDecision, ServeRevocation
  <2>3. CASE ServeVerification(i) \/ ServeDataAccess(i) \/ ServePayout(i) \/ ServePayoutCallback(i)
    BY <1>1, <2>3 DEF ServeVerification, ServeDataAccess, ServePayout, ServePayoutCallback
  <2>. QED
    BY <1>1, <1>2, <1>3, <1>4, <2>1, <2>2, <2>3 DEF Proceed, Serve
<1>5. CASE (\E call \in workload.calls : Arrive(call)) \/ Meter \/ Tick
  BY <1>1, <1>5 DEF Arrive, Meter, Tick
<1>6. CASE UNCHANGED vars
  BY <1>1, <1>6 DEF vars, hostVars, trustVars
<1>. QED
  BY <1>4, <1>5, <1>6 DEF Next

-----------------------------------------------------------------------------
(* Sets of requests are finite, and a union has no more than its parts.      *)
LEMMA RequestsFinite ==
  ASSUME InboundInv, NEW A \in SUBSET DOMAIN inbound
  PROVE  IsFiniteSet(A) /\ Cardinality(A) \in Nat
<1>1. PICK S : inbound \in Seq(S)
  BY DEF InboundInv
<1>2. IsFiniteSet(1..Len(inbound)) /\ DOMAIN inbound = 1..Len(inbound)
  BY <1>1, FS_Interval
<1>. QED
  BY <1>2, FS_Subset, FS_CardinalityType

(* A union of two finite sets has at most as many elements as the two.       *)
LEMMA UnionBound ==
  ASSUME NEW A, NEW B, IsFiniteSet(A), IsFiniteSet(B)
  PROVE  IsFiniteSet(A \cup B) /\ Cardinality(A \cup B) <= Cardinality(A) + Cardinality(B)
<1>1. /\ IsFiniteSet(A \cup B) /\ IsFiniteSet(A \cap B)
      /\ Cardinality(A \cup B) = Cardinality(A) + Cardinality(B) - Cardinality(A \cap B)
  BY FS_Union, FS_Intersection
<1>2. Cardinality(A) \in Nat /\ Cardinality(B) \in Nat /\ Cardinality(A \cap B) \in Nat
  BY <1>1, FS_CardinalityType
<1>. QED
  BY <1>1, <1>2

(* A key that gets nothing more through, and whose window stays, keeps its   *)
(* account while time passes.                                                *)
LEMMA RateKept ==
  ASSUME NEW k, RateOf(k), now \in Nat, now' \in Nat, now <= now',
         windows'[k] = windows[k], Through(k)' = Through(k),
         \A i \in Through(k) : inbound'[i].at = inbound[i].at
  PROVE  RateOf(k)'
<1>1. \A t : Stretch(k, t)' = Stretch(k, t)
  BY DEF Stretch
<1>2. InWindow(k)' = InWindow(k) /\ JustBefore(k)' = JustBefore(k)
  BY DEF InWindow, JustBefore
<1>3. WindowLength \in Nat
  BY HostedAssumption
<1>4. windows[k] \in Window => windows[k].resetAt \in Nat
  BY DEF Window
<1>. QED
  BY <1>1, <1>2, <1>3, <1>4 DEF RateOf

(* What came through since a window that is over began is all in that window,*)
(* and there is nothing at or after its end.                                 *)
LEMMA WindowOverBounds ==
  ASSUME InboundInv, RequestInv, NEW k \in ApiKeys, RateOf(k), WindowOver(k)
  PROVE  LET before == {i \in Through(k) : inbound[i].at + WindowLength > now}
         IN Cardinality(before) <= Limit[Tier[k]] /\ \A i \in Through(k) : inbound[i].at < now
<1>. DEFINE before == {i \in Through(k) : inbound[i].at + WindowLength > now}
<1>. now \in Nat /\ WindowLength \in Nat \ {0} /\ Limit[Tier[k]] \in Nat \ {0}
  BY HostedAssumption DEF RequestInv
<1>0. \A i \in Through(k) : i \in DOMAIN inbound /\ inbound[i].at \in Nat
  BY DEF Through, RequestInv
<1>1. CASE windows[k] = Absent
  <2>1. Through(k) = {}
    BY <1>1 DEF RateOf
  <2>. QED
    BY <2>1, FS_EmptySet
<1>2. CASE windows[k] # Absent
  <2>1. /\ windows[k].resetAt \in Nat /\ windows[k].resetAt <= now
        /\ windows[k].count \in 1..Limit[Tier[k]]
        /\ Cardinality(InWindow(k)) <= windows[k].count
        /\ \A i \in Through(k) : inbound[i].at < windows[k].resetAt
    BY <1>2 DEF RateOf, WindowOver, Window
  <2>2. before \subseteq InWindow(k)
    BY <1>0, <2>1 DEF InWindow
  <2>3. InWindow(k) \subseteq DOMAIN inbound
    BY DEF InWindow, Through
  <2>4. IsFiniteSet(InWindow(k)) /\ Cardinality(InWindow(k)) \in Nat
    BY <2>3, RequestsFinite
  <2>5. Cardinality(before) <= Cardinality(InWindow(k)) /\ Cardinality(before) \in Nat
    BY <2>2, <2>3, <2>4, FS_Subset, RequestsFinite
  <2>6. \A i \in Through(k) : inbound[i].at < now
    BY <1>0, <2>1
  <2>. HIDE DEF before
  <2>7. Cardinality(before) <= Limit[Tier[k]]
    BY <2>1, <2>4, <2>5
  <2>. QED
    BY <2>6, <2>7 DEF before
<1>. QED
  BY <1>1, <1>2

(* A request that opens a window: the window over lies behind it, and any    *)
(* stretch that reaches this moment begins after the window over did.        *)
LEMMA OpeningKeepsRate ==
  ASSUME InboundInv, RequestInv, NEW k \in ApiKeys, RateOf(k), WindowOver(k),
         NEW m, m \notin DOMAIN inbound, InboundInv',
         DOMAIN inbound' = DOMAIN inbound \cup {m},
         \A j \in DOMAIN inbound : inbound'[j] = inbound[j],
         inbound'[m].apiKey = k, inbound'[m].at = now, inbound'[m].phase # "limited",
         now' = now, windows'[k] = [count |-> 1, resetAt |-> now + WindowLength]
  PROVE  RateOf(k)'
<1>. now \in Nat /\ WindowLength \in Nat \ {0} /\ Limit[Tier[k]] \in Nat \ {0}
  BY HostedAssumption DEF RequestInv
<1>. DEFINE before == {i \in Through(k) : inbound[i].at + WindowLength > now}
<1>1. /\ Through(k)' = Through(k) \cup {m} /\ m \notin Through(k)
      /\ \A i \in Through(k) : inbound'[i].at = inbound[i].at /\ inbound[i].at \in Nat
  BY DEF Through, RequestInv
<1>2. \A i \in Through(k) : inbound[i].at < now
  BY WindowOverBounds
<1>3. Cardinality(before) <= Limit[Tier[k]]
  BY WindowOverBounds
<1>4. before \subseteq DOMAIN inbound
  BY DEF Through
<1>5. IsFiniteSet(before) /\ Cardinality(before) \in Nat
  BY <1>4, RequestsFinite
<1>6. windows'[k] \in Window /\ windows'[k].count = 1 /\ windows'[k].resetAt = now + WindowLength
  BY DEF Window
<1>7. InWindow(k)' = {m}
  BY <1>1, <1>2, <1>6 DEF InWindow
<1>8. JustBefore(k)' \subseteq before
  BY <1>1, <1>2, <1>6 DEF JustBefore
<1>9. Cardinality(JustBefore(k)') <= Limit[Tier[k]]
  <2>1. /\ Cardinality(JustBefore(k)') <= Cardinality(before)
        /\ Cardinality(JustBefore(k)') \in Nat
    BY <1>5, <1>8, FS_Subset, FS_CardinalityType
  <2>. HIDE DEF before
  <2>. QED
    BY <1>3, <1>5, <2>1
<1>10. ASSUME NEW t \in Nat PROVE Cardinality(Stretch(k, t)') <= 2 * Limit[Tier[k]]
  <2>1. CASE now \in t..(t + WindowLength - 1)
    <3>1. Stretch(k, t)' \subseteq before \cup {m}
      BY <1>1, <1>2, <2>1 DEF Stretch
    <3>2. m \notin before
      BY <1>1
    <3>. HIDE DEF before
    <3>4. Cardinality(before \cup {m}) = Cardinality(before) + 1 /\ IsFiniteSet(before \cup {m})
      BY <1>5, <3>2, FS_AddElement
    <3>3. /\ Cardinality(Stretch(k, t)') <= Cardinality(before \cup {m})
          /\ Cardinality(Stretch(k, t)') \in Nat /\ Cardinality(before \cup {m}) \in Nat
      BY <3>1, <3>4, FS_Subset, FS_CardinalityType
    <3>. QED
      BY <1>3, <1>5, <3>3, <3>4
  <2>2. CASE now \notin t..(t + WindowLength - 1)
    <3>1. Stretch(k, t)' = Stretch(k, t)
      BY <1>1, <2>2 DEF Stretch
    <3>. QED
      BY <3>1 DEF RateOf
  <2>. QED
    BY <2>1, <2>2
<1>11. \A i \in Through(k)' : inbound'[i].at < windows'[k].resetAt
  BY <1>1, <1>2, <1>6
<1>12. windows'[k] # Absent
  BY <1>6, HostedAssumption
<1>13. Cardinality(InWindow(k)') <= windows'[k].count
  <2>1. Cardinality({m}) = 1
    BY FS_Singleton
  <2>2. Cardinality(InWindow(k)') = 1
    BY <1>7, <2>1
  <2>. QED
    BY <1>6, <2>2
<1>. QED
  BY <1>6, <1>9, <1>10, <1>11, <1>12, <1>13 DEF RateOf

(* A request within an open window: a stretch that reaches it meets this     *)
(* window and what lies just before it, no more.                             *)
LEMMA JoiningKeepsRate ==
  ASSUME InboundInv, RequestInv, NEW k \in ApiKeys, RateOf(k), ~WindowOver(k), WithinLimit(k),
         NEW m, m \notin DOMAIN inbound, InboundInv',
         DOMAIN inbound' = DOMAIN inbound \cup {m},
         \A j \in DOMAIN inbound : inbound'[j] = inbound[j],
         inbound'[m].apiKey = k, inbound'[m].at = now, inbound'[m].phase # "limited",
         now' = now,
         windows'[k] = [count |-> windows[k].count + 1, resetAt |-> windows[k].resetAt]
  PROVE  RateOf(k)'
<1>. now \in Nat /\ WindowLength \in Nat \ {0} /\ Limit[Tier[k]] \in Nat \ {0}
  BY HostedAssumption DEF RequestInv
<1>1. /\ Through(k)' = Through(k) \cup {m} /\ m \notin Through(k)
      /\ \A i \in Through(k) : inbound'[i].at = inbound[i].at /\ inbound[i].at \in Nat
                               /\ inbound[i].at <= now
  BY DEF Through, RequestInv
<1>2. /\ windows[k].count \in Nat /\ windows[k].count < Limit[Tier[k]] /\ windows[k].count >= 1
      /\ windows[k].resetAt \in Nat /\ now < windows[k].resetAt
      /\ WindowLength <= windows[k].resetAt /\ windows[k].resetAt <= now + WindowLength
      /\ \A i \in Through(k) : inbound[i].at < windows[k].resetAt
      /\ Cardinality(InWindow(k)) <= windows[k].count
      /\ Cardinality(JustBefore(k)) <= Limit[Tier[k]]
  BY DEF RateOf, WindowOver, WithinLimit, Window
<1>3. /\ windows'[k] \in Window /\ windows'[k].count = windows[k].count + 1
      /\ windows'[k].resetAt = windows[k].resetAt
  BY <1>2 DEF Window
<1>4. InWindow(k) \subseteq DOMAIN inbound /\ JustBefore(k) \subseteq DOMAIN inbound
  BY DEF InWindow, JustBefore, Through
<1>5. /\ IsFiniteSet(InWindow(k)) /\ Cardinality(InWindow(k)) \in Nat
      /\ IsFiniteSet(JustBefore(k)) /\ Cardinality(JustBefore(k)) \in Nat
  BY <1>4, RequestsFinite
<1>6. InWindow(k)' = InWindow(k) \cup {m} /\ m \notin InWindow(k)
  BY <1>1, <1>2, <1>3 DEF InWindow
<1>7. JustBefore(k)' = JustBefore(k)
  BY <1>1, <1>2, <1>3 DEF JustBefore
<1>8. /\ IsFiniteSet(InWindow(k) \cup {m})
      /\ Cardinality(InWindow(k) \cup {m}) = Cardinality(InWindow(k)) + 1
  BY <1>5, <1>6, FS_AddElement
<1>9. ASSUME NEW t \in Nat PROVE Cardinality(Stretch(k, t)') <= 2 * Limit[Tier[k]]
  <2>1. CASE now \in t..(t + WindowLength - 1)
    <3> DEFINE both == (InWindow(k) \cup {m}) \cup JustBefore(k)
    <3>1. ASSUME NEW i \in Stretch(k, t)' PROVE i \in both
      <4>1. CASE i = m
        BY <4>1
      <4>2. CASE i # m
        <5>1. i \in Through(k) /\ inbound[i].at \in Nat /\ inbound[i].at >= t
          BY <1>1, <3>1, <4>2 DEF Stretch
        <5>2. now < t + WindowLength
          BY <2>1
        <5>3. inbound[i].at + 2 * WindowLength > windows[k].resetAt
          BY <1>2, <5>1, <5>2
        <5>. QED
          BY <1>2, <5>1, <5>3 DEF InWindow, JustBefore
      <4>. QED
        BY <4>1, <4>2
    <3>2. /\ IsFiniteSet(both)
          /\ Cardinality(both) <= Cardinality(InWindow(k) \cup {m}) + Cardinality(JustBefore(k))
      BY <1>5, <1>8, UnionBound
    <3>3. Cardinality(both) \in Nat
      BY <3>2, FS_CardinalityType
    <3>4. Stretch(k, t)' \subseteq both
      BY <3>1
    <3>. HIDE DEF both
    <3>5. Cardinality(Stretch(k, t)') <= Cardinality(both) /\ Cardinality(Stretch(k, t)') \in Nat
      BY <3>2, <3>4, FS_Subset, FS_CardinalityType
    <3>. QED
      BY <1>2, <1>5, <1>8, <3>2, <3>3, <3>5
  <2>2. CASE now \notin t..(t + WindowLength - 1)
    <3>1. Stretch(k, t)' = Stretch(k, t)
      BY <1>1, <2>2 DEF Stretch
    <3>. QED
      BY <3>1 DEF RateOf
  <2>. QED
    BY <2>1, <2>2
<1>10. \A i \in Through(k)' : inbound'[i].at < windows'[k].resetAt
  BY <1>1, <1>2, <1>3
<1>11. windows'[k] # Absent
  BY <1>3, HostedAssumption
<1>12. windows'[k].count \in 1..Limit[Tier[k]] /\ Cardinality(InWindow(k)') <= windows'[k].count
  BY <1>2, <1>3, <1>5, <1>6, <1>8
<1>. QED
  BY <1>2, <1>3, <1>7, <1>9, <1>10, <1>11, <1>12 DEF RateOf

(* So each key's account is kept, whoever sends what.                        *)
LEMMA RateStep ==
  InboundInv /\ RequestInv /\ PayoutInv /\ RateInv /\ [Next]_vars => RateInv'
<1>. SUFFICES ASSUME InboundInv, RequestInv, PayoutInv, RateInv, [Next]_vars PROVE RateInv'
  OBVIOUS
<1>. now \in Nat
  BY HostedAssumption DEF RequestInv
<1>0. PICK F : windows \in [ApiKeys -> F]
  BY DEF RateInv
<1>1. ASSUME UNCHANGED windows, now' \in Nat, now <= now',
             \A k : /\ Through(k)' = Through(k)
                    /\ \A i \in Through(k) : inbound'[i].at = inbound[i].at
      PROVE  RateInv'
  BY <1>1, RateKept DEF RateInv
<1>2. ASSUME NEW call \in workload.calls, Arrive(call) PROVE RateInv'
  <2>1. PICK m : ArrivedAs(m, call)
    BY <1>2, ArrivingIsAll
  <2>2. PICK k : k = call.apiKey
    OBVIOUS
  <2>3. k \in ApiKeys
    BY <2>2, HostedAssumption DEF RequestInv
  <2>4. UNCHANGED now /\ InboundInv'
    BY <1>2, ArriveKeepsCommands DEF Arrive
  <2>5. CASE ~WithinLimit(k)
    <3>1. UNCHANGED windows
      BY <1>2, <2>2, <2>5 DEF Arrive
    <3>2. \A j : /\ Through(j)' = Through(j)
                 /\ \A i \in Through(j) : inbound'[i].at = inbound[i].at
      BY <2>1, <2>2, <2>5 DEF ArrivedAs, Through
    <3>. QED
      BY <1>1, <2>4, <3>1, <3>2
  <2>6. CASE WithinLimit(k)
    <3>1. windows' = [windows EXCEPT ![k] = Counted(k)]
      BY <1>2, <2>2, <2>6 DEF Arrive
    <3>2. PICK w : w = Counted(k)
      OBVIOUS
    <3>3. /\ windows' \in [ApiKeys -> F \cup {w}] /\ windows'[k] = w
          /\ \A j \in ApiKeys \ {k} : windows'[j] = windows[j]
      BY <1>0, <2>3, <3>1, <3>2
    <3>4. ASSUME NEW j \in ApiKeys \ {k} PROVE RateOf(j)'
      <4>1. /\ Through(j)' = Through(j)
            /\ \A i \in Through(j) : inbound'[i].at = inbound[i].at
        BY <2>1, <2>2 DEF ArrivedAs, Through
      <4>. QED
        BY <2>4, <3>3, <4>1, RateKept DEF RateInv
    <3>5. /\ m \notin DOMAIN inbound /\ DOMAIN inbound' = DOMAIN inbound \cup {m}
          /\ \A j \in DOMAIN inbound : inbound'[j] = inbound[j]
          /\ inbound'[m].apiKey = k /\ inbound'[m].at = now /\ inbound'[m].phase # "limited"
      BY <2>1, <2>2, <2>6 DEF ArrivedAs
    <3>6. RateOf(k)
      BY <2>3 DEF RateInv
    <3>7. CASE WindowOver(k)
      <4>1. windows'[k] = [count |-> 1, resetAt |-> now + WindowLength]
        BY <3>2, <3>3, <3>7 DEF Counted
      <4>. QED
        BY <2>3, <2>4, <3>3, <3>4, <3>5, <3>6, <3>7, <4>1, OpeningKeepsRate DEF RateInv
    <3>8. CASE ~WindowOver(k)
      <4>1. w = [windows[k] EXCEPT !.count = @ + 1] /\ windows[k] \in Window
        BY <3>2, <3>6, <3>8 DEF Counted, RateOf, WindowOver
      <4>2. windows'[k] = [count |-> windows[k].count + 1, resetAt |-> windows[k].resetAt]
        BY <3>3, <4>1 DEF Window
      <4>. QED
        BY <2>3, <2>4, <2>6, <3>3, <3>4, <3>5, <3>6, <3>8, <4>2, JoiningKeepsRate DEF RateInv
    <3>. QED
      BY <3>7, <3>8
  <2>. QED
    BY <2>5, <2>6
<1>3. ASSUME NEW i \in DOMAIN inbound, Proceed(i) PROVE RateInv'
  <2>1. i \in Reading /\ UNCHANGED <<now, windows>>
    BY <1>3, ProceedIsOne
  <2>2. PICK phase, answer : phase \in Phases \ {"limited", "reading"} /\ ClosedAs(i, phase, answer)
    BY <1>3, ProceedReplies
  <2>3. \A k : /\ Through(k)' = Through(k)
               /\ \A j \in Through(k) : inbound'[j].at = inbound[j].at
    BY <2>1, <2>2 DEF ClosedAs, Through, Reading
  <2>. QED
    BY <1>1, <2>1, <2>3
<1>4. CASE Meter \/ UNCHANGED vars
  <2>1. UNCHANGED <<inbound, now, windows>>
    BY <1>4 DEF Meter, vars, hostVars
  <2>. QED
    BY <1>1, <2>1 DEF Through
<1>5. CASE Tick
  BY <1>1, <1>5 DEF Tick, Through
<1>. QED
  BY <1>2, <1>3, <1>4, <1>5 DEF Next

-----------------------------------------------------------------------------
\* Entry a, at place n of the trail, if it is of this event and withdrawal.
EntryAt(event, w, a, n) == IF a.event = event /\ a.withdrawal = w THEN {n} ELSE {}

(* The trail only grows, entry by entry.                                     *)
LEMMA TrailGrows ==
  ASSUME NEW S, payoutAudit \in Seq(S), NEW a, payoutAudit' = Append(payoutAudit, a)
  PROVE  \A event, w :
           Entries(event, w)' = Entries(event, w) \cup EntryAt(event, w, a, Len(payoutAudit) + 1)
<1>1. /\ DOMAIN payoutAudit' = DOMAIN payoutAudit \cup {Len(payoutAudit) + 1}
      /\ payoutAudit'[Len(payoutAudit) + 1] = a
      /\ \A n \in DOMAIN payoutAudit : payoutAudit'[n] = payoutAudit[n]
      /\ Len(payoutAudit) + 1 \notin DOMAIN payoutAudit
  OBVIOUS
<1>. QED
  BY <1>1 DEF Entries, EntryAt

(* A decided payout writes its request and its result.                       *)
LEMMA TrailGrowsByTwo ==
  ASSUME NEW S, payoutAudit \in Seq(S), NEW a, NEW b, payoutAudit' = payoutAudit \o <<a, b>>
  PROVE  /\ payoutAudit' \in Seq(S \cup {a, b})
         /\ payoutAudit'[Len(payoutAudit) + 2] = b
         /\ \A n \in DOMAIN payoutAudit : n \in DOMAIN payoutAudit' /\ payoutAudit'[n] = payoutAudit[n]
         /\ Len(payoutAudit) + 1 \notin DOMAIN payoutAudit
         /\ Len(payoutAudit) + 2 \notin DOMAIN payoutAudit
         /\ Len(payoutAudit) + 2 \in DOMAIN payoutAudit'
         /\ \A event, w :
              Entries(event, w)' =
                Entries(event, w) \cup EntryAt(event, w, a, Len(payoutAudit) + 1)
                                  \cup EntryAt(event, w, b, Len(payoutAudit) + 2)
<1>1. /\ DOMAIN payoutAudit' = DOMAIN payoutAudit \cup {Len(payoutAudit) + 1, Len(payoutAudit) + 2}
      /\ payoutAudit'[Len(payoutAudit) + 1] = a
      /\ payoutAudit'[Len(payoutAudit) + 2] = b
      /\ \A n \in DOMAIN payoutAudit : payoutAudit'[n] = payoutAudit[n]
      /\ Len(payoutAudit) + 1 \notin DOMAIN payoutAudit
      /\ Len(payoutAudit) + 2 \notin DOMAIN payoutAudit
      /\ payoutAudit' \in Seq(S \cup {a, b})
  OBVIOUS
<1>. QED
  BY <1>1 DEF Entries, EntryAt

(* Entries of one kind are finitely many.                                    *)
LEMMA EntriesFinite ==
  ASSUME PayoutInv, NEW event, NEW w
  PROVE  IsFiniteSet(Entries(event, w)) /\ Cardinality(Entries(event, w)) \in Nat
<1>1. PICK S : payoutAudit \in Seq(S)
  BY DEF PayoutInv
<1>2. IsFiniteSet(1..Len(payoutAudit)) /\ Entries(event, w) \subseteq 1..Len(payoutAudit)
  BY <1>1, FS_Interval DEF Entries
<1>. QED
  BY <1>2, FS_Subset, FS_CardinalityType

(* What was settled stays settled while its result and its entries stay.     *)
LEMMA SettledKept ==
  ASSUME NEW w, Settled(w), idempotentResults'[w] = idempotentResults[w],
         Entries("RESULT", w)' = Entries("RESULT", w),
         \A n \in DOMAIN payoutAudit : n \in DOMAIN payoutAudit' /\ payoutAudit'[n] = payoutAudit[n]
  PROVE  Settled(w)'
BY DEF Settled

\* What an answer owes to the results kept.
Quotes(i) ==
  \A w \in Withdrawals :
    (/\ inbound[i].answer # Absent
     /\ inbound[i].answer.payout # Absent
     /\ inbound[i].command.withdrawal = w) =>
       idempotentResults[w] # Absent /\ inbound[i].answer.payout = idempotentResults[w]

(* Answers quote results that are kept for good.                             *)
LEMMA QuotesKept ==
  ASSUME PayoutInv, NEW i \in DOMAIN inbound, NEW phase, NEW answer, ClosedAs(i, phase, answer),
         \A w \in Withdrawals :
           idempotentResults[w] # Absent => idempotentResults'[w] = idempotentResults[w],
         Quotes(i)'
  PROVE  \A j \in DOMAIN inbound' : Quotes(j)'
BY DEF PayoutInv, ClosedAs, Quotes

(* Without a new result the executor's promise is kept.                      *)
LEMMA SameResults ==
  ASSUME PayoutInv, UNCHANGED idempotentResults, \E S : payoutAudit' \in Seq(S),
         \A w : Entries("RESULT", w)' = Entries("RESULT", w),
         \A n \in DOMAIN payoutAudit : n \in DOMAIN payoutAudit' /\ payoutAudit'[n] = payoutAudit[n],
         \A j \in DOMAIN inbound' : Quotes(j)'
  PROVE  PayoutInv'
<1>1. ASSUME NEW w \in Withdrawals
      PROVE  (IF idempotentResults[w] = Absent THEN Entries("RESULT", w) = {} ELSE Settled(w))'
  BY SettledKept DEF PayoutInv
<1>. QED
  BY <1>1 DEF PayoutInv, Quotes

(* A reply without a payout quotes nothing.                                  *)
LEMMA PlainReplies ==
  ASSUME NEW i, NEW phase, NEW answer, ClosedAs(i, phase, answer),
         answer \in {Absent, Success, Failure}
  PROVE  Quotes(i)'
BY DEF ClosedAs, Quotes, Success, Failure

(* Each payout request leaves the executor with at most one result per       *)
(* withdrawal, which is what it answers.                                     *)
LEMMA PayoutStepServed ==
  ASSUME InboundInv, RequestInv, PayoutInv, NEW i \in DOMAIN inbound, ServePayout(i)
  PROVE  PayoutInv'
<1>1. PICK w \in Withdrawals, v \in {"NOT_FOUND", "EXPIRED", "CONSENT_REQUIRED", "VERIFIED"} :
        inbound[i].command.withdrawal = w /\ PayoutCase(i, w, v)
  BY PayoutIsOne
<1>2. PICK S : payoutAudit \in Seq(S)
  BY DEF PayoutInv
<1>3. CASE ReplayPayout(i, w)
  <2>1. /\ ClosedAs(i, "answered", PayoutAnswer(idempotentResults[w]))
        /\ UNCHANGED payoutVars /\ idempotentResults[w] # Absent
    BY <1>3, ClosingIsAll DEF ReplayPayout, Succeed
  <2>2. Quotes(i)'
    BY <1>1, <2>1 DEF ClosedAs, Quotes, PayoutAnswer, payoutVars
  <2>3. \A j \in DOMAIN inbound' : Quotes(j)'
    BY <2>1, <2>2, QuotesKept DEF payoutVars
  <2>. QED
    BY <1>2, <2>1, <2>3, SameResults DEF payoutVars, Entries
<1>4. CASE DecidePayout(i, w, v)
  <2>1. PICK result, a, b :
          /\ result = [allowed |-> v = "VERIFIED", reason |-> v]
          /\ a = AuditEntry("REQUESTED", w, "RECEIVED") /\ b = AuditEntry("RESULT", w, v)
    OBVIOUS
  <2>2. /\ result \in PayoutResult /\ result.reason = v /\ result # Absent
        /\ a.event = "REQUESTED" /\ b.event = "RESULT" /\ b.withdrawal = w /\ b.reason = v
    BY <2>1, ResultTyped, HostedAssumption DEF AuditEntry
  <2>3. /\ idempotentResults[w] = Absent
        /\ idempotentResults' = [idempotentResults EXCEPT ![w] = result]
        /\ payoutAudit' = payoutAudit \o <<a, b>>
        /\ ClosedAs(i, "answered", PayoutAnswer(result))
    BY <1>4, <2>1, ClosingIsAll DEF DecidePayout, Succeed
  <2>4. /\ idempotentResults' \in [Withdrawals -> Optional(PayoutResult)]
        /\ idempotentResults'[w] = result
        /\ \A x \in Withdrawals \ {w} : idempotentResults'[x] = idempotentResults[x]
    BY <2>2, <2>3 DEF PayoutInv, Optional
  <2>5. \A x : Entries("RESULT", x)' = IF x = w THEN Entries("RESULT", x) \cup {Len(payoutAudit) + 2}
                                       ELSE Entries("RESULT", x)
    <3>1. \A event, x :
            Entries(event, x)' =
              Entries(event, x) \cup EntryAt(event, x, a, Len(payoutAudit) + 1)
                                \cup EntryAt(event, x, b, Len(payoutAudit) + 2)
      BY <1>2, <2>3, TrailGrowsByTwo
    <3>. QED
      BY <2>2, <3>1 DEF EntryAt
  <2>6. /\ payoutAudit' \in Seq(S \cup {a, b}) /\ payoutAudit'[Len(payoutAudit) + 2] = b
        /\ Len(payoutAudit) + 2 \in DOMAIN payoutAudit'
        /\ \A n \in DOMAIN payoutAudit : n \in DOMAIN payoutAudit' /\ payoutAudit'[n] = payoutAudit[n]
    BY <1>2, <2>3, TrailGrowsByTwo
  <2>7. Settled(w)'
    <3>1. Entries("RESULT", w)' = {Len(payoutAudit) + 2}
      BY <2>3, <2>5 DEF PayoutInv
    <3>. QED
      BY <2>2, <2>4, <2>6, <3>1 DEF Settled
  <2>8. ASSUME NEW x \in Withdrawals
        PROVE  (IF idempotentResults[x] = Absent THEN Entries("RESULT", x) = {} ELSE Settled(x))'
    <3>1. CASE x = w
      BY <2>2, <2>4, <2>7, <3>1
    <3>2. CASE x # w
      BY <2>4, <2>5, <2>6, <3>2, SettledKept DEF PayoutInv
    <3>. QED
      BY <3>1, <3>2
  <2>9. Quotes(i)'
    BY <1>1, <2>2, <2>3, <2>4 DEF ClosedAs, Quotes, PayoutAnswer
  <2>10. \A j \in DOMAIN inbound' : Quotes(j)'
    <3>1. \A x \in Withdrawals :
            idempotentResults[x] # Absent => idempotentResults'[x] = idempotentResults[x]
      BY <2>3, <2>4
    <3>. QED
      BY <2>3, <2>9, <3>1, QuotesKept
  <2>. QED
    BY <2>4, <2>6, <2>8, <2>10 DEF PayoutInv, Quotes
<1>5. CASE BreakPayout(i, w, v)
  <2>1. PICK a : a = AuditEntry("REQUESTED", w, "RECEIVED")
    OBVIOUS
  <2>2. /\ a.event = "REQUESTED" /\ payoutAudit' = Append(payoutAudit, a)
        /\ UNCHANGED idempotentResults /\ ClosedAs(i, "answered", Failure)
    BY <1>5, <2>1, ClosingIsAll DEF BreakPayout, Fail, AuditEntry
  <2>3. \A x : Entries("RESULT", x)' = Entries("RESULT", x)
    <3>1. \A event, x : Entries(event, x)' =
                      Entries(event, x) \cup EntryAt(event, x, a, Len(payoutAudit) + 1)
      BY <1>2, <2>2, TrailGrows
    <3>. QED
      BY <2>2, <3>1 DEF EntryAt
  <2>4. /\ payoutAudit' \in Seq(S \cup {a})
        /\ \A n \in DOMAIN payoutAudit : n \in DOMAIN payoutAudit' /\ payoutAudit'[n] = payoutAudit[n]
    BY <1>2, <2>2
  <2>5. \A j \in DOMAIN inbound' : Quotes(j)'
    BY <2>2, PlainReplies, QuotesKept
  <2>. QED
    BY <2>2, <2>3, <2>4, <2>5, SameResults
<1>. QED
  BY <1>1, <1>3, <1>4, <1>5 DEF PayoutCase

(* And so does everything else the server does.                              *)
LEMMA PayoutStep == InboundInv /\ RequestInv /\ PayoutInv /\ [Next]_vars => PayoutInv'
<1>. SUFFICES ASSUME InboundInv, RequestInv, PayoutInv, [Next]_vars PROVE PayoutInv'
  OBVIOUS
<1>0. PICK S : payoutAudit \in Seq(S)
  BY DEF PayoutInv
<1>1. ASSUME UNCHANGED payoutVars, \A j \in DOMAIN inbound' : Quotes(j)' PROVE PayoutInv'
  BY <1>0, <1>1, SameResults DEF payoutVars, Entries
<1>2. ASSUME NEW call \in workload.calls, Arrive(call) PROVE PayoutInv'
  <2>1. ArrivedAs(Len(inbound) + 1, call) /\ UNCHANGED payoutVars
    BY <1>2, ArrivingIsAll DEF Arrive
  <2>2. \A j \in DOMAIN inbound' : Quotes(j)'
    BY <2>1 DEF ArrivedAs, PayoutInv, Quotes, payoutVars
  <2>. QED
    BY <1>1, <2>1, <2>2
<1>3. ASSUME NEW i \in DOMAIN inbound, Proceed(i) PROVE PayoutInv'
  <2>1. ASSUME NEW phase, NEW answer \in {Absent, Success, Failure}, Close(i, phase, answer),
               UNCHANGED idempotentResults
        PROVE  \A j \in DOMAIN inbound' : Quotes(j)'
    BY <2>1, ClosingIsAll, PlainReplies, QuotesKept
  <2>2. CASE TurnedAway(i) \/ Failed(i) \/ Succeeded(i)
    BY <1>1, <2>1, <2>2 DEF TurnedAway, Failed, Succeeded, Fail, Succeed, payoutVars
  <2>3. CASE Reported(i)
    <3>1. PICK a : a.event = "CALLBACK" /\ payoutAudit' = Append(payoutAudit, a)
      BY <2>3 DEF Reported, CallbackEntry
    <3>2. \A x : Entries("RESULT", x)' = Entries("RESULT", x)
      <4>1. \A event, x : Entries(event, x)' =
                        Entries(event, x) \cup EntryAt(event, x, a, Len(payoutAudit) + 1)
        BY <1>0, <3>1, TrailGrows
      <4>. QED
        BY <3>1, <4>1 DEF EntryAt
    <3>3. /\ payoutAudit' \in Seq(S \cup {a})
          /\ \A n \in DOMAIN payoutAudit : n \in DOMAIN payoutAudit' /\ payoutAudit'[n] = payoutAudit[n]
      BY <1>0, <3>1
    <3>4. UNCHANGED idempotentResults /\ \A j \in DOMAIN inbound' : Quotes(j)'
      BY <2>1, <2>3 DEF Reported, Succeed
    <3>. QED
      BY <3>2, <3>3, <3>4, SameResults
  <2>. QED
    BY <1>3, <2>2, <2>3, ProceedIsOne, PayoutStepServed
<1>4. CASE Meter \/ Tick \/ UNCHANGED vars
  <2>1. UNCHANGED <<inbound, payoutVars>>
    BY <1>4 DEF Meter, Tick, vars, hostVars, payoutVars
  <2>2. \A j \in DOMAIN inbound' : Quotes(j)'
    BY <2>1 DEF PayoutInv, Quotes, payoutVars
  <2>. QED
    BY <1>1, <2>1, <2>2
<1>. QED
  BY <1>2, <1>3, <1>4 DEF Next

-----------------------------------------------------------------------------
(* An attempt is broken only when a payout request is answered a failure.    *)
LEMMA BrokenSame ==
  ASSUME RequestInv, NEW i \in Reading, NEW phase, NEW answer, ClosedAs(i, phase, answer),
         answer # Failure \/ inbound[i].command.endpoint # "/payout/execute"
  PROVE  \A w : Broken(w)' = Broken(w)
<1>1. i \in DOMAIN inbound /\ inbound[i].phase = "reading"
  BY DEF Reading
<1>2. inbound[i].answer = Absent
  BY <1>1 DEF RequestInv
<1>3. Failure # Absent
  BY RepliesTyped
<1>. QED
  BY <1>1, <1>2, <1>3 DEF ClosedAs, Broken

(* So is one more, for its withdrawal, when it is.                           *)
LEMMA BrokenOneMore ==
  ASSUME InboundInv, RequestInv, NEW i \in Reading, NEW w, ClosedAs(i, "answered", Failure),
         inbound[i].command.endpoint = "/payout/execute", inbound[i].command.withdrawal = w
  PROVE  /\ Cardinality(Broken(w)') = Cardinality(Broken(w)) + 1
         /\ \A x : x # w => Broken(x)' = Broken(x)
<1>1. i \in DOMAIN inbound /\ inbound[i].phase = "reading"
  BY DEF Reading
<1>2. inbound[i].answer = Absent
  BY <1>1 DEF RequestInv
<1>3. Failure # Absent
  BY RepliesTyped
<1>4. Broken(w)' = Broken(w) \cup {i} /\ i \notin Broken(w)
  BY <1>1, <1>2, <1>3 DEF ClosedAs, Broken
<1>5. \A x : x # w => Broken(x)' = Broken(x)
  BY <1>1, <1>2, <1>3 DEF ClosedAs, Broken
<1>6. Broken(w) \subseteq DOMAIN inbound
  BY DEF Broken
<1>7. Cardinality(Broken(w) \cup {i}) = Cardinality(Broken(w)) + 1
  BY <1>4, <1>6, RequestsFinite, FS_AddElement
<1>. QED
  BY <1>4, <1>5, <1>7

(* A payout request is written with its result, or without it and broken.    *)
LEMMA AttemptServed ==
  ASSUME InboundInv, RequestInv, PayoutInv, AttemptInv, NEW i \in DOMAIN inbound,
         i \in Reading, ServePayout(i)
  PROVE  AttemptInv'
<1>1. PICK w \in Withdrawals, v \in {"NOT_FOUND", "EXPIRED", "CONSENT_REQUIRED", "VERIFIED"} :
        /\ inbound[i].command.withdrawal = w
        /\ inbound[i].command.endpoint = "/payout/execute"
        /\ PayoutCase(i, w, v)
  BY PayoutIsOne
<1>2. PICK S : payoutAudit \in Seq(S)
  BY DEF PayoutInv
<1>3. \A result : PayoutAnswer(result) # Failure
  BY DEF PayoutAnswer, Failure
<1>4. ASSUME NEW x \in Withdrawals
      PROVE  /\ Cardinality(Entries("REQUESTED", x)) \in Nat
             /\ Cardinality(Entries("RESULT", x)) \in Nat
             /\ Cardinality(Broken(x)) \in Nat
             /\ Cardinality(Entries("REQUESTED", x)) =
                  Cardinality(Entries("RESULT", x)) + Cardinality(Broken(x))
  BY EntriesFinite, RequestsFinite DEF Broken, AttemptInv
<1>5. CASE ReplayPayout(i, w)
  <2>1. \E result : ClosedAs(i, "answered", PayoutAnswer(result))
    BY <1>5, ClosingIsAll DEF ReplayPayout, Succeed
  <2>2. \A x : Broken(x)' = Broken(x)
    BY <1>3, <2>1, BrokenSame
  <2>3. \A event, x : Entries(event, x)' = Entries(event, x)
    BY <1>5 DEF ReplayPayout, payoutVars, Entries
  <2>. QED
    BY <2>2, <2>3 DEF AttemptInv
<1>6. CASE DecidePayout(i, w, v)
  <2>1. PICK a, b : /\ a = AuditEntry("REQUESTED", w, "RECEIVED")
                    /\ b = AuditEntry("RESULT", w, v)
    OBVIOUS
  <2>2. /\ a.event = "REQUESTED" /\ a.withdrawal = w
        /\ b.event = "RESULT" /\ b.withdrawal = w
    BY <2>1 DEF AuditEntry
  <2>3. payoutAudit' = payoutAudit \o <<a, b>>
    BY <1>6, <2>1 DEF DecidePayout
  <2>4. \E result : ClosedAs(i, "answered", PayoutAnswer(result))
    BY <1>6, ClosingIsAll DEF DecidePayout, Succeed
  <2>5. \A x : Broken(x)' = Broken(x)
    BY <1>3, <2>4, BrokenSame
  <2>6. /\ Len(payoutAudit) + 1 \notin DOMAIN payoutAudit
        /\ Len(payoutAudit) + 2 \notin DOMAIN payoutAudit
        /\ \A event, x :
             Entries(event, x)' =
               Entries(event, x) \cup EntryAt(event, x, a, Len(payoutAudit) + 1)
                                 \cup EntryAt(event, x, b, Len(payoutAudit) + 2)
    BY <1>2, <2>3, TrailGrowsByTwo
  <2>7. /\ Entries("REQUESTED", w)' = Entries("REQUESTED", w) \cup {Len(payoutAudit) + 1}
        /\ Entries("RESULT", w)' = Entries("RESULT", w) \cup {Len(payoutAudit) + 2}
        /\ \A event, x : x # w => Entries(event, x)' = Entries(event, x)
    BY <2>2, <2>6 DEF EntryAt
  <2>8. /\ Len(payoutAudit) + 1 \notin Entries("REQUESTED", w)
        /\ Len(payoutAudit) + 2 \notin Entries("RESULT", w)
    BY <2>6 DEF Entries
  <2>9. /\ Cardinality(Entries("REQUESTED", w)') = Cardinality(Entries("REQUESTED", w)) + 1
        /\ Cardinality(Entries("RESULT", w)') = Cardinality(Entries("RESULT", w)) + 1
    BY <2>7, <2>8, EntriesFinite, FS_AddElement
  <2>10. ASSUME NEW x \in Withdrawals
         PROVE  Cardinality(Entries("REQUESTED", x)') =
                  Cardinality(Entries("RESULT", x)') + Cardinality(Broken(x)')
    <3>1. CASE x = w
      BY <1>4, <2>5, <2>9, <3>1
    <3>2. CASE x # w
      BY <1>4, <2>5, <2>7, <3>2
    <3>. QED
      BY <3>1, <3>2
  <2>. QED
    BY <2>10 DEF AttemptInv
<1>7. CASE BreakPayout(i, w, v)
  <2>1. PICK a : a = AuditEntry("REQUESTED", w, "RECEIVED")
    OBVIOUS
  <2>2. /\ a.event = "REQUESTED" /\ a.withdrawal = w
        /\ payoutAudit' = Append(payoutAudit, a) /\ ClosedAs(i, "answered", Failure)
    BY <1>7, <2>1, ClosingIsAll DEF BreakPayout, Fail, AuditEntry
  <2>3. \A event, x : Entries(event, x)' =
                        Entries(event, x) \cup EntryAt(event, x, a, Len(payoutAudit) + 1)
    BY <1>2, <2>2, TrailGrows
  <2>4. /\ Entries("REQUESTED", w)' = Entries("REQUESTED", w) \cup {Len(payoutAudit) + 1}
        /\ Entries("RESULT", w)' = Entries("RESULT", w)
        /\ \A event, x : x # w => Entries(event, x)' = Entries(event, x)
    BY <2>2, <2>3 DEF EntryAt
  <2>5. Len(payoutAudit) + 1 \notin Entries("REQUESTED", w)
    BY <1>2 DEF Entries
  <2>6. Cardinality(Entries("REQUESTED", w)') = Cardinality(Entries("REQUESTED", w)) + 1
    BY <2>4, <2>5, EntriesFinite, FS_AddElement
  <2>7. /\ Cardinality(Broken(w)') = Cardinality(Broken(w)) + 1
        /\ \A x : x # w => Broken(x)' = Broken(x)
    BY <1>1, <2>2, BrokenOneMore
  <2>8. ASSUME NEW x \in Withdrawals
        PROVE  Cardinality(Entries("REQUESTED", x)') =
                 Cardinality(Entries("RESULT", x)') + Cardinality(Broken(x)')
    <3>1. CASE x = w
      BY <1>4, <2>4, <2>6, <2>7, <3>1
    <3>2. CASE x # w
      BY <1>4, <2>4, <2>7, <3>2
    <3>. QED
      BY <3>1, <3>2
  <2>. QED
    BY <2>8 DEF AttemptInv
<1>. QED
  BY <1>1, <1>5, <1>6, <1>7 DEF PayoutCase

(* Nothing else writes requests or results, or breaks an attempt.            *)
LEMMA AttemptStep ==
  InboundInv /\ RequestInv /\ PayoutInv /\ AttemptInv /\ [Next]_vars => AttemptInv'
<1>. SUFFICES ASSUME InboundInv, RequestInv, PayoutInv, AttemptInv, [Next]_vars PROVE AttemptInv'
  OBVIOUS
<1>0. PICK S : payoutAudit \in Seq(S)
  BY DEF PayoutInv
<1>1. ASSUME UNCHANGED payoutAudit, \A w : Broken(w)' = Broken(w) PROVE AttemptInv'
  BY <1>1 DEF AttemptInv, Entries
<1>2. ASSUME NEW call \in workload.calls, Arrive(call) PROVE AttemptInv'
  <2>1. ArrivedAs(Len(inbound) + 1, call) /\ UNCHANGED payoutAudit
    BY <1>2, ArrivingIsAll DEF Arrive, payoutVars
  <2>2. Failure # Absent
    BY RepliesTyped
  <2>. QED
    BY <1>1, <2>1, <2>2 DEF ArrivedAs, Broken
<1>3. ASSUME NEW i \in DOMAIN inbound, Proceed(i) PROVE AttemptInv'
  <2>0. i \in Reading
    BY <1>3, ProceedIsOne
  <2>1. Success # Failure /\ Absent # Failure
    BY RepliesTyped
  <2>2. ASSUME NEW phase, NEW answer, Close(i, phase, answer),
               answer # Failure \/ inbound[i].command.endpoint # "/payout/execute"
        PROVE  \A w : Broken(w)' = Broken(w)
    BY <2>0, <2>2, ClosingIsAll, BrokenSame
  <2>3. CASE TurnedAway(i) \/ Failed(i) \/ Succeeded(i)
    BY <1>1, <2>1, <2>2, <2>3 DEF TurnedAway, Failed, Succeeded, Fail, Succeed, payoutVars
  <2>4. CASE Reported(i)
    <3>1. PICK a : a.event = "CALLBACK" /\ payoutAudit' = Append(payoutAudit, a)
      BY <2>4 DEF Reported, CallbackEntry
    <3>2. \A event, x : Entries(event, x)' =
                          Entries(event, x) \cup EntryAt(event, x, a, Len(payoutAudit) + 1)
      BY <1>0, <3>1, TrailGrows
    <3>3. \A x : Entries("REQUESTED", x)' = Entries("REQUESTED", x)
                 /\ Entries("RESULT", x)' = Entries("RESULT", x)
      BY <3>1, <3>2 DEF EntryAt
    <3>4. \A w : Broken(w)' = Broken(w)
      BY <2>1, <2>2, <2>4 DEF Reported, Succeed
    <3>. QED
      BY <3>3, <3>4 DEF AttemptInv
  <2>. QED
    BY <1>3, <2>0, <2>3, <2>4, ProceedIsOne, AttemptServed
<1>4. CASE Meter \/ Tick \/ UNCHANGED vars
  BY <1>1, <1>4 DEF Meter, Tick, vars, hostVars, payoutVars, Broken
<1>. QED
  BY <1>2, <1>3, <1>4 DEF Next

-----------------------------------------------------------------------------
(* Counting the calls of a consumer in a queue, which grows at one end and   *)
(* is taken from at the other.                                               *)

CallsAt(calls, u, e) ==
  {n \in DOMAIN calls : calls[n].consumer = u /\ calls[n].endpoint = e}

(* They can be counted.                                                      *)
LEMMA CallsFinite ==
  ASSUME NEW S, NEW calls \in Seq(S), NEW u, NEW e
  PROVE  /\ IsFiniteSet(CallsAt(calls, u, e)) /\ CallsOf(calls, u, e) \in Nat
         /\ CallsOf(calls, u, e) = Cardinality(CallsAt(calls, u, e))
<1>1. IsFiniteSet(1..Len(calls)) /\ CallsAt(calls, u, e) \subseteq 1..Len(calls)
  BY FS_Interval DEF CallsAt
<1>2. CallsOf(calls, u, e) = Cardinality(CallsAt(calls, u, e))
  BY DEF CallsOf, CallsAt
<1>. QED
  BY <1>1, <1>2, FS_Subset, FS_CardinalityType

\* A call is one of a consumer's at an endpoint.
Of(c, u, e) == c.consumer = u /\ c.endpoint = e

(* A call put in the queue counts for its consumer and endpoint alone.       *)
LEMMA CallsAppended ==
  ASSUME NEW S, NEW calls \in Seq(S), NEW c, NEW u, NEW e
  PROVE  /\ Of(c, u, e) => CallsOf(Append(calls, c), u, e) = CallsOf(calls, u, e) + 1
         /\ ~Of(c, u, e) => CallsOf(Append(calls, c), u, e) = CallsOf(calls, u, e)
<1>1. /\ DOMAIN Append(calls, c) = DOMAIN calls \cup {Len(calls) + 1}
      /\ Len(calls) + 1 \notin DOMAIN calls
      /\ Append(calls, c)[Len(calls) + 1] = c
      /\ \A n \in DOMAIN calls : Append(calls, c)[n] = calls[n]
  OBVIOUS
<1>2. /\ Of(c, u, e) => CallsAt(Append(calls, c), u, e) = CallsAt(calls, u, e) \cup {Len(calls) + 1}
      /\ ~Of(c, u, e) => CallsAt(Append(calls, c), u, e) = CallsAt(calls, u, e)
  BY <1>1 DEF CallsAt, Of
<1>3. Len(calls) + 1 \notin CallsAt(calls, u, e)
  BY <1>1 DEF CallsAt
<1>4. Cardinality(CallsAt(calls, u, e) \cup {Len(calls) + 1}) = Cardinality(CallsAt(calls, u, e)) + 1
  BY <1>3, CallsFinite, FS_AddElement
<1>5. Append(calls, c) \in Seq(S \cup {c})
  OBVIOUS
<1>. QED
  BY <1>2, <1>4, <1>5, CallsFinite

(* A call taken from the queue no longer counts; the others move up by one.  *)
LEMMA CallsTaken ==
  ASSUME NEW S, NEW calls \in Seq(S), calls # <<>>, NEW u, NEW e
  PROVE  /\ Of(Head(calls), u, e) => CallsOf(calls, u, e) = CallsOf(Tail(calls), u, e) + 1
         /\ ~Of(Head(calls), u, e) => CallsOf(calls, u, e) = CallsOf(Tail(calls), u, e)
<1> DEFINE A == CallsAt(calls, u, e)
           B == CallsAt(Tail(calls), u, e)
           f == [n \in B |-> n + 1]
<1>1. /\ Tail(calls) \in Seq(S) /\ Len(calls) \in Nat \ {0}
      /\ DOMAIN calls = 1..Len(calls) /\ DOMAIN Tail(calls) = 1..(Len(calls) - 1)
      /\ \A n \in DOMAIN Tail(calls) : n + 1 \in DOMAIN calls /\ Tail(calls)[n] = calls[n + 1]
      /\ Head(calls) = calls[1]
  OBVIOUS
<1>2. f \in [B -> A \ {1}]
  BY <1>1 DEF CallsAt
<1>3. \A a, b \in B : f[a] = f[b] => a = b
  BY <1>1 DEF CallsAt
<1>4. ASSUME NEW t \in A \ {1} PROVE \E n \in B : f[n] = t
  <2>1. t - 1 \in B
    BY <1>1 DEF CallsAt
  <2>. QED
    BY <1>1, <2>1 DEF CallsAt
<1>. HIDE DEF f
<1>5. f \in Bijection(B, A \ {1})
  BY <1>2, <1>3, <1>4, Fun_IsBij
<1>6. Cardinality(A \ {1}) = Cardinality(B)
  <2>1. ExistsBijection(B, A \ {1})
    BY <1>5, Fun_ExistsBij
  <2>2. IsFiniteSet(B)
    BY <1>1, CallsFinite
  <2>. HIDE DEF A, B
  <2>. QED
    BY <2>1, <2>2, FS_Bijection
<1>7. 1 \in A <=> Of(Head(calls), u, e)
  BY <1>1 DEF CallsAt, Of
<1>8. IsFiniteSet(A) /\ CallsOf(calls, u, e) = Cardinality(A) /\ CallsOf(calls, u, e) \in Nat
  BY CallsFinite
<1>9. CallsOf(Tail(calls), u, e) = Cardinality(B)
  BY <1>1, CallsFinite
<1>. HIDE DEF A, B
<1>10. /\ 1 \in A => Cardinality(A \ {1}) = Cardinality(A) - 1
       /\ 1 \notin A => Cardinality(A \ {1}) = Cardinality(A)
  BY <1>8, FS_RemoveElement
<1>. QED
  BY <1>6, <1>7, <1>8, <1>9, <1>10

\* The calls served: as ServedCalls counts them.
Served(u, e) ==
  {i \in DOMAIN inbound :
    /\ inbound[i].answer = Success \/ (inbound[i].answer # Absent /\ inbound[i].answer.ok)
    /\ inbound[i].command.endpoint = e
    /\ inbound[i].command.consumer = u}

(* They are counted by the calls in that set.                                *)
LEMMA ServedCount ==
  ASSUME NEW u, NEW e
  PROVE  /\ ServedCalls(u, e) = Cardinality(Served(u, e))
         /\ ServedCalls(u, e)' = Cardinality(Served(u, e)')
BY DEF ServedCalls, Served

(* A request closed without success is not served; one closed with it is, for*)
(* its consumer and endpoint.                                                *)
LEMMA UnservedSame ==
  ASSUME RequestInv, NEW i \in Reading, NEW phase, NEW answer, ClosedAs(i, phase, answer),
         answer \in {Absent, Failure}
  PROVE  \A u, e : ServedCalls(u, e)' = ServedCalls(u, e)
<1>1. i \in DOMAIN inbound /\ inbound[i].answer = Absent
  BY DEF Reading, RequestInv
<1>2. ~Failure.ok
  BY DEF Failure
<1>3. \A u, e : Served(u, e)' = Served(u, e)
  BY <1>1, <1>2, RepliesTyped DEF ClosedAs, Served
<1>. QED
  BY <1>3, ServedCount

(* A success adds one served call for its consumer and endpoint, and none    *)
(* for any other.                                                            *)
LEMMA ServedOneMore ==
  ASSUME InboundInv, RequestInv, NEW i \in Reading, NEW answer, ClosedAs(i, "answered", answer),
         answer # Absent, answer.ok = TRUE, NEW u, NEW e
  PROVE  /\ ServedCalls(u, e) \in Nat
         /\ Of(inbound[i].command, u, e) => ServedCalls(u, e)' = ServedCalls(u, e) + 1
         /\ ~Of(inbound[i].command, u, e) => ServedCalls(u, e)' = ServedCalls(u, e)
<1>1. i \in DOMAIN inbound /\ inbound[i].answer = Absent
  BY DEF Reading, RequestInv
<1>2. i \notin Served(u, e)
  BY <1>1, RepliesTyped DEF Served
<1>3. /\ Of(inbound[i].command, u, e) => Served(u, e)' = Served(u, e) \cup {i}
      /\ ~Of(inbound[i].command, u, e) => Served(u, e)' = Served(u, e)
  BY <1>1, <1>2 DEF ClosedAs, Served, Of
<1>4. Served(u, e) \subseteq DOMAIN inbound
  BY DEF Served
<1>5. /\ Cardinality(Served(u, e) \cup {i}) = Cardinality(Served(u, e)) + 1
      /\ Cardinality(Served(u, e)) \in Nat
  BY <1>2, <1>4, RequestsFinite, FS_AddElement
<1>6. ServedCalls(u, e) = Cardinality(Served(u, e)) /\ ServedCalls(u, e)' = Cardinality(Served(u, e)')
  BY ServedCount
<1>. QED
  BY <1>3, <1>5, <1>6

(* A list stays one when more may be in it, and when one more is.            *)
LEMMA ListWidens ==
  ASSUME NEW S, NEW T, NEW calls \in Seq(S)
  PROVE  /\ calls \in Seq(S \cup T) /\ (calls # <<>> => Tail(calls) \in Seq(S \cup T))
         /\ \A c \in T : Append(calls, c) \in Seq(S \cup T)
<1>1. calls \in Seq(S \cup T)
  OBVIOUS
<1>. QED
  BY <1>1

(* What the books of one consumer and endpoint count is numbers.             *)
LEMMA BooksCount ==
  ASSUME NEW S, Listed(S), NEW u, NEW e
  PROVE  /\ CallsOf(usageRecords, u, e) \in Nat /\ CallsOf(billableEvents, u, e) \in Nat
         /\ CallsOf(meteringErrors, u, e) \in Nat /\ CallsOf(microtasks, u, e) \in Nat
         /\ ServedCalls(u, e) \in Nat \/ ~InboundInv
<1>1. InboundInv => ServedCalls(u, e) \in Nat
  <2>1. Served(u, e) \subseteq DOMAIN inbound
    BY DEF Served
  <2>. QED
    BY <2>1, RequestsFinite, ServedCount
<1>. QED
  BY <1>1, CallsFinite DEF Listed

(* Whoever is answered with success is served once and waits once to be      *)
(* metered.                                                                  *)
LEMMA SuccessKeepsMeter ==
  ASSUME InboundInv, RequestInv, MeterInv, NEW i \in Reading, NEW answer, NEW decision,
         Succeed(i, answer, decision), answer # Absent, answer.ok = TRUE,
         UNCHANGED meterVars
  PROVE  MeterInv'
<1>. DEFINE c == inbound[i].command
            call == [consumer |-> c.consumer, endpoint |-> c.endpoint, decision |-> decision]
<1>1. ClosedAs(i, "answered", answer) /\ microtasks' = microtasks \o Metered(c, decision)
  BY ClosingIsAll DEF Succeed, Reading
<1>2. PICK S : Listed(S)
  BY DEF MeterInv
<1>3. ASSUME NEW u \in Consumers, NEW e \in MeteredEndpoints
      PROVE  /\ Of(c, u, e) => ServedCalls(u, e)' = ServedCalls(u, e) + 1
             /\ ~Of(c, u, e) => ServedCalls(u, e)' = ServedCalls(u, e)
  BY <1>1, ServedOneMore
<1>4. CASE c.endpoint \in MeteredEndpoints /\ c.consumer # Absent
  <2>1. Metered(c, decision) = <<call>> /\ \A u, e : Of(call, u, e) <=> Of(c, u, e)
    BY <1>4 DEF Metered, Of
  <2>. HIDE DEF c, call
  <2>2. microtasks' = Append(microtasks, call) /\ microtasks \in Seq(S)
    BY <1>1, <1>2, <2>1 DEF Listed
  <2>4. \E R : Listed(R)'
    <3>1. PICK R : R = S \cup {call}
      OBVIOUS
    <3>2. /\ usageRecords' \in Seq(R) /\ billableEvents' \in Seq(R)
          /\ meteringErrors' \in Seq(R)
      BY <1>2, <3>1, ListWidens DEF Listed, meterVars
    <3>3. microtasks' \in Seq(R)
      BY <2>2, <3>1, ListWidens
    <3>. QED
      BY <3>2, <3>3 DEF Listed
  <2>3. ASSUME NEW u \in Consumers, NEW e \in MeteredEndpoints PROVE Books(u, e)'
    <3>1. /\ Of(c, u, e) => CallsOf(microtasks', u, e) = CallsOf(microtasks, u, e) + 1
          /\ ~Of(c, u, e) => CallsOf(microtasks', u, e) = CallsOf(microtasks, u, e)
      BY <1>2, <2>1, <2>2, CallsAppended DEF Listed
    <3>2. Books(u, e)
      BY DEF MeterInv
    <3>. QED
      BY <1>2, <1>3, <3>1, <3>2, BooksCount DEF Books, Balanced, meterVars
  <2>. QED
    BY <2>3, <2>4 DEF MeterInv
<1>5. CASE ~(c.endpoint \in MeteredEndpoints /\ c.consumer # Absent)
  <2>1. Metered(c, decision) = <<>>
    BY <1>5 DEF Metered
  <2>2. \A u \in Consumers, e \in MeteredEndpoints : ~Of(c, u, e)
    BY <1>5, HostedAssumption DEF Of
  <2>. HIDE DEF c
  <2>3. microtasks' = microtasks
    BY <1>1, <1>2, <2>1 DEF Listed
  <2>. QED
    BY <1>2, <1>3, <2>2, <2>3 DEF MeterInv, Listed, Books, meterVars
<1>. QED
  BY <1>4, <1>5

(* A call may leave the queue in three ways and the books still balance.     *)
LEMMA BooksMove ==
  ASSUME NEW r \in Nat, NEW b \in Nat, NEW l \in Nat, NEW q \in Nat, NEW n \in Nat,
         NEW e, Balanced(r, b, l, q + 1, n, e)
  PROVE  /\ e \in Priced => Balanced(r + 1, b + 1, l, q, n, e)
         /\ e \notin Priced => Balanced(r + 1, b, l, q, n, e)
         /\ Balanced(r, b, l + 1, q, n, e)
         /\ Balanced(r + 1, b, l + 1, q, n, e)
BY DEF Balanced

(* The microtask takes one call from the queue, into the record, the bill or *)
(* the log of errors: the books balance whatever fails.                      *)
LEMMA MeteringKeepsMeter ==
  ASSUME MeterInv, InboundInv, Meter
  PROVE  MeterInv'
<1>1. PICK S : Listed(S)
  BY DEF MeterInv
<1>2. PICK h, b : h = Head(microtasks) /\ b = Charge(h)
  OBVIOUS
<1>3. /\ microtasks # <<>> /\ microtasks' = Tail(microtasks) /\ UNCHANGED inbound
      /\ RecordCall(h) \/ LoseUsage(h) \/ LoseCharge(h)
  BY <1>2 DEF Meter
<1>4. \A u, e : Of(b, u, e) <=> Of(h, u, e)
  BY <1>2 DEF Charge, Of
<1>5. Listed(S \cup {h, b})'
  <2>1. /\ usageRecords' \in {usageRecords, Append(usageRecords, h)}
        /\ billableEvents' \in {billableEvents, Append(billableEvents, b)}
        /\ meteringErrors' \in {meteringErrors, Append(meteringErrors, h)}
    BY <1>2, <1>3 DEF RecordCall, LoseUsage, LoseCharge
  <2>2. microtasks' \in Seq(S \cup {h, b})
    BY <1>1, <1>3, ListWidens DEF Listed
  <2>3. /\ usageRecords' \in Seq(S \cup {h, b}) /\ billableEvents' \in Seq(S \cup {h, b})
        /\ meteringErrors' \in Seq(S \cup {h, b})
    BY <1>1, <2>1, ListWidens DEF Listed
  <2>. QED
    BY <2>2, <2>3 DEF Listed
<1>6. ASSUME NEW u \in Consumers, NEW e \in MeteredEndpoints PROVE Books(u, e)'
  <2>1. Books(u, e) /\ ServedCalls(u, e)' = ServedCalls(u, e)
    BY <1>3 DEF MeterInv, ServedCalls
  <2>2. /\ CallsOf(usageRecords, u, e) \in Nat /\ CallsOf(billableEvents, u, e) \in Nat
        /\ CallsOf(meteringErrors, u, e) \in Nat /\ CallsOf(microtasks', u, e) \in Nat
        /\ ServedCalls(u, e) \in Nat
    BY <1>1, <1>5, BooksCount, CallsFinite DEF Listed
  <2>3. /\ Of(h, u, e) => CallsOf(microtasks, u, e) = CallsOf(microtasks', u, e) + 1
        /\ ~Of(h, u, e) => CallsOf(microtasks, u, e) = CallsOf(microtasks', u, e)
    BY <1>1, <1>2, <1>3, CallsTaken DEF Listed
  <2> DEFINE r == CallsOf(usageRecords, u, e)
             b0 == CallsOf(billableEvents, u, e)
             l == CallsOf(meteringErrors, u, e)
             q == CallsOf(microtasks', u, e)
             n == ServedCalls(u, e)
  <2>4. Of(h, u, e) => /\ e \in Priced => Balanced(r + 1, b0 + 1, l, q, n, e)
                       /\ e \notin Priced => Balanced(r + 1, b0, l, q, n, e)
                       /\ Balanced(r, b0, l + 1, q, n, e)
                       /\ Balanced(r + 1, b0, l + 1, q, n, e)
    BY <2>1, <2>2, <2>3, BooksMove DEF Books
  <2>5. ASSUME NEW calls \in Seq(S)
        PROVE  /\ Of(h, u, e) => /\ CallsOf(Append(calls, h), u, e) = CallsOf(calls, u, e) + 1
                                 /\ CallsOf(Append(calls, b), u, e) = CallsOf(calls, u, e) + 1
               /\ ~Of(h, u, e) => /\ CallsOf(Append(calls, h), u, e) = CallsOf(calls, u, e)
                                  /\ CallsOf(Append(calls, b), u, e) = CallsOf(calls, u, e)
    BY <1>4, CallsAppended
  <2>6. CASE RecordCall(h)
    <3>1. /\ usageRecords' = Append(usageRecords, h) /\ meteringErrors' = meteringErrors
          /\ h.endpoint \in Priced => billableEvents' = Append(billableEvents, b)
          /\ h.endpoint \notin Priced => billableEvents' = billableEvents
      BY <1>2, <2>6 DEF RecordCall
    <3>2. Of(h, u, e) => h.endpoint = e
      BY DEF Of
    <3>3. usageRecords \in Seq(S) /\ billableEvents \in Seq(S)
      BY <1>1 DEF Listed
    <3>4. CASE Of(h, u, e)
      <4>1. CallsOf(usageRecords', u, e) = CallsOf(usageRecords, u, e) + 1
        BY <2>5, <3>1, <3>3, <3>4
      <4>2. /\ e \in Priced => CallsOf(billableEvents', u, e) = CallsOf(billableEvents, u, e) + 1
            /\ e \notin Priced => CallsOf(billableEvents', u, e) = CallsOf(billableEvents, u, e)
        BY <2>5, <3>1, <3>2, <3>3, <3>4
      <4>. QED
        BY <2>1, <2>4, <3>1, <3>4, <4>1, <4>2 DEF Books, Balanced
    <3>5. CASE ~Of(h, u, e)
      <4>1. /\ CallsOf(usageRecords', u, e) = CallsOf(usageRecords, u, e)
            /\ CallsOf(billableEvents', u, e) = CallsOf(billableEvents, u, e)
        BY <2>5, <3>1, <3>3, <3>5
      <4>. QED
        BY <2>1, <2>2, <2>3, <3>1, <3>5, <4>1 DEF Books, Balanced
    <3>. QED
      BY <3>4, <3>5
  <2>7. CASE LoseUsage(h)
    <3>1. /\ meteringErrors' = Append(meteringErrors, h) /\ meteringErrors \in Seq(S)
          /\ UNCHANGED <<usageRecords, billableEvents>>
      BY <1>1, <2>7 DEF LoseUsage, Listed
    <3>2. /\ Of(h, u, e) => CallsOf(meteringErrors', u, e) = CallsOf(meteringErrors, u, e) + 1
          /\ ~Of(h, u, e) => CallsOf(meteringErrors', u, e) = CallsOf(meteringErrors, u, e)
      BY <2>5, <3>1
    <3>. QED
      <4>1. CASE Of(h, u, e)
        BY <2>1, <2>4, <3>1, <3>2, <4>1 DEF Books, Balanced
      <4>2. CASE ~Of(h, u, e)
        BY <2>1, <2>3, <3>1, <3>2, <4>2 DEF Books
      <4>. QED
        BY <4>1, <4>2
  <2>8. CASE LoseCharge(h)
    <3>1. /\ usageRecords' = Append(usageRecords, h) /\ usageRecords \in Seq(S)
          /\ meteringErrors' = Append(meteringErrors, h) /\ meteringErrors \in Seq(S)
          /\ UNCHANGED billableEvents
      BY <1>1, <2>8 DEF LoseCharge, Listed
    <3>2. CASE Of(h, u, e)
      <4>1. /\ CallsOf(usageRecords', u, e) = CallsOf(usageRecords, u, e) + 1
            /\ CallsOf(meteringErrors', u, e) = CallsOf(meteringErrors, u, e) + 1
        BY <2>5, <3>1, <3>2
      <4>. QED
        BY <2>1, <2>4, <3>1, <3>2, <4>1 DEF Books, Balanced
    <3>3. CASE ~Of(h, u, e)
      <4>1. /\ CallsOf(usageRecords', u, e) = CallsOf(usageRecords, u, e)
            /\ CallsOf(meteringErrors', u, e) = CallsOf(meteringErrors, u, e)
        BY <2>5, <3>1, <3>3
      <4>. QED
        BY <2>1, <2>2, <2>3, <3>1, <3>3, <4>1 DEF Books, Balanced
    <3>. QED
      BY <3>2, <3>3
  <2>. QED
    BY <1>3, <2>6, <2>7, <2>8
<1>. QED
  BY <1>5, <1>6 DEF MeterInv

(* Nothing else touches the record, the bill or the queue.                   *)
LEMMA MeterStep ==
  InboundInv /\ RequestInv /\ PayoutInv /\ MeterInv /\ [Next]_vars => MeterInv'
<1>. SUFFICES ASSUME InboundInv, RequestInv, PayoutInv, MeterInv, [Next]_vars PROVE MeterInv'
  OBVIOUS
<1>1. ASSUME UNCHANGED <<microtasks, meterVars>>,
             \A u, e : ServedCalls(u, e)' = ServedCalls(u, e)
      PROVE  MeterInv'
  BY <1>1 DEF MeterInv, Listed, Books, meterVars
<1>2. ASSUME NEW call \in workload.calls, Arrive(call) PROVE MeterInv'
  <2>1. ArrivedAs(Len(inbound) + 1, call) /\ UNCHANGED <<microtasks, meterVars>>
    BY <1>2, ArrivingIsAll DEF Arrive
  <2>2. \A u, e : Served(u, e)' = Served(u, e)
    BY <2>1, RepliesTyped DEF ArrivedAs, Served
  <2>. QED
    BY <1>1, <2>1, <2>2, ServedCount
<1>3. ASSUME NEW i \in DOMAIN inbound, Proceed(i) PROVE MeterInv'
  <2>1. i \in Reading /\ UNCHANGED meterVars
    BY <1>3, ProceedIsOne
  <2>2. Success.ok = TRUE /\ \A result : PayoutAnswer(result).ok = TRUE
    BY DEF Success, PayoutAnswer
  <2>3. CASE TurnedAway(i) \/ Failed(i)
    <3>1. PICK phase, answer : answer \in {Absent, Failure} /\ Close(i, phase, answer)
      BY <2>3 DEF TurnedAway, Failed, Fail
    <3>2. UNCHANGED microtasks
      BY <2>3 DEF TurnedAway, Failed, Fail
    <3>. QED
      BY <1>1, <2>1, <3>1, <3>2, ClosingIsAll, UnservedSame
  <2>4. CASE Succeeded(i) \/ Reported(i)
    BY <2>1, <2>2, <2>4, RepliesTyped, SuccessKeepsMeter DEF Succeeded, Reported
  <2>5. CASE ServePayout(i)
    <3>1. PICK w \in Withdrawals, v \in {"NOT_FOUND", "EXPIRED", "CONSENT_REQUIRED", "VERIFIED"} :
            PayoutCase(i, w, v)
      BY <2>5, PayoutIsOne
    <3>2. ASSUME NEW result \in PayoutResult PROVE PayoutAnswer(result) # Absent
      <4>1. PayoutAnswer(result) \in Reply
        BY DEF PayoutAnswer, Reply, Optional
      <4>. QED
        BY <4>1, RepliesTyped
    <3>3. CASE ReplayPayout(i, w)
      <4>1. idempotentResults[w] \in PayoutResult
        BY <3>3 DEF ReplayPayout, PayoutInv, Optional
      <4>. QED
        BY <2>1, <2>2, <3>2, <3>3, <4>1, SuccessKeepsMeter DEF ReplayPayout
    <3>4. CASE DecidePayout(i, w, v)
      BY <2>1, <2>2, <3>2, <3>4, ResultTyped, SuccessKeepsMeter DEF DecidePayout
    <3>5. CASE BreakPayout(i, w, v)
      BY <1>1, <2>1, <3>5, ClosingIsAll, UnservedSame DEF BreakPayout, Fail
    <3>. QED
      BY <3>1, <3>3, <3>4, <3>5 DEF PayoutCase
  <2>. QED
    BY <1>3, <2>3, <2>4, <2>5, ProceedIsOne
<1>4. CASE Meter
  BY <1>4, MeteringKeepsMeter
<1>5. CASE Tick \/ UNCHANGED vars
  BY <1>1, <1>5 DEF Tick, vars, hostVars, meterVars, ServedCalls
<1>. QED
  BY <1>2, <1>3, <1>4, <1>5 DEF Next

-----------------------------------------------------------------------------
HostedInv == InboundInv /\ RequestInv /\ TrustInv /\ RateInv /\ PayoutInv /\ AttemptInv /\ MeterInv

(* All of it is kept by every step of the server.                            *)
LEMMA HostedInvariant == Spec => []HostedInv
<1>1. Init => HostedInv
  BY InboundInit, HostedInit DEF HostedInv
<1>2. HostedInv /\ [Next]_vars => HostedInv'
  BY InboundStep, RequestStep, TrustStep, RateStep, PayoutStep, AttemptStep, MeterStep
     DEF HostedInv
<1>. QED
  BY <1>1, <1>2, PTL DEF Spec

(* Type correctness of the server and what it keeps.                         *)
THEOREM HostedTypeCorrect == Spec => []TypeOK
<1>1. HostedInv /\ CPTypeOK => TypeOK
  BY DEF HostedInv, InboundInv, RequestInv, TrustInv, RateInv, RateOf, PayoutInv, TypeOK
<1>2. Spec => []CPTypeOK
  BY ImplementsControlPlane, StoresTyped, PTL
<1>. QED
  BY <1>1, <1>2, HostedInvariant, PTL

(* However a key's requests are timed, any stretch as long as a window lets  *)
(* through at most twice its limit.                                          *)
THEOREM LimiterBounds == Spec => []AtMostTwoWindows
<1>1. HostedInv => AtMostTwoWindows
  <2>. SUFFICES ASSUME HostedInv, NEW k \in ApiKeys, NEW t \in 0..workload.until
                PROVE  Cardinality(Stretch(k, t)) <= 2 * Limit[Tier[k]]
    BY DEF AtMostTwoWindows, Stretch, Through
  <2>1. t \in Nat
    BY HostedAssumption DEF HostedInv, RequestInv
  <2>. QED
    BY <2>1 DEF HostedInv, RateInv, RateOf
<1>. QED
  BY <1>1, HostedInvariant, PTL

(* However often a withdrawal is sent and however often the adapter fails    *)
(* first, it comes to one result, which every answer quotes.                 *)
THEOREM PayoutsComeToOneResult == Spec => []PayoutsConverge
<1>1. HostedInv => PayoutsConverge
  <2>. SUFFICES ASSUME HostedInv, NEW w \in Withdrawals
                PROVE  /\ Cardinality(Entries("RESULT", w)) <= 1
                       /\ \A i \in DOMAIN inbound :
                            (/\ inbound[i].answer # Absent
                             /\ inbound[i].answer.payout # Absent
                             /\ inbound[i].command.withdrawal = w) =>
                              \E n \in Entries("RESULT", w) :
                                inbound[i].answer.payout.reason = payoutAudit[n].reason
    BY DEF PayoutsConverge
  <2>1. CASE idempotentResults[w] = Absent
    <3>1. Cardinality(Entries("RESULT", w)) = 0
      BY <2>1, FS_EmptySet DEF HostedInv, PayoutInv
    <3>. QED
      BY <2>1, <3>1 DEF HostedInv, PayoutInv
  <2>2. CASE idempotentResults[w] # Absent
    <3>1. PICK n \in DOMAIN payoutAudit :
            Entries("RESULT", w) = {n} /\ payoutAudit[n].reason = idempotentResults[w].reason
      BY <2>2 DEF HostedInv, PayoutInv, Settled
    <3>2. Cardinality(Entries("RESULT", w)) = 1
      BY <3>1, FS_Singleton
    <3>. QED
      BY <3>1, <3>2 DEF HostedInv, PayoutInv
  <2>. QED
    BY <2>1, <2>2
<1>. QED
  BY <1>1, HostedInvariant, PTL

(* Every attempt the executor started is in its trail: with a result, or     *)
(* broken and answered so.                                                   *)
THEOREM AttemptsAreAudited == Spec => []AttemptsAudited
<1>1. HostedInv => AttemptsAudited
  <2>. SUFFICES ASSUME HostedInv, NEW w \in Withdrawals
                PROVE  Cardinality(Entries("REQUESTED", w)) - Cardinality(Entries("RESULT", w)) =
                         Cardinality(Broken(w))
    BY DEF AttemptsAudited, Broken
  <2>1. /\ Cardinality(Entries("RESULT", w)) \in Nat
        /\ Cardinality(Entries("REQUESTED", w)) =
             Cardinality(Entries("RESULT", w)) + Cardinality(Broken(w))
    BY EntriesFinite DEF HostedInv, AttemptInv
  <2>2. Cardinality(Broken(w)) \in Nat
    BY RequestsFinite DEF HostedInv, Broken
  <2>. QED
    BY <2>1, <2>2
<1>. QED
  BY <1>1, HostedInvariant, PTL

(* A call is metered once, and only if it was served, and the bill stays     *)
(* within the usage, at every moment between answer and microtask.           *)
THEOREM CallsMeteredOnce == Spec => []MeteredOnce
<1>1. HostedInv => MeteredOnce
  BY DEF HostedInv, MeterInv, Books, Balanced, MeteredOnce
<1>. QED
  BY <1>1, HostedInvariant, PTL

(* What a failing metering drops from the usage or the bill is in the log,   *)
(* and nothing on the bill is.                                               *)
THEOREM ShortfallsAreReported == Spec => []ShortfallsReported
<1>1. HostedInv => ShortfallsReported
  BY DEF HostedInv, MeterInv, Books, Balanced, ShortfallsReported
<1>. QED
  BY <1>1, HostedInvariant, PTL
=============================================================================
