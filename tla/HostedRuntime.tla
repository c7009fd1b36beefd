---------------------------- MODULE HostedRuntime ----------------------------
(***************************************************************************)
(* The hosted runtime: the HTTP server in front of the control plane, the   *)
(* trust service, the data access service and the payout executor.          *)
(*                                                                         *)
(* A request is authenticated and counted against its key's rate limit when *)
(* it arrives, then waits for its body; when the body is whole the route    *)
(* runs to its end and the answer is sent.  Requests therefore overlap only *)
(* between arrival and service, and are served in any order.  Metering runs *)
(* later, in a microtask of its own, and may fail there, after the answer.  *)
(* A client that loses an answer sends the command again, so the same       *)
(* command may arrive any number of times.                                  *)
(***************************************************************************)
EXTENDS ControlPlane, FiniteSets

CONSTANTS
  Consumers, Withdrawals,       \* who uses data and payouts, ids of payouts
  CredentialRefs, ConsentIds,   \* identifiers in the trust service
  KycLevels,                    \* the levels each active issuer attests; the trust
                                \* service knows issuers from its start only
  Priced,                       \* endpoints the pricing registry has a rule for
  ApiKeys, Tier,                \* the keys the server knows and their tiers
  Limit,                        \* requests of a tier per window
  WindowLength,                 \* length of a rate window, in ticks of the clock
  TokenLife,                    \* life of a data access token, in ticks
  Workloads                     \* what clients do: [calls, requests, reading, until]
                                \*   calls: the [apiKey, command, body] they send
                                \*   requests, reading, until: bounds on how many
                                \*   they send, how many bodies are awaited at
                                \*   once, and the clock

\* What the routes of the control plane check of a body before they use it.
Validated(command) ==
  CASE command.endpoint = "/access/request" ->
         command.subject \in Subjects /\ command.requester \in Requesters
    [] command.endpoint = "/access/request/decision" ->
         /\ command.request \in Nat /\ command.subject \in Subjects
         /\ command.decision \in {"approve", "deny"}
    [] command.endpoint = "/access/grant/revoke" -> command.revoke \in RevokeCommand
    [] OTHER -> TRUE

\* The other routes hand the body on as its type says it is; what commands name
\* is among the names there are.
Named(command) ==
  CASE command.endpoint = "/payout/execute" -> command.withdrawal \in Withdrawals
    [] command.endpoint = "/trust/credential/register" ->
         command.credential.ref \in CredentialRefs
    [] command.endpoint = "/trust/consent/grant" ->
         command.consent \in ConsentIds /\ command.consumer \in Consumers
    [] OTHER -> TRUE

Window == [count: Nat, resetAt: Nat]
PayoutResult ==
  [allowed: BOOLEAN, reason: {"NOT_FOUND", "EXPIRED", "CONSENT_REQUIRED", "VERIFIED"}]
Reply == [ok: BOOLEAN, payout: Optional(PayoutResult)]

ASSUME HostedAssumption ==
  /\ Tier \in [ApiKeys -> DOMAIN Limit]
  /\ \A t \in DOMAIN Limit : Limit[t] \in Nat \ {0}
  /\ WindowLength \in Nat \ {0} /\ TokenLife \in Nat
  /\ Absent \notin DOMAIN KycLevels
  /\ \A w \in Workloads :
       /\ {w.requests, w.reading, w.until} \subseteq Nat
       /\ \A call \in w.calls :
            /\ call.apiKey \in ApiKeys
            /\ Validated(call.command) /\ Named(call.command)
  /\ Absent \notin Consumers \cup PayoutResult
  /\ Absent \notin Window /\ Absent \notin Reply

VARIABLES
  workload,          \* what the clients of this behaviour do
  now,               \* the server's clock
  windows,           \* by API key: the rate window's count and end
  inbound,           \* requests by order of arrival
  credentials,       \* trust service: credentials in order of registration
  consents,          \* trust service: by consent id
  accessTokens,      \* tokens the data access service handed out
  idempotentResults, \* payout executor: by withdrawal id
  payoutAudit,       \* payout executor: its audit trail
  microtasks,        \* calls served and not yet metered, in order
  usageRecords, billableEvents,
  meteringErrors     \* the log's USAGE_METERING_ERROR entries, as the calls of
                     \* the requests they name

trustVars == <<credentials, consents>>
payoutVars == <<idempotentResults, payoutAudit>>
meterVars == <<usageRecords, billableEvents, meteringErrors>>
hostVars == <<workload, now, windows, inbound, credentials, consents,
              accessTokens, idempotentResults, payoutAudit, microtasks,
              usageRecords, billableEvents, meteringErrors>>
vars == <<cpVars, hostVars>>

MeteredEndpoints == {"/data/access", "/payout/execute", "/trust/verify"}
GuardedEndpoints == {"/data/access", "/payout/execute"}

Phases == {"limited", "reading", "malformed", "forbidden", "answered"}

Init ==
  /\ CPInit
  /\ workload \in Workloads
  /\ now = 0
  /\ windows = [k \in ApiKeys |-> Absent]
  /\ inbound = <<>>
  /\ credentials = <<>>
  /\ consents = [c \in ConsentIds |-> Absent]
  /\ accessTokens = <<>>
  /\ idempotentResults = [w \in Withdrawals |-> Absent]
  /\ payoutAudit = <<>>
  /\ microtasks = <<>>
  /\ usageRecords = <<>> /\ billableEvents = <<>> /\ meteringErrors = <<>>

-----------------------------------------------------------------------------
\* The rate limiter: a fixed window per API key that opens with a request.
WindowOver(apiKey) ==
  windows[apiKey] = Absent \/ now >= windows[apiKey].resetAt

\* Mutation: one request too many.
MutWithinLimit(apiKey) ==
  WindowOver(apiKey) \/ windows[apiKey].count <= Limit[Tier[apiKey]]

WithinLimit(apiKey) ==
  WindowOver(apiKey) \/ windows[apiKey].count < Limit[Tier[apiKey]]

\* Mutation: the request that opens a window is not counted in it.
MutCounted(apiKey) ==
  IF WindowOver(apiKey)
  THEN [count |-> 0, resetAt |-> now + WindowLength]
  ELSE [windows[apiKey] EXCEPT !.count = @ + 1]

Counted(apiKey) ==
  IF WindowOver(apiKey)
  THEN [count |-> 1, resetAt |-> now + WindowLength]
  ELSE [windows[apiKey] EXCEPT !.count = @ + 1]

Reading == {i \in DOMAIN inbound : inbound[i].phase = "reading"}

Arrive(call) ==
  /\ Len(inbound) < workload.requests
  /\ Cardinality(Reading) < workload.reading
  /\ LET within == WithinLimit(call.apiKey)
     IN /\ windows' = IF within
                      THEN [windows EXCEPT ![call.apiKey] = Counted(call.apiKey)]
                      ELSE windows
        /\ inbound' = Append(inbound,
             [apiKey |-> call.apiKey, command |-> call.command, body |-> call.body,
              at |-> now, phase |-> IF within THEN "reading" ELSE "limited",
              answer |-> Absent])
  /\ UNCHANGED <<cpVars, workload, now, trustVars, accessTokens, payoutVars,
                 microtasks, meterVars>>

Close(i, phase, answer) ==
  inbound' = [inbound EXCEPT ![i].phase = phase, ![i].answer = answer]

\* The client broke off, or sent something that is not JSON: REQUEST_PARSE_ERROR.
RefuseBody(i) ==
  /\ i \in Reading /\ inbound[i].body = "broken"
  /\ Close(i, "malformed", Absent)
  /\ UNCHANGED <<cpVars, workload, now, windows, trustVars, accessTokens,
                 payoutVars, microtasks, meterVars>>

Ready(i) == i \in Reading /\ inbound[i].body = "whole"

\* What enforceCapabilityAccess says of the token is left open: it may refuse.
RefuseCapability(i) ==
  /\ Ready(i) /\ inbound[i].command.endpoint \in GuardedEndpoints
  /\ Close(i, "forbidden", Absent)
  /\ UNCHANGED <<cpVars, workload, now, windows, trustVars, accessTokens,
                 payoutVars, microtasks, meterVars>>

-----------------------------------------------------------------------------
\* The trust service.  No operation revokes a credential or a consent or makes
\* an issuer inactive, and a credential is only taken from an active issuer: the
\* refusals ISSUER_INACTIVE and REVOKED of a verification cannot be reached.
Active(issuer) == issuer \in DOMAIN KycLevels

Attests(issuer, level) == Active(issuer) /\ level \in KycLevels[issuer]

\* A query may name the issuer whose credentials are to count.
Candidates(query) ==
  {n \in DOMAIN credentials :
     /\ credentials[n].subject = query.subject
     /\ query.issuer = Absent \/ credentials[n].issuer = query.issuer}

\* The newest credential; of two issued at once, the one registered first.
Latest(query) ==
  CHOOSE n \in Candidates(query) : \A m \in Candidates(query) :
    \/ credentials[n].issuedAt > credentials[m].issuedAt
    \/ credentials[n].issuedAt = credentials[m].issuedAt /\ n <= m

Expired(credential, at) == credential.expiresAt # Absent /\ credential.expiresAt <= at

\* A consent counts if it came through the issuer of the credential.
Consented(query, credential) ==
  \E c \in ConsentIds :
    consents[c] = [subject |-> query.subject, consumer |-> query.consumer,
                   issuer |-> credential.issuer]

Verification(query, at) ==
  IF Candidates(query) = {} THEN "NOT_FOUND"
  ELSE LET latest == credentials[Latest(query)]
       IN IF Expired(latest, at) THEN "EXPIRED"
          ELSE IF query.consumer # Absent /\ ~Consented(query, latest)
               THEN "CONSENT_REQUIRED"
               ELSE "VERIFIED"

\* Verification and data access take the body's own clock, if it gives one.
Instant(query) == IF query.now = Absent THEN now ELSE query.now

\* A credential registered again under its reference keeps its place.
WithCredential(credential) ==
  IF \E n \in DOMAIN credentials : credentials[n].ref = credential.ref
  THEN [n \in DOMAIN credentials |->
          IF credentials[n].ref = credential.ref THEN credential ELSE credentials[n]]
  ELSE Append(credentials, credential)

-----------------------------------------------------------------------------
Success == [ok |-> TRUE, payout |-> Absent]
Failure == [ok |-> FALSE, payout |-> Absent]

Metered(command, decision) ==
  IF command.endpoint \in MeteredEndpoints /\ command.consumer # Absent
  THEN <<[consumer |-> command.consumer, endpoint |-> command.endpoint,
          decision |-> decision]>>
  ELSE <<>>

\* The route succeeded: the answer is sent and the call left to be metered.
Succeed(i, answer, decision) ==
  /\ Close(i, "answered", answer)
  /\ microtasks' = microtasks \o Metered(inbound[i].command, decision)

\* Mutation: a failed call is metered like a served one.
MutFail(i) ==
  /\ Close(i, "answered", Failure)
  /\ microtasks' = microtasks \o Metered(inbound[i].command, "deny")

\* The route refused or threw: an error is answered and nothing metered.
Fail(i) == Close(i, "answered", Failure) /\ UNCHANGED microtasks

Is(i, endpoint) == Ready(i) /\ inbound[i].command.endpoint = endpoint

ServeAccessRequest(i) ==
  /\ Is(i, "/access/request")
  /\ CreateAccessRequest(inbound[i].command.subject, inbound[i].command.requester)
  /\ Succeed(i, Success, "allow")
  /\ UNCHANGED <<workload, now, windows, trustVars, accessTokens, payoutVars, meterVars>>

ServeDecision(i) ==
  /\ Is(i, "/access/request/decision")
  /\ LET c == inbound[i].command
     IN \/ DecideAccessRequest(c.request, c.subject, c.decision) /\ Succeed(i, Success, "allow")
        \/ RefuseDecision(c.request, c.subject) /\ Fail(i)
  /\ UNCHANGED <<workload, now, windows, trustVars, accessTokens, payoutVars, meterVars>>

ServeRevocation(i) ==
  /\ Is(i, "/access/grant/revoke")
  /\ LET c == inbound[i].command.revoke
     IN \/ /\ ReplayRevocation(c) \/ RepeatRevocation(c) \/ CompleteRevocation(c, now)
           /\ Succeed(i, Success, "allow")
        \/ (RefuseKey(c) \/ RefuseRevocation(c)) /\ Fail(i)
  /\ UNCHANGED <<workload, now, windows, trustVars, accessTokens, payoutVars, meterVars>>

ServeRegistration(i) ==
  /\ Is(i, "/trust/credential/register")
  /\ LET credential == inbound[i].command.credential
         attested == Attests(credential.issuer, credential.level)
     IN \/ /\ attested
           /\ credentials' = WithCredential(credential)
           /\ Succeed(i, Success, "allow")
        \/ ~attested /\ Fail(i) /\ UNCHANGED credentials
  /\ UNCHANGED <<cpVars, workload, now, windows, consents, accessTokens,
                 payoutVars, meterVars>>

ServeConsent(i) ==
  /\ Is(i, "/trust/consent/grant")
  /\ LET c == inbound[i].command
     IN \/ /\ Active(c.issuer)
           /\ consents' = [consents EXCEPT ![c.consent] =
                [subject |-> c.subject, consumer |-> c.consumer, issuer |-> c.issuer]]
           /\ Succeed(i, Success, "allow")
        \/ ~Active(c.issuer) /\ Fail(i) /\ UNCHANGED consents
  /\ UNCHANGED <<cpVars, workload, now, windows, credentials, accessTokens,
                 payoutVars, meterVars>>

DecisionOf(verified) == IF verified THEN "allow" ELSE "deny"

ServeVerification(i) ==
  /\ Is(i, "/trust/verify")
  /\ LET c == inbound[i].command
     IN Succeed(i, Success, DecisionOf(Verification(c, Instant(c)) = "VERIFIED"))
  /\ UNCHANGED <<cpVars, workload, now, windows, trustVars, accessTokens,
                 payoutVars, meterVars>>

ServeDataAccess(i) ==
  /\ Is(i, "/data/access")
  /\ LET c == inbound[i].command
         query == [subject |-> c.subject, consumer |-> c.consumer, issuer |-> Absent]
         verified == Verification(query, Instant(c)) = "VERIFIED"
     IN /\ accessTokens' = IF verified
                           THEN Append(accessTokens, [subject |-> c.subject,
                                  consumer |-> c.consumer, expiresAt |-> Instant(c) + TokenLife])
                           ELSE accessTokens
        /\ Succeed(i, Success, DecisionOf(verified))
  /\ UNCHANGED <<cpVars, workload, now, windows, trustVars, payoutVars, meterVars>>

-----------------------------------------------------------------------------
PayoutAnswer(result) == [ok |-> TRUE, payout |-> result]

AuditEntry(event, withdrawal, reason) ==
  [event |-> event, withdrawal |-> withdrawal, reason |-> reason]

ReplayPayout(i, withdrawal) ==
  /\ idempotentResults[withdrawal] # Absent
  /\ Succeed(i, PayoutAnswer(idempotentResults[withdrawal]),
             DecisionOf(idempotentResults[withdrawal].allowed))
  /\ UNCHANGED payoutVars

\* Mutation: only a payout that went through is kept.
MutDecidePayout(i, withdrawal, verification) ==
  /\ idempotentResults[withdrawal] = Absent
  /\ LET result == [allowed |-> verification = "VERIFIED", reason |-> verification]
     IN /\ idempotentResults' = IF result.allowed
             THEN [idempotentResults EXCEPT ![withdrawal] = result]
             ELSE idempotentResults
        /\ payoutAudit' = payoutAudit \o
             <<AuditEntry("REQUESTED", withdrawal, "RECEIVED"),
               AuditEntry("RESULT", withdrawal, verification)>>
        /\ Succeed(i, PayoutAnswer(result), DecisionOf(result.allowed))

\* The first answer for a withdrawal is kept for good, a refusal included.
DecidePayout(i, withdrawal, verification) ==
  /\ idempotentResults[withdrawal] = Absent
  /\ LET result == [allowed |-> verification = "VERIFIED", reason |-> verification]
     IN /\ idempotentResults' = [idempotentResults EXCEPT ![withdrawal] = result]
        /\ payoutAudit' = payoutAudit \o
             <<AuditEntry("REQUESTED", withdrawal, "RECEIVED"),
               AuditEntry("RESULT", withdrawal, verification)>>
        /\ Succeed(i, PayoutAnswer(result), DecisionOf(result.allowed))

\* Mutation: the request is written to the trail only with its result.
MutBreakPayout(i, withdrawal, verification) ==
  /\ idempotentResults[withdrawal] = Absent /\ verification = "VERIFIED"
  /\ Fail(i)
  /\ UNCHANGED payoutVars

\* The payout adapter throws: EXECUTION_ERROR, and nothing is kept.
BreakPayout(i, withdrawal, verification) ==
  /\ idempotentResults[withdrawal] = Absent /\ verification = "VERIFIED"
  /\ payoutAudit' = Append(payoutAudit, AuditEntry("REQUESTED", withdrawal, "RECEIVED"))
  /\ Fail(i)
  /\ UNCHANGED idempotentResults

ServePayout(i) ==
  /\ Is(i, "/payout/execute")
  /\ LET c == inbound[i].command
         verification == Verification(c, now)
     IN \/ ReplayPayout(i, c.withdrawal)
        \/ DecidePayout(i, c.withdrawal, verification)
        \/ BreakPayout(i, c.withdrawal, verification)
  /\ UNCHANGED <<cpVars, workload, now, windows, trustVars, accessTokens, meterVars>>

\* The provider's report names its own payout and no withdrawal.
CallbackEntry(payout) == [event |-> "CALLBACK", payout |-> payout, reason |-> "RECEIVED"]

ServePayoutCallback(i) ==
  /\ Is(i, "/payout/callback")
  /\ payoutAudit' = Append(payoutAudit, CallbackEntry(inbound[i].command.payout))
  /\ Succeed(i, Success, "allow")
  /\ UNCHANGED <<cpVars, workload, now, windows, trustVars, accessTokens,
                 idempotentResults, meterVars>>

Serve(i) ==
  \/ ServeAccessRequest(i) \/ ServeDecision(i) \/ ServeRevocation(i)
  \/ ServeRegistration(i) \/ ServeConsent(i) \/ ServeVerification(i)
  \/ ServeDataAccess(i) \/ ServePayout(i) \/ ServePayoutCallback(i)

-----------------------------------------------------------------------------
\* The microtask of one call.  The services of the core may throw: what was
\* written stays, what comes after is skipped, and the error is only logged.
Charge(call) == [consumer |-> call.consumer, endpoint |-> call.endpoint]

\* The usage record, then the billable event if the endpoint has a price.
RecordCall(call) ==
  /\ usageRecords' = Append(usageRecords, call)
  /\ billableEvents' = IF call.endpoint \in Priced
                       THEN Append(billableEvents, Charge(call))
                       ELSE billableEvents
  /\ UNCHANGED meteringErrors

\* recordUsage throws.
LoseUsage(call) ==
  /\ meteringErrors' = Append(meteringErrors, call)
  /\ UNCHANGED <<usageRecords, billableEvents>>

\* Mutation: only a failure of the usage record is reported.
MutLoseCharge(call) ==
  /\ usageRecords' = Append(usageRecords, call)
  /\ UNCHANGED <<billableEvents, meteringErrors>>

\* recordUsageAsBillable throws.
LoseCharge(call) ==
  /\ usageRecords' = Append(usageRecords, call)
  /\ meteringErrors' = Append(meteringErrors, call)
  /\ UNCHANGED billableEvents

Meter ==
  /\ microtasks # <<>>
  /\ microtasks' = Tail(microtasks)
  /\ LET call == Head(microtasks)
     IN RecordCall(call) \/ LoseUsage(call) \/ LoseCharge(call)
  /\ UNCHANGED <<cpVars, workload, now, windows, inbound, trustVars,
                 accessTokens, payoutVars>>

Tick ==
  /\ now < workload.until
  /\ now' = now + 1
  /\ UNCHANGED <<cpVars, workload, windows, inbound, trustVars, accessTokens,
                 payoutVars, microtasks, meterVars>>

\* What the server does with a request it is reading.
Proceed(i) == RefuseBody(i) \/ RefuseCapability(i) \/ Serve(i)

Next ==
  \/ \E call \in workload.calls : Arrive(call)
  \/ \E i \in DOMAIN inbound : Proceed(i)
  \/ Meter
  \/ Tick

MaxRequests == CHOOSE n \in {w.requests : w \in Workloads} :
                 \A w \in Workloads : n >= w.requests

\* The event loop takes up every request whose body has ended (Node ends a body
\* that never comes by its request timeout).
Fairness ==
  \A i \in 1..MaxRequests : WF_vars(i \in DOMAIN inbound /\ Proceed(i))

Spec == Init /\ [][Next]_vars /\ Fairness

-----------------------------------------------------------------------------
TypeOK ==
  /\ CPTypeOK
  /\ workload \in Workloads /\ now \in 0..workload.until
  /\ \A k \in ApiKeys : windows[k] # Absent =>
       windows[k] \in Window /\ windows[k].count \in 1..Limit[Tier[k]]
  /\ \A i \in DOMAIN inbound :
       /\ inbound[i].phase \in Phases /\ inbound[i].at \in 0..now
       /\ inbound[i].answer \in Optional(Reply)
       /\ inbound[i].phase = "answered" <=> inbound[i].answer # Absent
  /\ idempotentResults \in [Withdrawals -> Optional(PayoutResult)]
  /\ \A c \in ConsentIds : consents[c] # Absent => consents[c].consumer \in Consumers
  /\ \A n \in DOMAIN credentials : credentials[n].ref \in CredentialRefs

\* The promise of the limiter's refusal ("Limit=n/min") as far as a fixed window
\* can keep it: any stretch as long as a window meets at most two windows, so a
\* key gets at most twice its limit through, however its requests are timed.
AtMostTwoWindows ==
  \A k \in ApiKeys, t \in 0..workload.until :
    Cardinality({i \in DOMAIN inbound :
      /\ inbound[i].apiKey = k /\ inbound[i].phase # "limited"
      /\ inbound[i].at \in t..(t + WindowLength - 1)}) <= 2 * Limit[Tier[k]]

Entries(event, withdrawal) ==
  {n \in DOMAIN payoutAudit :
     payoutAudit[n].event = event /\ payoutAudit[n].withdrawal = withdrawal}

\* However often a withdrawal is sent, with whatever subject, and however often
\* the adapter fails first, it comes to one result: the audit trail records it
\* once and every answer quotes it ("idempotent response for repeated payout
\* execution").
PayoutsConverge ==
  \A w \in Withdrawals :
    /\ Cardinality(Entries("RESULT", w)) <= 1
    /\ \A i \in DOMAIN inbound :
         (/\ inbound[i].answer # Absent
          /\ inbound[i].answer.payout # Absent
          /\ inbound[i].command.withdrawal = w) =>
           \E n \in Entries("RESULT", w) :
             inbound[i].answer.payout.reason = payoutAudit[n].reason

\* Every attempt at a withdrawal the executor started is in its trail: a result,
\* or a failure the caller was told of.  (A request without a result is exactly
\* a broken attempt.)
AttemptsAudited ==
  \A w \in Withdrawals :
    Cardinality(Entries("REQUESTED", w)) - Cardinality(Entries("RESULT", w)) =
      Cardinality({i \in DOMAIN inbound :
        /\ inbound[i].command.endpoint = "/payout/execute"
        /\ inbound[i].command.withdrawal = w
        /\ inbound[i].answer = Failure})

CallsOf(calls, consumer, endpoint) ==
  Cardinality({n \in DOMAIN calls :
    calls[n].consumer = consumer /\ calls[n].endpoint = endpoint})

ServedCalls(consumer, endpoint) ==
  Cardinality({i \in DOMAIN inbound :
    /\ inbound[i].answer = Success \/ (inbound[i].answer # Absent /\ inbound[i].answer.ok)
    /\ inbound[i].command.endpoint = endpoint
    /\ inbound[i].command.consumer = consumer})

\* No call is metered twice, and none that was not served: what is recorded and
\* what waits to be recorded never exceed the calls served, and the bill never
\* exceeds the usage, at every moment between answer and microtask and whatever
\* fails there.
MeteredOnce ==
  \A u \in Consumers, e \in MeteredEndpoints :
    /\ CallsOf(usageRecords, u, e) + CallsOf(microtasks, u, e) <= ServedCalls(u, e)
    /\ CallsOf(billableEvents, u, e) <= CallsOf(usageRecords, u, e)

\* Nothing gets lost in silence, and nothing billed is reported lost: a call
\* served at a price is on the bill, still queued, or in the log as a metering
\* error, exactly one of these, although the two records of one call may come
\* apart; and a served call missing from the usage is in the log.
ShortfallsReported ==
  \A u \in Consumers, e \in MeteredEndpoints :
    /\ e \in Priced =>
         CallsOf(billableEvents, u, e) + CallsOf(microtasks, u, e)
           + CallsOf(meteringErrors, u, e) = ServedCalls(u, e)
    /\ ServedCalls(u, e) <= CallsOf(usageRecords, u, e) + CallsOf(microtasks, u, e)
                              + CallsOf(meteringErrors, u, e)

\* Whatever a handler meets (an unknown grant, a key used for something else, an
\* adapter that throws, a broken body), its client gets an answer in the end.
\* (This is about what a route does, from the rate limiter on.)
EveryRequestClosed ==
  \A i \in 1..MaxRequests :
    (i \in Reading) ~> (i \in DOMAIN inbound /\ i \notin Reading)
=============================================================================
