# Formal models of Soberanía

TLA+ modules that model three parts of this repository: the
asset-protocolization package (`src/packages/asset-protocolization`), capability
tokens with the vault and the gateway that take them (`src/capability`,
`src/vault`, `src/aoc/capabilities`), and the hosted runtime (`src/runtime`, with
the trust service of `src/enterprise`). TLC configurations check them on small
instances, and proofs that TLAPS checks hold for every value of the constants.

Paths below are relative to `src/packages/asset-protocolization/src` unless
they start with `src/`.

## 1. Inventory

### The core: protocolization of an asset

A tenant opens a *case* for an asset under a pinned *profile* (a list of
requirements). Applicants add *materials* to the case; *checks* verify it;
*professionals* review and attest it; when nothing blocks it the case is
*ready* and is *protocolized*: an immutable result quotes what it rested on.
Every record is immutable, every operation is a function from values to new
values, and every repository is separate. There are no locks, no transactions
and no scheduler in the package: callers (the *composition layer*, which is not
in the repository) load, await, and save, in whatever order they like.

| component | state it keeps | operations | talks to |
|---|---|---|---|
| case aggregate (`case/`) | the case: lifecycle, revision, materials, requirement states, instants | create, activate, addMaterial, associate, cancel | profile catalogue, injected clock |
| case repository (`case/case-repository.ts`) | map (tenant, caseId) → case | get, exists, save (revision-checked) | — |
| evidence intake (`evidence/`) | intake receipts, write-once | intake | case aggregate, own repository |
| declarations (`declarations/`) | declaration records, write-once | record | case aggregate, own repository |
| verification (`verification/`) | results, bound to a case revision | run, execute one check | registered checks (awaited), own repository |
| professional review (`attestation/`) | requests, decisions | create request, record decision | signer (awaited), case aggregate, two own repositories |
| readiness (`state-machine/`) | none (pure) | evaluate | reads case, results, requests, decisions |
| execution (`execution/`) | results, indexed by id and by basis | execute | readiness evaluation, own repository |
| profile catalogue (`profile-*.ts`, `requirements.ts`) | catalogued profiles, write-once | validate, register, get | — |

What is hard here:

- **optimistic concurrency**: the revision rule of `save` is all that stands
  between concurrent writers;
- **awaits on copies**: the signer and the checks are awaited on a copy of a
  case that others change meanwhile;
- **two repositories, no transaction**: an attestation is half a case and half
  a decision, an intake half a case and half a receipt;
- **currency by arithmetic on revisions**: whether an attestation or a result
  still counts is decided by comparing revision numbers;
- **evaluate, then execute**: readiness is a value computed earlier by somebody;
- **clocks**: injected, possibly different from one caller to the next.

What makes each component correct: the case — no lost update, final
cancellation, two agreeing copies of each association, ordered instants, one
history per (tenant, caseId). Readiness — an attestation counts only if its
professional saw the dossier, objections are never outvoted, stale never
revives. Verification — a result vouches for what its check saw. Execution —
only ready, verified and attested dossiers are protocolized, and each basis
once. Intake and declarations — the records are the account of what is in the
case, in the order it entered.

### Capability access

A subject *consents* to an action within a scope, for a time, perhaps for a
price. *Capability tokens* are minted under a consent and presented in three
places: the *vault*, which resolves SDL paths to fields of its packs; the
*gateway* of AOC (`consumeCapabilityAccess.ts`), which meters and limits; and the
token verifier. All three spend tokens in a nonce registry and look them up in a
revocation registry, which a deployment may share between them.

| component | state it keeps | operations | talks to |
|---|---|---|---|
| tokens (`src/capability/`) | registries of seen and of revoked tokens | mint, verify, revoke | consent objects |
| consent objects (`src/consent/`) | none: immutable, content-addressed | build, revoke a token by consent | revocation registry |
| vault (`src/vault/`) | consents, tokens, packs, SDL mappings | store consent, mint, store pack, register mapping, request access, revoke | both registries |
| gateway (`src/aoc/capabilities/`) | rate windows and usage, by consent | consume | both registries, hooks |

Everything here is synchronous, so a call is one step and the hard part is the
**order**: of the checks inside a call — the budget is counted before
revocation, replay and payment are looked at, the token is spent before usage is
recorded — and of the calls, since the vault asks for one token path by path and
insists on a fresh one only for the first. Correct: a token is used at most
once, in time, unrevoked and within its scope, wherever it is presented; what is
given out was consented to and paid for; budget and usage of a consent are kept
over all its tokens.

### The hosted runtime

One Node process: an HTTP server (`src/runtime/api/server.ts`) over services that keep
everything in memory.

| component | state it keeps | operations | talks to |
|---|---|---|---|
| server and routes (`src/runtime/api/`) | requests in flight | authenticate, limit, await the body, guard, serve, answer, queue metering | everything below |
| rate limiter (`src/runtime/limits/`) | a fixed window per API key | check | – |
| control plane (`src/runtime/controlPlane.ts`) | access requests, grants, revocation evidence, idempotency cache | create request, decide, revoke | – |
| trust (`src/enterprise/src/assurance/`) | credentials, consents | register, consent, verify | – |
| data access (`src/runtime/access/`) | tokens handed out | request access | trust |
| payout executor (`src/runtime/payout/`) | result per withdrawal, audit trail | execute, callback | trust, payment adapter |
| usage and monetization (`src/runtime/usage/`, `src/runtime/monetization/`) | usage records, billable events | record, or throw | – |

What is hard here: requests **overlap** while their bodies are awaited and are
served in an order of their own; a client that loses an answer **sends again**,
with the same idempotency key, another or none; an **adapter that throws** leaves
a payout half on the trail; **metering runs later**, in a microtask, and either
of its two records may fail with nobody left to tell but the log. Correct:
revocations and payouts converge however often they are sent, a revoked grant
stays revoked, every request is answered, and a call served at a price is on the
bill once or reported as lost.

### Around it

The consent and capability machines of the protocol layer (`src/protocol`), the
protocol's record contracts (`src/packages/protocol`), the execution fabric and
other in-process services of the runtime, storage, packs, fields, hashing, SDKs,
frontend and tooling. PROJECT.json lists each with the reason it is or is not
modelled.

## 2. Modules

| module | models | state | actions |
|---|---|---|---|
| `CaseAggregate` | `case/case-operations.ts`, `case-state.ts`, `case-validation.ts` | none: operators on a case value | – |
| `CaseLedger` | abstract promise of the case store | `ledger`: key → profile, state, revision, associations | Open, Activate, Associate, Cancel |
| `ProtocolizationCase` | the aggregate with `case-repository.ts` and concurrent writers | `cases` (the repository's map), `held` (each writer's copy), `base` (what it loaded or last saved) | Load, Create, Activate, AddMaterial, Associate, Cancel, Save, Abandon |
| `Readiness` | `state-machine/` | none: from a case and records to blockers and a state | – |
| `ProfessionalReview` | `attestation/` with one case and its other writers | `case`, `requests`, `decisions`, `session`, `history` | CreateRequest, Decide, AwaitSignature, Signed, Change, SaveCase, SaveDecision, SaveBoth, Abandon |
| `Verification` | `verification/` | `results`, `runs` | BeginRun, AskCheck, CheckAnswers, StoreResult, AbandonRun |
| `Protocolization` | `execution/`, composed with the two above | `executors`, `executions` | GatherCase, GatherRecords, Execute, StoreExecution, AbandonExecution |
| `MaterialIntake` | `evidence/`, `declarations/`, with the writers of `ProtocolizationCase` | `records` (both repositories), `pending` (the record returned with a held case) | IntakeEvidence, RecordDeclaration, CommitBoth, CommitCase, GiveUp, Proceed (the other operations) |
| `CapabilityUse` | abstract promise of a token | `issued`, `revoked`, `uses`, `now` | Pass, Issue, Revoke, Use |
| `CapabilityAccess` | tokens, consents, vault, gateway, verifier | `consents`, `capabilities`, `packs`, `sdlMappings`, `seen`, `revoked`, `windows`, `usage`, `now` | GrantConsent, RevokeByConsent, MintCapability, RevokeCapability, RegisterPack, RequestAccess, ConsumeCapabilityAccess, VerifyCapabilityToken, Tick |
| `ControlPlane` | `src/runtime/controlPlane.ts` | `requests`, `grants`, `revocationEvidence`, `revocationIdempotency`, `revocationSequence` | CreateAccessRequest, DecideAccessRequest, and five outcomes of a revocation |
| `HostedRuntime` | the server and its services, composed with `ControlPlane` | `windows`, `inbound`, `credentials`, `consents`, `accessTokens`, `idempotentResults`, `payoutAudit`, `microtasks`, `usageRecords`, `billableEvents`, `meteringErrors`, `now` | Arrive, RefuseBody, RefuseCapability, one Serve action per route, Meter, Tick |
| `...Proofs` | lemmas and theorems of the module they are named for | | |
| `MC...` | small instances | | |

```
CaseAggregate ── ProtocolizationCase ── MCProtocolizationCase
     │              │  │  ├─ refines ─ CaseLedger
     │              │  │  └─ ProtocolizationCaseProofs ── CaseAggregateProofs
     │              │  └──── MaterialIntake ─┬─ MCMaterialIntake
     │              │                        └─ MaterialIntakeProofs
     └── Readiness ─┬─ ProfessionalReview ─┬─ MCProfessionalReview
                    │                      ├─ ProfessionalReviewProofs ─┐
                    └─ Verification ───────┴─ Protocolization ─┬─ ProtocolizationProofs
                                                               └─ MCProtocolization

CapabilityAccess ─┬─ refines ─ CapabilityUse
                  ├─ CapabilityAccessProofs
                  └─ MCCapabilityAccess

ControlPlane ─┬─ ControlPlaneProofs ── HostedRuntimeProofs
              └─ HostedRuntime ── MCHostedRuntime
```

How the code maps to the modules:

- An **operation of the aggregate** is a pair: `CanX(c, ...)`, its
  preconditions in conjunction (every early `throw`), and `XCase(c, ...)`, the
  case it returns. `sealed()`, which validates what an operation is about to
  return, is deliberately *not* a guard: that it never refuses is a property
  (`SealNeverRefuses`) and a theorem.
- A **writer** is one request of the composition layer. Between any two of its
  steps every other writer may act, which is what an `await`, another process or
  a slow caller amounts to. `Save` is enabled exactly where the repository
  accepts; where it throws nothing changes and the writer may retry or `Abandon`.
- **Failures and restarts** are `Abandon` (and `AbandonRun`,
  `AbandonExecution`, `GiveUp`): what was not stored is lost. The repositories
  survive.
- **`history`** in `ProfessionalReview` and `saw` in `Verification.Result` are
  ghosts: no field of the code. They let properties say what a revision number
  stood for when a professional or a check looked at it.
- **`CommitOrder`** names how the composition layer saves the two halves of an
  attestation. `review-operations.ts` (142-147 and 1387-1402) asks for one
  transaction ("Atomic") and provides none; "CaseFirst" and "DecisionFirst" are
  what two calls amount to, with a failure possible in between.
- **`CommitBoth`** stores an intake's case and its record together or neither,
  as `evidence/evidence-intake-operations.ts` (64-80) asks of its callers.
- A **handler of the server** is one action: it runs to its end without yielding
  once the body is there. `Arrive` is the synchronous part before the body is
  awaited, `Proceed(i)` everything after it, `Meter` the microtask with the three
  ways it ends: the usage recorded, and billed where there is a price; the usage
  not recorded; the usage recorded and the charge failed. A client may send any
  command of its `workload` any number of times, which is what a lost answer and a
  retry amount to.
- A **call of vault, gateway or verifier** is one action with its outcomes as
  disjuncts: refused before anything changed, denied after something was counted
  or spent, allowed.
- **`answered`**, **`disclosures`**, **`admitted`** and the answers kept in
  `inbound` are histories: what callers were told.

Abstractions of the protocolization core. Identifiers, references and profiles
are model values. Instants are small numbers, 0 where an optional instant is
absent. Correlation ids, metadata, subjects, reasons and events are left out: no
operation reads them. Profiles are constants, as the catalogue is write-once. Readiness leaves out
identity requirements, warnings, and constraints no evaluator can resolve, and
takes evidence, declaration and attestation records to be supplied with
the case and to be of the accepted types. `ProfessionalReview` and
`Protocolization` follow a single case of one tenant from the moment it holds a
declaration, since an attestation needs a claim to be about. The reviewer's
credentials, scope and reviewed references are inputs checked synchronously,
before the await and against the caller's own arguments. An `Abstain` or
`RequestMoreEvidence` travels through the same steps as a `Reject`; `Positions`
names the ones a run uses. Requests are stored as they are created: one stored
late names a revision the case has left, which `MayDecide` then refuses.

Abstractions of intake: material enters through the two operations only, not by
a bare `addMaterial`; categories, sources, observed instants, claim subtypes,
declarants and events are recorded and compared with nothing, and left out. A
record's shape checks and a commit that stores one half only are left out too.

Abstractions of capability access: a token, whose identifier is random, is its
number, and a consent is its own hash. Tokens bound to a market maker, the
`requireReplayProtection` option, requests that bring no registry or no rate
limit, and a usage registry that throws are left out. There is one clock.
`executeCapabilityFlow` adds interpretation after consumption and is no action of
its own.

Abstractions of the hosted runtime: the routes that change state are modelled,
the listings and the stateless ones (enforcement, authorisation, minting) are
not. What the capability guard of two endpoints computes is left open: it may
refuse. Which issuers are active, and with which levels, and which endpoints have
a price are constants (`KycLevels`, `Priced`): no operation changes them, so a
verification cannot answer `ISSUER_INACTIVE` or `REVOKED`. Unknown API keys,
datasets, purposes, scopes, amounts, and the audit trails of trust and access are
left out. A request whose URL cannot be parsed (`server.ts:97` throws) is outside
the model, and so is a body whose dates are none. Of the log only the
`USAGE_METERING_ERROR` entries are kept, each as the call of the request it names;
sinks for logs, telemetry and metrics are taken not to throw.

## 3. Runs

| run | instance | checks |
|---|---|---|
| `case_writers` | 2 writers, 2 materials, 2 requirements, 2 profiles, 4 revisions, 2 instants, save after every operation | `TypeOK`, the safety properties of the case below, refinement of `CaseLedger` |
| `chained_writers` | as `case_writers`, two operations before a save | `NoLostUpdate` is **violated** |
| `review_atomic` | 2 sessions, 3 requests, 2 attestation requirements, one transaction | all of review's properties |
| `review_case_first` | 2 sessions, 2 requests, case saved first | `CurrentAttestationSawDossier` still holds |
| `review_decision_first` | decision saved first | `CurrentAttestationSawDossier` is **violated** |
| `review_minimum_two` | a requirement that demands 2 attestations | `FurtherReviewSettlesCurrency` is **violated** |
| `execute_verified` | 2 runners, 1 executor, 1 check that passes or fails, 1 writer | `VerifiedWhatItProtocolized` |
| `execute_reviewed` | 1 session, 2 requests, 2 executors | `ExecutionsStoodReady`, `ReviewedWhatItProtocolized`, `OneResultPerBasis` |
| `stale_readiness` | a rejection between evaluation and execution | `StoredWhileReady` is **violated** |
| `material_intake` | 2 writers of one tenant and 1 of another, which mints the same identifiers; 3 materials, 2 references, 2 record identifiers, 3 revisions | `RecordsAccountForCase`, `RecordsInOrder`, `TenantsSeparate` |
| `capability_access` | 2 consents, 2 tokens, 2 fields of a pack, 3 instants, 2 presentations allowed | the properties of capability access below, refinement of `CapabilityUse` |
| `hosted_runtime` | 4 workloads: grants and revocations (5 requests), credentials and payouts (4), what the trust service refuses (3, two bodies awaited at once), verifications and callbacks over a limit of 1 (4, two bodies awaited at once, bodies that break off); 2 issuers and a stranger, 2 of the 3 metered endpoints with a price | the properties of the hosted runtime below, with liveness |

The properties, in words:

- *Case*: `SealNeverRefuses`, `SnapshotAgreement` (one revision, one case),
  `TimelineOrdered`, `NoLostUpdate`, `CancelledIsFinal`, `TenantsSeparate`,
  `ImplementsLedger`.
- *Intake*: `RecordsAccountForCase` (each material has its record, each record
  its material, no evidence and no claim twice), `RecordsInOrder` (a revision
  each, a declaration after the evidence it points at).
- *Review*: `CurrentAttestationSawDossier` (readiness counts an attestation as
  current only if, but for other professionals' own attestations, the dossier is
  the one its professional saw), `DecisionsHappened`, `AttestationsDecided`,
  `ObjectionsAnswered` (of a required attestation; a position on an optional
  one does not block readiness in the code), `StaleNeverRevives`,
  `OtherAttestationKeepsCurrency`.
- *Execution*: `ExecutionsStoodReady`, `VerifiedWhatItProtocolized`,
  `ReviewedWhatItProtocolized`, `OneResultPerBasis`.
- *Capability access*: `ImplementsCapabilityUse` (one use, in time, unrevoked,
  within the token's scope), `DisclosedUnderConsent`, `BudgetHolds` (a consent's
  budget covers all its tokens), `UsageCountsAllowed`.
- *Hosted runtime*: `RevocationsConverge`, `AnsweredIsRevoked`,
  `KeyNamesOneCommand`, `RevokedIsFinal` (of the control plane, behind the
  server), `AtMostTwoWindows` (the limiter lets at most twice its limit through
  in any stretch as long as a window), `PayoutsConverge`, `AttemptsAudited`,
  `MeteredOnce` (nothing is recorded or billed twice or unserved),
  `ShortfallsReported` (a call served at a price is billed, queued or in the log as
  an error, exactly one of these, and one missing from the usage is in the log), and
  the liveness property below.

Bounds. Two of everything that races is where all the conflicts between a
writer and its rival are; a third writer adds nothing `Save` can tell from the
second. Four revisions are enough for create, one change under each of two
writers, and one more on top; in review, for a declaration, two attestations or
a change between them. `MaxTime` is 2 where instants are compared and 1 where no
property reads them. `MaxRevision` limits where changes start, never whether a
save is accepted, and every bounded instance reaches its end states (a cancelled
case, all identifiers used), which is why the review and execution runs do not
check for deadlock. Writers, sessions, requests, materials, runners, executors
and results are symmetric: no module compares them. Execution identifiers are
compared (they break ties between results) and are not.

In `material_intake` two writers of one tenant race with stale copies and a
third, of another tenant, tells whether keys mix; three revisions hold an
evidence and a declaration that points at it. In `capability_access` two tokens
are enough for one consent's budget and usage to be shared or for two consents to
be confused, three instants for a token and its consent to lapse before a use; a
limit of one attempt per window is reached by the second. In `hosted_runtime`,
grants and payouts share nothing but the server, so each workload
gives its requests to one of them: five requests are request, decision, second
decision, revocation and its repetition; four are a payout refused or broken,
what mends it, and two retries; the third workload is refused by the trust service
and bills payouts it then denies; the fourth lets requests overlap and the window
pass. Calls of endpoints with and without a price are metered, and each of the two
records fails. The last two runs stop when their requests, tokens and time are used
up and do not check for deadlock.

What the violations show is in PROJECT.json under `findings`, with the comment
each contradicts. In short:

1. The revision rule prevents lost updates only for callers that save after
   every operation.
2. The carve-out for another professional's attestation trusts a number in the
   decision; if the decision is stored and its case is not, it vouches for
   somebody else's change.
3. A minimum of two attestations can never be met: each one stales the other. The
   run shows it on one profile, `MinimumOfTwoIsNeverMet` and
   `MinimumOfTwoIsNeverProtocolized` (section 4) for all of them.
4. The case's revision does not move for a rejection or for a failed check, so
   comparing revisions does not notice either.

### Fairness

None is assumed of the protocolization package and of capability access, and no
liveness is claimed there: nothing in them schedules anything, and whether a case
is ever saved or a signer ever answers is up to callers outside the repository.

The hosted runtime is a process with a scheduler of its own. `Fairness` asks for
weak fairness of `Proceed(i)` for each request, and of nothing a client does:
Node's event loop takes up every request whose body has ended, and its request
timeout ends a body that never comes. Under it `EveryRequestClosed` says that each
request let in by the limiter gets an answer whatever its handler meets. It would
fail if an outcome of a handler were missing, which is what it is for (see its
mutation). That queued metering runs in the end is the event loop's doing and not
stated; what the code has to see to, that a metering which fails leaves a trace, is
`ShortfallsReported`.

## 4. Proofs

Every invariant and every action property the passing runs check is also a
theorem, for any value of the constants, refinements included; further theorems
state what no run checks. Seven modules
hold the proofs about seven components, `CaseAggregateProofs` the lemmas about
operators of the aggregate that four of them share. The two largest
inductive invariants, `ReviewInv` and `ProtocolizationInv`, were checked by TLC on
the instances of section 3 before they were proved.

What is assumed of the constants is named in the module that declares them, and
TLC evaluates it on every run:

- *Sentinels* (`SentinelAssumption`, `ClosedAssumption`, `DecisionAssumption`,
  `AwaitedAssumption`, `ExecutorAssumption`, `AbsentAssumption`, and parts of
  `HostedAssumption` and `CapabilityAssumption`): what stands for `undefined` is
  not a value of the type it is absent from.
- *Profiles* (`AggregateAssumption`, `ReadinessAssumption`): profiles ask for
  requirements there are; a verification requirement names at least one check,
  which `profile-validation.ts` (295-301) demands, as it demands a positive
  minimum; `"Attestation"` is a kind of material (`ReviewAssumption`).
- *Callers* (`WriterAssumption`, `IntakeAssumption`, the presentations of
  `CapabilityAssumption`, the workloads of `HostedAssumption`): a writer has one
  tenant; what is sent is of the type its route or function takes, and names what
  there is to name (`Named`).
- *Limits*: bounds are numbers, limits and windows are positive.

Three hypotheses are of single theorems and say how a composition uses the package,
which leaves it open:

- `MaxPending = 1`: callers save after every operation. `chained_writers` shows
  `NoLostUpdate` fails without it.
- `CommitOrder # "DecisionFirst"`: a decision is not stored before its case.
  `review_decision_first` shows `CurrentAttestationSawDossier` fails without it.
  `CommitOrder = "Atomic"` where even a case stored first would be too little: an
  attestation is then in the case before its decision is there, and turns from
  unfounded to current.
- `"Attestation" \notin ChangeKinds`: other writers do not put attestations into
  the case past the review, which `addMaterial` would let them do.

### The case, its store and intake

| theorem | statement | assumes, beside the above |
|---|---|---|
| `TypeCorrect`, `OperationsSeal`, `TenantIsolation` | `Spec => []TypeOK`, `[]SealNeverRefuses`, `[]TenantsSeparate` | – |
| `TimelinesOrdered` | `Spec => []TimelineOrdered` | – |
| `SnapshotsAgree`, `LostUpdatesPrevented`, `CancellationIsFinal` | `Spec => []SnapshotAgreement`, `NoLostUpdate`, `CancelledIsFinal` | `MaxPending = 1` |
| `StoreImplementsLedger` | `Spec => ImplementsLedger` | `MaxPending = 1` |
| `IntakeImplementsWriters` | `IntakeSpec => Spec` of `ProtocolizationCase` | – |
| `IntakeTypeCorrect`, `IntakeTenantIsolation` | `IntakeSpec => []IntakeTypeOK`, `[]TenantsSeparate` | – |
| `IntakeLosesNoUpdate`, `IntakeImplementsLedger` | `IntakeSpec => NoLostUpdate`, `ImplementsLedger` | `MaxPending = 1` |
| `RecordsAreTheAccount`, `RecordsFollowTheCase` | `IntakeSpec => []RecordsAccountForCase`, `[]RecordsInOrder` | `MaxPending = 1` |

`CaseAggregateProofs` proves, operation by operation, that a
well-formed case whose preconditions hold becomes a well-formed case of the same
tenant and identifier, one revision later, that preserves what was recorded.
`WellFormed` alone is inductive over the aggregate; over the store it needs the
tenant of each writer's copy, because a `Save` goes to the key of what is held:
`StoreInv == TypeOK /\ SealNeverRefuses /\ TenantsSeparate`. *Instants* are
ordered in the copies as well as in the store (`Timely`), because each operation
starts from a timely copy and refuses a clock that went back; no assumption on
saving is needed.

`NoLostUpdate` is not inductive: a `Save` replaces the stored case, which it
preserves only if the stored case *is* what the writer's copy derives from. The
revision rule says their revisions are equal; `SnapshotAgreement` says that
equal revisions are equal cases; `HeldFromBase` says that the copy is one
operation past its base and preserves it. Hence
`CopyInv == StoreInv /\ SnapshotAgreement /\ HeldFromBase`, of which run
`case_writers` checks all parts but the last. `HeldFromBase` is what
`MaxPending = 1` buys.

The *refinement* of `CaseLedger` maps a stored case to its profile, state, revision
and set of associations. `LedgerInv` adds to `CopyInv` that a copy is its base,
or its base after exactly one operation of the ledger; a copy without a base is a
case just opened. Then an accepted save is that operation on the entry, and every
other step stutters.

*Intake*: every step of a writer that takes in material is a step of a writer of
`ProtocolizationCase` or leaves cases and copies alone, so what is proved there
carries over, the ledger included. That the records account for the case rests on
`CopyInv`: a record waits only beside a copy that is one operation past its base,
and an accepted save finds the stored case equal to that base, so that the case
gains exactly the one material the record is about. Their order (`OrderInv`)
follows: the record's revision is one past every revision recorded so far, and its
links resolve in the base, whose evidence is on record already.

### Review and execution

| theorem | statement | assumes, beside the above |
|---|---|---|
| `ReviewTypeCorrect` | `Spec => []TypeOK` | – |
| `ObjectionsStay`, `AttestationsCoexist` | `Spec => []ObjectionsAnswered`, `OtherAttestationKeepsCurrency` | – |
| `DecidedArtifactsExist`, `CurrentMeansSeen` | `Spec => []DecisionsHappened`, `[]CurrentAttestationSawDossier` | `CommitOrder # "DecisionFirst"` |
| `StaleStaysStale` | `Spec => StaleNeverRevives` | `CommitOrder = "Atomic"` |
| `AttestationsStayJustified` | `Spec => []AttestationsDecided` | and `"Attestation" \notin ChangeKinds` |
| `ProtocolizationTypeCorrect`, `ProtocolizedOnce`, `ProtocolizedWhileReady` | `ProtocolizationSpec => []ProtocolizationTypeOK`, `[]OneResultPerBasis`, `[]ExecutionsStoodReady` | – |
| `ProtocolizedIsVerified` | `ProtocolizationSpec => []VerifiedWhatItProtocolized` | – |
| `ProtocolizedIsReviewed` | `ProtocolizationSpec => []ReviewedWhatItProtocolized` | `CommitOrder # "DecisionFirst"` |
| `LaterStalesEarlier`, `MinimumOfTwoIsNeverMet` | `Spec => []AtMostOneCurrent`, `[]ReadyMeansMinimumOne` | `CommitOrder # "DecisionFirst"` |
| `MinimumOfTwoIsNeverProtocolized` | `ProtocolizationSpec => []ProtocolizedMeansMinimumOne` | `CommitOrder # "DecisionFirst"` |
| `ReadyMeansQualified` | `ReadinessState(c, inp) = Ready <=> Qualifies(c, inp)` | finitely many materials; results that have a latest |
| `ProtocolizedMetItsProfile` | `ProtocolizationSpec => []ProtocolizedQualified` | – |
| `ProtocolizationImplementsReview` | `ProtocolizationSpec => Spec` of `ProfessionalReview` | – |
| `ReviewHoldsOnThePath` | `ProtocolizationSpec => [](DecisionsHappened /\ CurrentAttestationSawDossier /\ ObjectionsAnswered)` | `CommitOrder # "DecisionFirst"` |
| `StaleOnThePath` | `ProtocolizationSpec => StaleNeverRevives` | `CommitOrder = "Atomic"` |

`ReviewInv` relates the ghost `history`, the case, the sessions and the decisions.
What a revision number stands for is said of a history as a value (`Sound`,
`Happened`, `AttestedBy`), because a step only ever appends to it: whatever was
true of an entry is true of it in the longer history. Sessions await on an entry
(`SessionInv`); what a session will store follows the entry it was made from, and
the revision rule of the case's repository makes that entry the last one. A decision
is about a stored revision and, unless it may be stored ahead of its case, the
attestation it names is the whole difference between its basis and its result
(`DecisionInv`). `AttestationsDecided` takes `JustifiedInv`, of attestations in the
case; `ObjectionsAnswered` takes `LatestInv`, that the positions on a requirement
have a latest one.

`CurrentAttestationSawDossier` is about a stretch of revisions: readiness calls an
attestation current if every revision since is another professional's attestation,
and then the dossier must be the one reviewed. That is an induction over
the stretch. It is carried by the invariant instead, one revision per step:
`DossierKept(history)` says of *every* stretch none of whose steps changes the
dossier of a requirement (an attestation of another requirement does not) that its
two ends have the same dossier. Appending one entry extends each stretch by one. From it, `SeenDossier`: for any
stored decision and any entry of the history that an input to readiness calls
covered, the dossier is what its professional saw, plus the attestation. The lemma
is stated of any entry and any part of the stored decisions, as that is what an
executor holds.

`ProtocolizationInv` extends `ReviewInv` to runs and executors. Whatever they
gather comes from stores that only grow: a copy of the case is an entry of the
history (`Copy`), records are part of what is stored (`Gathered`), a result saw the
materials of the revision it names. These facts outlive every later step, so they
hold of an outcome when it is stored, however late. `Authorizes` compares
revisions; as one revision is one entry, the copy executed is the one evaluated.
A Ready case has, for each required verification, a latest result that found
nothing against it and, for each required attestation, a current one: the two
lemmas that turn readiness into `VerifiedWhatItProtocolized` and
`ReviewedWhatItProtocolized`, the second through `SeenDossier`. What fails without
these theorems' guards is `StoredWhileReady` (run `stale_readiness`): the case may
have stopped being Ready meanwhile.

*What Ready means.* Readiness collects reasons requirement by requirement and
derives Ready if none of them is in the table of seven rows. `Qualifies` says
without reasons and without the table what a profile demands: the case is not
cancelled, no condition is open, and each required requirement is met
(`Met`: enough distinct materials, checks satisfied, enough current attestations,
no standing objection and every attestation with its decision). That the two
agree is a lemma per kind of requirement, each in both directions, and one that
every reason an unmet requirement gives is in the table. A cardinality is only a
count of a finite set: that the materials of every stored case are finite is an
invariant of its own (`FiniteInv`), since each operation adds one. With it,
`ProtocolizedMetItsProfile` says of every stored result what the code only
says through reasons.

*Two attestations.* The attestations of one requirement have decisions with
different results; take the earlier. Between it and the entry the case grew by the
later one, which is of the same requirement, and only another requirement's is let
pass (`OneCurrentAttestation`). So the current ones have at most one reference,
and a Ready case, which has at least the minimum, has a minimum of one.
The argument is of any entry of the history and any part of the decisions, so it
holds of what executors gathered too. With decisions stored first it breaks, as a
decision may then vouch for somebody else's change.

*The path implements review*: each step of a run or of an executor leaves alone
what review keeps, and each step of review is one of `ProfessionalReview`. What is
proved there needs no second proof.

### Capability access

| theorem | statement |
|---|---|
| `AccessTypeCorrect` | `Spec => []TypeOK` |
| `DisclosuresConsented` | `Spec => []DisclosedUnderConsent` |
| `CapabilitiesUsedOnce` | `Spec => ImplementsCapabilityUse` |
| `BudgetsHold`, `UsageMetersAllowed` | `Spec => []BudgetHolds`, `[]UsageCountsAllowed` |
| `SpentGivesNothing` | `Spec => [][GivesUnderLiveTokens]_vars` |
| `GivenInOneUse` | `Spec => []OneUse` |

Three lemmas bring vault, gateway and verifier down to one
fact, `IsUse(n)`: a fresh, unrevoked, unexpired token is spent and what is given
out lies within its scope and is covered by its consent. From there one lemma
keeps the invariant (tokens minted under a grant, within its scope; disclosures
covered) and one maps the step to `Use`. A third (`StepUsesOne`) says that any
step of the system gives nothing out or is one such use of one token; hence
whatever was spent, even by a call of the vault that was then denied, gives nothing
out afterwards, and all that was given out under a token was given at one moment.

The budget is counted before the gateway looks at revocation, replay and payment,
so the counter is no function of what was admitted. `BudgetsInv` says that it is at
least the number of admissions since the window opened, and that every admission
came before the window's end: when a new window opens, none of the old ones is in
it. `MetersInv` says that usage counts the admissions of a consent, over all its
tokens, and dates the last.

### Control plane and hosted runtime

| theorem | statement |
|---|---|
| `StoresTyped`, `RevocationConverges`, `AnswersStayTrue`, `KeysAreNotReused`, `RevocationIsFinal` | the control plane's type invariant and four properties |
| `ImplementsControlPlane` | `Spec => CPSpec` |
| `HostedRevocationsConverge`, `HostedAnswersStayTrue`, `HostedKeysAreNotReused`, `HostedRevocationIsFinal` | the same four properties of the server |
| `HostedTypeCorrect` | `Spec => []TypeOK` |
| `LimiterBounds` | `Spec => []AtMostTwoWindows` |
| `PayoutsComeToOneResult`, `AttemptsAreAudited` | `Spec => []PayoutsConverge`, `[]AttemptsAudited` |
| `CallsMeteredOnce`, `ShortfallsAreReported` | `Spec => []MeteredOnce`, `[]ShortfallsReported` |

*Control plane*: that answers agree is not inductive. `CPInv` ties the four
places a revocation is written to: evidence is numbered as revocations are and
each record is about one revoked grant, which points back at it; whatever the
cache holds, and whatever was answered, tells what the grant says; an answer
given under a key is of the command the cache holds under it. A step keeps every
grant and a revoked one unchanged, so that old answers stay true. The server adds
nothing to it: each of its steps is a step of the control plane with a validated
command and the current clock, or a stutter.

*The limiter*: `RateInv` puts what a key got through into its window, into
the stretch just before, or further back, and bounds the first by the counter, the
second by the limit, and any stretch by twice the limit. A stretch as long as a
window that meets the current window cannot reach further back than the stretch
just before it.

*Payouts*: `PayoutInv` says that a withdrawal without a result kept has none on the
trail and was never answered with one, and a withdrawal with one has exactly one
entry, with the same reason. `AttemptInv` counts: a request on the trail is a result
or an attempt the caller was told had failed. *Metering*:
`Balanced` relates five counts of one consumer at one endpoint (recorded, billed,
reported lost, queued, served), and both properties follow from it. A success adds
one queued and one served in the same step; the microtask takes one from the queue
and puts it where one of its three outcomes puts it, and each keeps the balance
(`BooksMove`). A priced call is counted once among billed, queued and reported
because a charge that fails is reported although its usage stays recorded.

### Only model-checked

`EveryRequestClosed`: liveness under fairness, and the ENABLED it is defined by, are
out of the prover's reach. The properties of the four
runs that expect a violation are false of the code. That the bounds `MaxRevision`,
`MaxTime` and the like do not matter is proved in so far as the theorems hold for
each value of them.

What a recursive definition computes for every input (induction over data) is out of
reach as well; the modules use no RECURSIVE operator, and invariants carry what
would be such an induction (`DossierKept`, the counters).

## 5. Not modelled, and the plan

Next, in this order:

1. **Distributed orchestrator** (`src/runtime/distributed/orchestrator.ts`): a log
   and its snapshots when events arrive out of order.
2. **Execution fabric** (`src/runtime/execution-fabric`): plans, steps, leases
   and continuations under long sequences of calls, and steps that fail after
   their plan is over.
3. **Consent and capability machines** of the protocol layer, and the agreement
   between them (tables over one caller-held record: little a test misses).
4. **Proofs**: with these, the theorems of the new modules; that what review stores
   are operations of `CaseLedger`; and the link between `MaterialIntake` and review,
   so that the records behind a protocolized result are accounted for in one theorem.

Of the lines of the repository most are outside what a state model says anything
about: SDK consumers and their generated fixtures, the frontend, examples, tests
and scripts, and validators and descriptors of one record at a time. Within the
modelled packages the share left out is shape checks, freezing and copying of
values, and listings.

Left out for good: record contracts and pure validators (`src/packages/protocol`,
one value at a time), hashing and signatures, stateless routes and listings,
SDKs, frontend, scripts. The hazards of PROJECT.json that no property covers
carry a note that says why.
