--------------------------- MODULE CapabilityAccess ---------------------------
(***************************************************************************)
(* Capability tokens and the three places that take them: the vault, the    *)
(* capability gateway (consumeCapabilityAccess and the flow around it) and  *)
(* the token verifier, over one registry of seen tokens and one of revoked  *)
(* ones, as VaultOptions and the gateway's request let a deployment share.  *)
(*                                                                         *)
(* Everything is synchronous: a call is one action.  What is hard is the    *)
(* order of the checks inside a call and of the calls: a token is spent, a  *)
(* rate budget counted and usage recorded at different points, and a vault  *)
(* request asks several times about one token.                              *)
(*                                                                         *)
(* Consents and tokens are content-addressed: a consent is its own hash,    *)
(* and a token, whose id is random, is its number.  Tokens bound to a       *)
(* market maker are left out, and there is one clock.                       *)
(***************************************************************************)
EXTENDS Naturals, Sequences, FiniteSets

CONSTANTS
  Subjects,        \* who consents
  ConsentTerms,    \* [subject, scope, permissions, life, priced] of consents asked for
  MintTerms,       \* [scope, permissions, wait, life] of tokens asked for
  Presentations,   \* requests to the gateway
  Paths, Rank,     \* SDL paths and their alphabetical order
  Mappings,        \* the sets of <<path, field>> packs are registered with
  Fields, Packs,   \* by pack: its fields and their contents
  Skew,            \* CLOCK_SKEW_SECONDS
  MaxAttempts, RateWindow, \* the gateway's rate limit
  Absent,
  MaxTime, MaxConsents, MaxTokens, MaxAdmitted \* bounds

Contents == UNION {{Packs[p][f] : f \in DOMAIN Packs[p]} : p \in DOMAIN Packs}
Resources == Contents \cup DOMAIN Packs

ASSUME CapabilityAssumption ==
  /\ Rank \in [Paths -> Nat] /\ \A p, q \in Paths : Rank[p] = Rank[q] => p = q
  /\ \A ms \in Mappings : ms \subseteq Paths \X Fields
  /\ Skew \in Nat /\ MaxAttempts \in Nat \ {0} /\ RateWindow \in Nat \ {0}
  /\ Absent \notin Nat /\ Absent \notin Fields /\ MaxTime \in Nat
  /\ \A r \in Presentations :
       /\ r.resource \in Resources
       /\ {r.paid, r.consume, r.hooksAllow} \subseteq BOOLEAN
  /\ \A t \in ConsentTerms :
       /\ t.subject \in Subjects /\ t.scope \subseteq Resources
       /\ t.life \in Nat \cup {Absent} /\ t.priced \in BOOLEAN
  /\ \A t \in MintTerms : t.wait \in Nat \cup {Absent} /\ t.life \in Nat

VARIABLES
  now,
  consents,      \* vault: consents stored
  capabilities,  \* vault: tokens minted, by number
  packs,         \* vault: packs stored
  sdlMappings,   \* vault: by path, the field it stands for
  seen,          \* nonce registry: tokens spent
  revoked,       \* revocation registry
  windows,       \* gateway's rate limit, by consent
  usage,         \* gateway's consent usage, by consent
  disclosures,   \* history: what was given access to, under which token, when
  admitted       \* history: presentations the gateway allowed, in order

vaultVars == <<consents, capabilities, packs, sdlMappings>>
gatewayVars == <<windows, usage, admitted>>
vars == <<now, vaultVars, seen, revoked, gatewayVars, disclosures>>

Init ==
  /\ now = 0
  /\ consents = {} /\ capabilities = <<>> /\ packs = {}
  /\ sdlMappings = [p \in Paths |-> Absent]
  /\ seen = {} /\ revoked = {}
  /\ windows = <<>> /\ usage = <<>>
  /\ disclosures = {} /\ admitted = <<>>

-----------------------------------------------------------------------------
(* Consents and tokens *)

Consent(terms) ==
  [action |-> "grant", subject |-> terms.subject, scope |-> terms.scope,
   permissions |-> terms.permissions, priced |-> terms.priced, issuedAt |-> now,
   expiresAt |-> IF terms.life = Absent THEN Absent ELSE now + terms.life]

GrantConsent(terms) ==
  /\ Cardinality(consents) < MaxConsents
  /\ terms.life # 0
  /\ consents' = consents \cup {Consent(terms)}
  /\ UNCHANGED <<now, capabilities, packs, sdlMappings, seen, revoked,
                 gatewayVars, disclosures>>

\* A consent to revoke names one token, of a consent of the same subject.
RevokeByConsent(subject, n) ==
  /\ n \in DOMAIN capabilities
  /\ capabilities[n].consent.subject = subject
  /\ Cardinality(consents) < MaxConsents
  /\ consents' = consents \cup
       {[action |-> "revoke", subject |-> subject, target |-> n, issuedAt |-> now]}
  /\ revoked' = revoked \cup {n}
  /\ UNCHANGED <<now, capabilities, packs, sdlMappings, seen, gatewayVars, disclosures>>

Token(consent, terms) ==
  [consent |-> consent, scope |-> terms.scope, permissions |-> terms.permissions,
   issuedAt |-> now, expiresAt |-> now + terms.life,
   notBefore |-> IF terms.wait = Absent THEN Absent ELSE now + terms.wait]

\* Mutation: the scope asked for is not held against the consent's.
MutMintable(consent, terms) ==
  /\ consent.action = "grant"
  /\ terms.life > 0 /\ (terms.wait # Absent => terms.wait < terms.life)
  /\ consent.expiresAt # Absent => now + terms.life <= consent.expiresAt
  /\ terms.permissions \subseteq consent.permissions

\* A token stays within its consent: in time, scope and permissions.
Mintable(consent, terms) ==
  /\ consent.action = "grant"
  /\ terms.life > 0 /\ (terms.wait # Absent => terms.wait < terms.life)
  /\ consent.expiresAt # Absent => now + terms.life <= consent.expiresAt
  /\ terms.scope \subseteq consent.scope
  /\ terms.permissions \subseteq consent.permissions

MintCapability(consent, terms) ==
  /\ Len(capabilities) < MaxTokens
  /\ Mintable(consent, terms)
  /\ capabilities' = Append(capabilities, Token(consent, terms))
  /\ UNCHANGED <<now, consents, packs, sdlMappings, seen, revoked, gatewayVars,
                 disclosures>>

RevokeCapability(n) ==
  /\ n \in DOMAIN capabilities
  /\ revoked' = revoked \cup {n}
  /\ UNCHANGED <<now, vaultVars, seen, gatewayVars, disclosures>>

Mapped(mappings) ==
  [p \in Paths |-> IF \E m \in mappings : m[1] = p
                   THEN (CHOOSE m \in mappings : m[1] = p)[2]
                   ELSE sdlMappings[p]]

\* The adapter stores the pack and registers the paths of its fields.
RegisterPack(pack, mappings) ==
  /\ packs' = packs \cup {pack}
  /\ sdlMappings' = Mapped(mappings)
  /\ UNCHANGED <<now, consents, capabilities, seen, revoked, gatewayVars, disclosures>>

-----------------------------------------------------------------------------
(* What every place asks of a token *)

Near(at) == at <= now + Skew /\ now <= at + Skew

\* Every date a token carries lies within the allowed skew of the clock.
TemporalIntegrity(token) ==
  /\ Near(token.issuedAt) /\ Near(token.expiresAt) /\ Near(token.consent.issuedAt)
  /\ token.notBefore # Absent => Near(token.notBefore)

Unexpired(token) ==
  /\ now <= token.expiresAt
  /\ token.consent.expiresAt # Absent => now <= token.consent.expiresAt

Authorizes(token, action, resources) ==
  /\ TemporalIntegrity(token)
  /\ token.notBefore # Absent => token.notBefore <= now
  /\ Unexpired(token)
  /\ action \in token.permissions
  /\ resources \cap token.scope # {}

Spend(n) == seen' = seen \cup {n}

Disclose(n, items, paid) ==
  disclosures' = disclosures \cup
    {[token |-> n, item |-> i, at |-> now, paid |-> paid] : i \in items}

-----------------------------------------------------------------------------
(* The vault *)

Resolved(paths, pack) ==
  {p \in paths : sdlMappings[p] # Absent /\ sdlMappings[p] \in DOMAIN Packs[pack]}

Content(path, pack) == Packs[pack][sdlMappings[path]]

FirstOf(paths) == CHOOSE p \in paths : \A q \in paths : Rank[p] <= Rank[q]

\* Asked with the content first, then with the pack; the vault passes no
\* payment, so a priced consent opens nothing.
Readable(n, path, pack) ==
  /\ Authorizes(capabilities[n], "read", {Content(path, pack), pack})
  /\ n \notin revoked
  /\ ~capabilities[n].consent.priced

\* The entry of the token's scope a field is given out under.
Authority(n, path, pack) ==
  IF Content(path, pack) \in capabilities[n].scope THEN Content(path, pack) ELSE pack

\* Mutation: the vault asks for no fresh token.
MutOpens(n, paths, pack) ==
  /\ capabilities[n].consent \in consents /\ pack \in packs
  /\ Resolved(paths, pack) # {}
  /\ Readable(n, FirstOf(Resolved(paths, pack)), pack)

\* The first path that resolves is asked for with a fresh token, and spends it.
Opens(n, paths, pack) ==
  /\ capabilities[n].consent \in consents /\ pack \in packs
  /\ Resolved(paths, pack) # {}
  /\ n \notin seen
  /\ Readable(n, FirstOf(Resolved(paths, pack)), pack)

\* Denied, or allowed without a field: nothing resolved.
RefuseAccess(n, paths, pack) == ~Opens(n, paths, pack) /\ UNCHANGED vars

\* A later path is refused: the request is denied, but the token is gone.
DenyAccess(n, paths, pack) ==
  /\ Opens(n, paths, pack)
  /\ \E p \in Resolved(paths, pack) : ~Readable(n, p, pack)
  /\ Spend(n)
  /\ UNCHANGED <<now, vaultVars, revoked, gatewayVars, disclosures>>

AllowAccess(n, paths, pack) ==
  /\ Opens(n, paths, pack)
  /\ \A p \in Resolved(paths, pack) : Readable(n, p, pack)
  /\ Spend(n)
  /\ Disclose(n, {Authority(n, p, pack) : p \in Resolved(paths, pack)}, FALSE)
  /\ UNCHANGED <<now, vaultVars, revoked, gatewayVars>>

RequestAccess(n, paths, pack) ==
  RefuseAccess(n, paths, pack) \/ DenyAccess(n, paths, pack) \/ AllowAccess(n, paths, pack)

-----------------------------------------------------------------------------
(* The gateway *)

\* The consent's window, if one is open.
InWindow(consent) ==
  consent \in DOMAIN windows /\ now - windows[consent].startedAt < RateWindow

\* Mutation: one attempt too many.
MutLimited(consent) == InWindow(consent) /\ windows[consent].count > MaxAttempts

Limited(consent) == InWindow(consent) /\ windows[consent].count >= MaxAttempts

With(f, x, y) == [z \in DOMAIN f \cup {x} |-> IF z = x THEN y ELSE f[z]]

\* Mutation: an attempt is only counted in a window already open.
MutCount(consent) ==
  windows' = IF InWindow(consent)
             THEN [windows EXCEPT ![consent].count = @ + 1] ELSE windows

Count(consent) ==
  windows' = With(windows, consent,
    IF InWindow(consent) THEN [windows[consent] EXCEPT !.count = @ + 1]
    ELSE [count |-> 1, startedAt |-> now])

\* Authorised, by the hooks too, and within the rate limit.
Admitted(n, request) ==
  /\ Authorizes(capabilities[n], request.action, {request.resource})
  /\ request.hooksAllow
  /\ ~Limited(capabilities[n].consent)

\* Neither revoked, nor replayed, nor unpaid; a presentation that does not
\* consume may be of a spent token.
Acceptable(n, request) ==
  /\ n \notin revoked
  /\ request.consume => n \notin seen
  /\ capabilities[n].consent.priced => request.paid

RefusePresentation(n, request) == ~Admitted(n, request) /\ UNCHANGED vars

\* Refused after it was counted: the attempt is gone from the consent's budget.
DenyPresentation(n, request) ==
  /\ Admitted(n, request) /\ ~Acceptable(n, request)
  /\ Count(capabilities[n].consent)
  /\ UNCHANGED <<now, vaultVars, seen, revoked, usage, admitted, disclosures>>

\* Mutation: only the presentation that spends the token is metered.
MutRecordUsage(n, request) ==
  usage' = IF request.consume
           THEN With(usage, capabilities[n].consent, [count |-> 1, at |-> now])
           ELSE usage

RecordUsage(n, request) ==
  LET consent == capabilities[n].consent
  IN usage' = With(usage, consent,
       [count |-> 1 + IF consent \in DOMAIN usage THEN usage[consent].count ELSE 0,
        at |-> now])

AllowPresentation(n, request) ==
  /\ Len(admitted) < MaxAdmitted
  /\ Admitted(n, request) /\ Acceptable(n, request)
  /\ Count(capabilities[n].consent)
  /\ RecordUsage(n, request)
  /\ admitted' = Append(admitted, [consent |-> capabilities[n].consent, at |-> now])
  /\ IF request.consume
     THEN Spend(n) /\ Disclose(n, {request.resource}, request.paid)
     ELSE UNCHANGED <<seen, disclosures>>
  /\ UNCHANGED <<now, vaultVars, revoked>>

ConsumeCapabilityAccess(n, request) ==
  \/ RefusePresentation(n, request)
  \/ DenyPresentation(n, request)
  \/ AllowPresentation(n, request)

-----------------------------------------------------------------------------
(* The verifier *)

Started(token) ==
  now >= IF token.notBefore = Absent THEN token.issuedAt ELSE token.notBefore

Verifies(n) ==
  /\ now <= capabilities[n].expiresAt /\ Started(capabilities[n])
  /\ n \notin revoked /\ n \notin seen

RejectToken(n) == ~Verifies(n) /\ UNCHANGED vars

VerifyCapabilityToken(n) ==
  /\ Verifies(n)
  /\ Spend(n)
  /\ UNCHANGED <<now, vaultVars, revoked, gatewayVars, disclosures>>

Tick ==
  /\ now < MaxTime
  /\ now' = now + 1
  /\ UNCHANGED <<vaultVars, seen, revoked, gatewayVars, disclosures>>

Next ==
  \/ \E t \in ConsentTerms : GrantConsent(t)
  \/ \E s \in Subjects, n \in DOMAIN capabilities : RevokeByConsent(s, n)
  \/ \E c \in consents, t \in MintTerms : MintCapability(c, t)
  \/ \E n \in DOMAIN capabilities : RevokeCapability(n)
  \/ \E p \in DOMAIN Packs, ms \in Mappings : RegisterPack(p, ms)
  \/ \E n \in DOMAIN capabilities, ps \in SUBSET Paths, p \in DOMAIN Packs :
       RequestAccess(n, ps, p)
  \/ \E n \in DOMAIN capabilities, r \in Presentations :
       ConsumeCapabilityAccess(n, r)
  \/ \E n \in DOMAIN capabilities : RejectToken(n) \/ VerifyCapabilityToken(n)
  \/ Tick

Spec == Init /\ [][Next]_vars

-----------------------------------------------------------------------------
TypeOK ==
  /\ now \in 0..MaxTime
  /\ \A c \in consents : c.action \in {"grant", "revoke"} /\ c.issuedAt \in 0..now
  /\ packs \subseteq DOMAIN Packs
  /\ sdlMappings \in [Paths -> Fields \cup {Absent}]
  /\ \A n \in DOMAIN capabilities : capabilities[n].consent \in consents
  /\ seen \cup revoked \subseteq DOMAIN capabilities
  /\ DOMAIN usage \subseteq DOMAIN windows /\ DOMAIN windows \subseteq consents
  /\ \A d \in disclosures : d.token \in seen /\ d.at \in 0..now

\* The three places together keep the promise of a token: used once, in time,
\* never after its revocation, and all it gives is decided in that use, although
\* the vault asks again and again within one request and no longer for a fresh
\* token, and the gateway may be asked without consuming.
Used ==
  INSTANCE CapabilityUse WITH
    Items <- Resources, Lives <- {t.life : t \in MintTerms},
    issued <- [n \in DOMAIN capabilities |->
                 [scope |-> capabilities[n].scope, expiresAt |-> capabilities[n].expiresAt]],
    uses <- [n \in seen |-> {d.item : d \in {e \in disclosures : e.token = n}}]

ImplementsCapabilityUse == Used!Spec

\* What was given out was consented to, when it was given out: by the consent's
\* subject, within its scope and its window, and paid for if it has a price.
\* (Nothing the vault gives out is under a priced consent.)
DisclosedUnderConsent ==
  \A d \in disclosures :
    LET consent == capabilities[d.token].consent
    IN /\ consent.action = "grant" /\ d.item \in consent.scope
       /\ consent.issuedAt <= d.at
       /\ consent.expiresAt # Absent => d.at <= consent.expiresAt
       /\ consent.priced => d.paid

AdmittedUnder(consent) == {i \in DOMAIN admitted : admitted[i].consent = consent}

\* A consent's budget covers all its tokens together: since its window opened,
\* the gateway allowed no more presentations under it than the limit, whatever
\* became of the attempts it counted and refused.
BudgetHolds ==
  \A c \in DOMAIN windows :
    Cardinality({i \in AdmittedUnder(c) : admitted[i].at >= windows[c].startedAt})
      <= MaxAttempts

\* The usage of a consent counts every presentation the gateway allowed under
\* it, of whatever token and whether it consumed or not, and dates the last.
UsageCountsAllowed ==
  \A c \in consents :
    IF c \in DOMAIN usage
    THEN /\ usage[c].count = Cardinality(AdmittedUnder(c))
         /\ \A i \in AdmittedUnder(c) : admitted[i].at <= usage[c].at
    ELSE AdmittedUnder(c) = {}
=============================================================================
