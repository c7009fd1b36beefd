------------------------ MODULE CapabilityAccessProofs ------------------------
(***************************************************************************)
(* The vault, the gateway and the verifier together implement CapabilityUse *)
(* for any consents, tokens, packs, presentations and limits, and what they *)
(* give out is always covered by a consent.  The gateway never admits more   *)
(* under a consent than its budget allows within a window, and its usage     *)
(* counts what it admitted.                                                 *)
(***************************************************************************)
EXTENDS CapabilityAccess, SequenceTheorems, FiniteSetTheorems, TLAPS

\* A grant covers resources, from a moment that has passed.
GrantsInv ==
  \A c \in consents : c.action = "grant" =>
    c.scope \subseteq Resources /\ c.issuedAt \in Nat /\ c.issuedAt <= now

\* A token was minted under such a grant and stays within its scope.
MintedUnder(token) ==
  /\ token.consent.action = "grant"
  /\ token.scope \subseteq token.consent.scope /\ token.scope \subseteq Resources
  /\ token.consent.issuedAt \in Nat /\ token.consent.issuedAt <= now

TokensInv ==
  /\ now \in Nat
  /\ \E S : capabilities \in Seq(S)
  /\ GrantsInv
  /\ \A n \in DOMAIN capabilities : MintedUnder(capabilities[n])
  /\ seen \subseteq DOMAIN capabilities

\* What one disclosure owes to the consent it was made under.
Covered(d, consent) ==
  /\ consent.action = "grant" /\ d.item \in consent.scope
  /\ consent.issuedAt <= d.at
  /\ consent.expiresAt # Absent => d.at <= consent.expiresAt
  /\ consent.priced => d.paid

DisclosuresInv ==
  \A d \in disclosures : d.token \in seen /\ Covered(d, capabilities[d.token].consent)

Inv == TokensInv /\ DisclosuresInv

-----------------------------------------------------------------------------
(* Nothing is stored at first.                                               *)
LEMMA InvInit == Init => Inv
<1>. SUFFICES ASSUME Init PROVE Inv
  OBVIOUS
<1>1. capabilities \in Seq({}) /\ DOMAIN capabilities = {}
  BY DEF Init
<1>. QED
  BY <1>1 DEF Init, Inv, TokensInv, GrantsInv, DisclosuresInv

(* A new consent covers resources from now on.                               *)
LEMMA GrantKeepsInv ==
  ASSUME Inv, NEW terms \in ConsentTerms, GrantConsent(terms) PROVE Inv'
<1> DEFINE c == Consent(terms)
<1>1. c.scope \subseteq Resources /\ c.issuedAt \in Nat /\ c.issuedAt <= now
  BY CapabilityAssumption DEF Inv, TokensInv, Consent
<1>2. consents' = consents \cup {c} /\ now' = now
  BY DEF GrantConsent
<1>. HIDE DEF c
<1>3. GrantsInv'
  BY <1>1, <1>2 DEF Inv, TokensInv, GrantsInv
<1>. QED
  BY <1>3 DEF Inv, TokensInv, DisclosuresInv, GrantConsent, MintedUnder

(* A revocation grants nothing and changes no token.                         *)
LEMMA RevokeKeepsInv ==
  ASSUME Inv, NEW n, \/ RevokeCapability(n)
                     \/ \E subject \in Subjects : RevokeByConsent(subject, n)
  PROVE  Inv'
<1>1. CASE RevokeCapability(n)
  BY <1>1 DEF Inv, TokensInv, GrantsInv, DisclosuresInv, RevokeCapability, vaultVars, MintedUnder
<1>2. ASSUME NEW subject \in Subjects, RevokeByConsent(subject, n) PROVE Inv'
  <2>1. PICK r : r = [action |-> "revoke", subject |-> subject, target |-> n, issuedAt |-> now]
    OBVIOUS
  <2>2. consents' = consents \cup {r} /\ r.action # "grant"
    BY <1>2, <2>1 DEF RevokeByConsent
  <2>3. GrantsInv'
    BY <1>2, <2>2 DEF Inv, TokensInv, GrantsInv, RevokeByConsent
  <2>. QED
    BY <1>2, <2>3 DEF Inv, TokensInv, DisclosuresInv, RevokeByConsent, MintedUnder
<1>. QED
  BY <1>1, <1>2

(* A new token is minted under a stored consent, within its scope.           *)
LEMMA MintKeepsInv ==
  ASSUME Inv, NEW consent \in consents, NEW terms \in MintTerms,
         MintCapability(consent, terms)
  PROVE  Inv'
<1> DEFINE t == Token(consent, terms)
<1>1. MintedUnder(t)
  BY DEF Inv, TokensInv, GrantsInv, MintCapability, Mintable, MintedUnder, Token
<1>2. capabilities' = Append(capabilities, t)
  BY DEF MintCapability
<1>. HIDE DEF t
<1>3. PICK S : capabilities \in Seq(S)
  BY DEF Inv, TokensInv
<1>4. capabilities' \in Seq(S \cup {t})
  BY <1>2, <1>3
<1>5. /\ DOMAIN capabilities \subseteq DOMAIN capabilities'
      /\ \A n \in DOMAIN capabilities : capabilities'[n] = capabilities[n]
      /\ \A n \in DOMAIN capabilities' \ DOMAIN capabilities : capabilities'[n] = t
  BY <1>2, <1>3
<1>6. UNCHANGED <<now, consents, seen, disclosures>>
  BY DEF MintCapability
<1>7. TokensInv'
  BY <1>1, <1>4, <1>5, <1>6 DEF Inv, TokensInv, GrantsInv, MintedUnder
<1>8. DisclosuresInv'
  BY <1>5, <1>6 DEF Inv, TokensInv, DisclosuresInv, Covered
<1>. QED
  BY <1>7, <1>8 DEF Inv

-----------------------------------------------------------------------------
(* The three places differ in what they give out; each use spends the token. *)

\* A call that uses token n and gives out items.
UsedFor(n, items, paid) ==
  /\ n \in DOMAIN capabilities /\ n \notin seen /\ n \notin revoked
  /\ now <= capabilities[n].expiresAt
  /\ items \subseteq capabilities[n].scope
  /\ items # {} => Unexpired(capabilities[n]) /\ (capabilities[n].consent.priced => paid)
  /\ Spend(n)
  /\ Disclose(n, items, paid)
  /\ UNCHANGED <<now, consents, capabilities, revoked>>

IsUse(n) == \E items \in SUBSET capabilities[n].scope : \E paid \in BOOLEAN : UsedFor(n, items, paid)

NoUse == UNCHANGED <<now, consents, capabilities, seen, revoked, disclosures>>

(* A vault request allowed or denied after its first path is one use.        *)
LEMMA RequestUses ==
  ASSUME Inv, NEW n \in DOMAIN capabilities, NEW paths \in SUBSET Paths, NEW pack,
         RequestAccess(n, paths, pack)
  PROVE  IsUse(n) \/ NoUse
<1>1. CASE RefuseAccess(n, paths, pack)
  BY <1>1 DEF RefuseAccess, NoUse, vars, vaultVars
<1>2. ASSUME Opens(n, paths, pack)
      PROVE  /\ n \notin seen /\ n \notin revoked
             /\ Unexpired(capabilities[n]) /\ ~capabilities[n].consent.priced
  BY <1>2 DEF Opens, Readable, Authorizes
<1>3. CASE DenyAccess(n, paths, pack)
  <2>1. disclosures' = disclosures \cup {[token |-> n, item |-> i, at |-> now, paid |-> FALSE] : i \in {}}
    BY <1>3 DEF DenyAccess
  <2>2. UsedFor(n, {}, FALSE)
    BY <1>2, <1>3, <2>1 DEF DenyAccess, UsedFor, Unexpired, Disclose, vaultVars
  <2>. QED
    BY <2>2 DEF IsUse
<1>4. CASE AllowAccess(n, paths, pack)
  <2> DEFINE items == {Authority(n, p, pack) : p \in Resolved(paths, pack)}
  <2>1. ASSUME NEW p \in Resolved(paths, pack)
        PROVE  Authority(n, p, pack) \in capabilities[n].scope
    BY <1>4 DEF AllowAccess, Readable, Authorizes, Authority
  <2>2. items \subseteq capabilities[n].scope
    BY <2>1
  <2>3. Disclose(n, items, FALSE)
    BY <1>4 DEF AllowAccess
  <2>. HIDE DEF items
  <2>4. UsedFor(n, items, FALSE)
    BY <1>2, <1>4, <2>2, <2>3 DEF AllowAccess, UsedFor, Unexpired, vaultVars
  <2>. QED
    BY <2>2, <2>4 DEF IsUse
<1>. QED
  BY <1>1, <1>3, <1>4 DEF RequestAccess

(* A presentation uses the token if it is allowed and consumes.              *)
LEMMA PresentationUses ==
  ASSUME Inv, NEW n \in DOMAIN capabilities, NEW request \in Presentations,
         ConsumeCapabilityAccess(n, request)
  PROVE  IsUse(n) \/ NoUse
<1>1. CASE RefusePresentation(n, request)
  BY <1>1 DEF RefusePresentation, NoUse, vars, vaultVars
<1>2. CASE DenyPresentation(n, request)
  BY <1>2 DEF DenyPresentation, NoUse, vaultVars
<1>3. CASE AllowPresentation(n, request) /\ ~request.consume
  BY <1>3 DEF AllowPresentation, NoUse, vaultVars
<1>4. CASE AllowPresentation(n, request) /\ request.consume
  <2> DEFINE items == {request.resource}
  <2>1. items \subseteq capabilities[n].scope /\ Unexpired(capabilities[n])
    BY <1>4 DEF AllowPresentation, Admitted, Authorizes
  <2>2. request.paid \in BOOLEAN
    BY CapabilityAssumption
  <2>3. Spend(n) /\ Disclose(n, items, request.paid)
    BY <1>4 DEF AllowPresentation
  <2>4. n \notin revoked /\ n \notin seen /\ (capabilities[n].consent.priced => request.paid)
    BY <1>4 DEF AllowPresentation, Acceptable
  <2>. HIDE DEF items
  <2>5. UsedFor(n, items, request.paid)
    BY <1>4, <2>1, <2>3, <2>4 DEF AllowPresentation, UsedFor, Unexpired, vaultVars
  <2>. QED
    BY <2>1, <2>2, <2>5 DEF IsUse
<1>. QED
  BY <1>1, <1>2, <1>3, <1>4 DEF ConsumeCapabilityAccess

(* The verifier uses a token it accepts and gives nothing out.               *)
LEMMA VerificationUses ==
  ASSUME Inv, NEW n \in DOMAIN capabilities, RejectToken(n) \/ VerifyCapabilityToken(n)
  PROVE  IsUse(n) \/ NoUse
<1>1. CASE RejectToken(n)
  BY <1>1 DEF RejectToken, NoUse, vars, vaultVars
<1>2. CASE VerifyCapabilityToken(n)
  <2>1. disclosures' = disclosures \cup {[token |-> n, item |-> i, at |-> now, paid |-> FALSE] : i \in {}}
    BY <1>2 DEF VerifyCapabilityToken
  <2>2. UsedFor(n, {}, FALSE)
    BY <1>2, <2>1 DEF VerifyCapabilityToken, Verifies, UsedFor, Disclose, vaultVars
  <2>. QED
    BY <2>2 DEF IsUse
<1>. QED
  BY <1>1, <1>2

-----------------------------------------------------------------------------
(* A use keeps the invariant: the token was minted within its consent, and   *)
(* the consent's window covers this moment.                                  *)
LEMMA UseKeepsInv ==
  ASSUME Inv, NEW n \in DOMAIN capabilities, IsUse(n)
  PROVE  Inv'
<1>1. PICK items \in SUBSET capabilities[n].scope, paid \in BOOLEAN : UsedFor(n, items, paid)
  BY DEF IsUse
<1>2. TokensInv'
  BY <1>1 DEF Inv, TokensInv, GrantsInv, MintedUnder, UsedFor, Spend
<1>3. ASSUME NEW i \in items
      PROVE  Covered([token |-> n, item |-> i, at |-> now, paid |-> paid], capabilities[n].consent)
  BY <1>1, <1>3 DEF UsedFor, Unexpired, Covered, Inv, TokensInv, MintedUnder
<1>4. DisclosuresInv'
  <2>1. SUFFICES ASSUME NEW d \in disclosures'
                 PROVE  d.token \in seen' /\ Covered(d, capabilities[d.token].consent)
    BY <1>1 DEF DisclosuresInv, UsedFor, Covered
  <2>2. CASE d \in disclosures
    BY <1>1, <2>2 DEF Inv, DisclosuresInv, UsedFor, Spend
  <2>3. CASE d \notin disclosures
    <3>1. PICK i \in items : d = [token |-> n, item |-> i, at |-> now, paid |-> paid]
      BY <1>1, <2>3 DEF UsedFor, Disclose
    <3>2. d.token = n
      BY <3>1
    <3>. QED
      BY <1>1, <1>3, <3>1, <3>2 DEF UsedFor, Spend
  <2>. QED
    BY <2>2, <2>3
<1>. QED
  BY <1>2, <1>4 DEF Inv

(* Each operation keeps the invariant; most of them use no token.            *)
LEMMA InvStep == Inv /\ [Next]_vars => Inv'
<1>. SUFFICES ASSUME Inv, [Next]_vars PROVE Inv'
  OBVIOUS
<1>1. ASSUME NoUse PROVE Inv'
  BY <1>1 DEF NoUse, Inv, TokensInv, GrantsInv, MintedUnder, DisclosuresInv, Covered
<1>2. ASSUME NEW t \in ConsentTerms, GrantConsent(t) PROVE Inv'
  BY <1>2, GrantKeepsInv
<1>3. ASSUME NEW subject \in Subjects, NEW n \in DOMAIN capabilities,
             RevokeByConsent(subject, n)
      PROVE  Inv'
  BY <1>3, RevokeKeepsInv
<1>4. ASSUME NEW c \in consents, NEW t \in MintTerms, MintCapability(c, t) PROVE Inv'
  BY <1>4, MintKeepsInv
<1>5. ASSUME NEW n \in DOMAIN capabilities, RevokeCapability(n) PROVE Inv'
  BY <1>5, RevokeKeepsInv
<1>6. ASSUME NEW pack \in DOMAIN Packs, NEW ms \in Mappings, RegisterPack(pack, ms) PROVE Inv'
  BY <1>1, <1>6 DEF RegisterPack, NoUse
<1>7. ASSUME NEW n \in DOMAIN capabilities, NEW ps \in SUBSET Paths, NEW pack \in DOMAIN Packs,
             RequestAccess(n, ps, pack)
      PROVE  Inv'
  BY <1>1, <1>7, RequestUses, UseKeepsInv
<1>8. ASSUME NEW n \in DOMAIN capabilities, NEW r \in Presentations,
             ConsumeCapabilityAccess(n, r)
      PROVE  Inv'
  BY <1>1, <1>8, PresentationUses, UseKeepsInv
<1>9. ASSUME NEW n \in DOMAIN capabilities, RejectToken(n) \/ VerifyCapabilityToken(n)
      PROVE  Inv'
  BY <1>1, <1>9, VerificationUses, UseKeepsInv
<1>10. CASE Tick
  BY <1>10 DEF Tick, vaultVars, Inv, TokensInv, GrantsInv, MintedUnder, DisclosuresInv, Covered
<1>11. CASE UNCHANGED vars
  BY <1>1, <1>11 DEF vars, vaultVars, NoUse
<1>. QED
  BY <1>2, <1>3, <1>4, <1>5, <1>6, <1>7, <1>8, <1>9, <1>10, <1>11 DEF Next

(* What is given out was consented to, whoever gives it out and whatever     *)
(* else happens.                                                             *)
THEOREM DisclosuresConsented == Spec => []DisclosedUnderConsent
<1>1. Inv => DisclosedUnderConsent
  BY DEF Inv, DisclosuresInv, Covered, DisclosedUnderConsent
<1>. QED
  BY <1>1, InvInit, InvStep, PTL DEF Spec

-----------------------------------------------------------------------------
(* The refinement: tokens stand for themselves, and the uses of a token for  *)
(* what was disclosed under it.                                              *)

Issued(token) == [scope |-> token.scope, expiresAt |-> token.expiresAt]
IssuedTokens == [n \in DOMAIN capabilities |-> Issued(capabilities[n])]
ItemsOf(n) == {d.item : d \in {e \in disclosures : e.token = n}}
UsesOf == [n \in seen |-> ItemsOf(n)]

(* Before the first token the abstract system has none either.               *)
LEMMA RefinesInit == Init => Used!Init
<1>. SUFFICES ASSUME Init PROVE Used!Init
  OBVIOUS
<1>1. IssuedTokens = <<>>
  BY DEF Init, IssuedTokens
<1>2. UsesOf = <<>>
  BY DEF Init, UsesOf
<1>. QED
  BY <1>1, <1>2 DEF Init, Used!Init, IssuedTokens, Issued, UsesOf, ItemsOf

(* Minting a token is issuing it: the others stay as they were issued.       *)
LEMMA MintIssues ==
  ASSUME Inv, NEW consent \in consents, NEW terms \in MintTerms,
         MintCapability(consent, terms)
  PROVE  Used!Issue(terms.scope, terms.life)
<1> DEFINE t == Token(consent, terms)
<1>1. Issued(t) = [scope |-> terms.scope, expiresAt |-> now + terms.life]
  BY DEF Issued, Token
<1>2. capabilities' = Append(capabilities, t) /\ UNCHANGED <<now, seen, revoked, disclosures>>
  BY DEF MintCapability
<1>. HIDE DEF t
<1>3. PICK S : capabilities \in Seq(S)
  BY DEF Inv, TokensInv
<1>4. IssuedTokens' = Append(IssuedTokens, Issued(t))
  <2>1. DOMAIN capabilities = 1..Len(capabilities) /\ Len(capabilities) \in Nat
    BY <1>3
  <2>2. /\ DOMAIN capabilities' = 1..(Len(capabilities) + 1)
        /\ \A n \in DOMAIN capabilities : capabilities'[n] = capabilities[n]
        /\ capabilities'[Len(capabilities) + 1] = t
    BY <1>2, <1>3
  <2> DEFINE R == {Issued(capabilities[n]) : n \in DOMAIN capabilities}
  <2>3. IssuedTokens \in Seq(R) /\ Len(IssuedTokens) = Len(capabilities)
    BY <2>1 DEF IssuedTokens
  <2>4. /\ DOMAIN Append(IssuedTokens, Issued(t)) = 1..(Len(capabilities) + 1)
        /\ \A n \in DOMAIN capabilities : Append(IssuedTokens, Issued(t))[n] = IssuedTokens[n]
        /\ Append(IssuedTokens, Issued(t))[Len(capabilities) + 1] = Issued(t)
    BY <2>1, <2>3
  <2>5. Append(IssuedTokens, Issued(t)) = [n \in 1..(Len(capabilities) + 1) |-> Append(IssuedTokens, Issued(t))[n]]
    <3>1. Append(IssuedTokens, Issued(t)) \in Seq(R \cup {Issued(t)})
      BY <2>3
    <3>2. Append(IssuedTokens, Issued(t)) \in [1..(Len(capabilities) + 1) -> R \cup {Issued(t)}]
      <4>1. Len(Append(IssuedTokens, Issued(t))) = Len(capabilities) + 1
        BY <2>3
      <4> DEFINE q == Append(IssuedTokens, Issued(t))
      <4>. HIDE DEF q
      <4>2. q \in Seq(R \cup {Issued(t)}) => q \in [1..Len(q) -> R \cup {Issued(t)}]
        BY LenProperties
      <4>. QED
        BY <3>1, <4>1, <4>2 DEF q
    <3>. QED
      BY <3>2
  <2>6. ASSUME NEW n \in 1..(Len(capabilities) + 1)
        PROVE  Issued(capabilities'[n]) = Append(IssuedTokens, Issued(t))[n]
    BY <2>1, <2>2, <2>4 DEF IssuedTokens
  <2>. QED
    BY <2>2, <2>5, <2>6 DEF IssuedTokens, Issued
<1>5. UsesOf' = UsesOf
  BY <1>2 DEF UsesOf, ItemsOf
<1>. QED
  BY <1>1, <1>2, <1>4, <1>5 DEF Used!Issue, IssuedTokens, Issued, UsesOf, ItemsOf

(* Before its use nothing was given out under a token: what the abstract use *)
(* decides is exactly what this call discloses.                              *)
LEMMA UseImplementsUse ==
  ASSUME Inv, NEW n \in DOMAIN capabilities, IsUse(n)
  PROVE  \E items \in SUBSET IssuedTokens[n].scope : Used!Use(n, items)
<1>1. PICK items \in SUBSET capabilities[n].scope, paid \in BOOLEAN : UsedFor(n, items, paid)
  BY DEF IsUse
<1>2. seen' = seen \cup {n} /\ UNCHANGED <<now, capabilities, revoked>>
  BY <1>1 DEF UsedFor, Spend
<1>3. disclosures' = disclosures \cup {[token |-> n, item |-> i, at |-> now, paid |-> paid] : i \in items}
  BY <1>1 DEF UsedFor, Disclose
<1>4. \A d \in disclosures : d.token # n
  BY <1>1 DEF UsedFor, Inv, DisclosuresInv
<1>5. ItemsOf(n)' = items
  <2> DEFINE new == {[token |-> n, item |-> i, at |-> now, paid |-> paid] : i \in items}
  <2>1. \A d \in new : d.token = n /\ d.item \in items
    OBVIOUS
  <2>2. ASSUME NEW i \in items PROVE \E d \in new : d.item = i
    <3>1. [token |-> n, item |-> i, at |-> now, paid |-> paid] \in new
      OBVIOUS
    <3>. QED
      BY <3>1
  <2>3. disclosures' = disclosures \cup new
    BY <1>3
  <2>. HIDE DEF new
  <2>4. {e \in disclosures' : e.token = n} = new
    BY <1>4, <2>1, <2>3
  <2>. QED
    BY <2>1, <2>2, <2>4 DEF ItemsOf
<1>6. ASSUME NEW m \in seen PROVE ItemsOf(m)' = ItemsOf(m)
  <2>1. m # n
    BY <1>1, <1>6 DEF UsedFor
  <2>2. \A d : d \in disclosures' /\ d.token = m <=> d \in disclosures /\ d.token = m
    BY <1>3, <2>1
  <2>. QED
    BY <2>2 DEF ItemsOf
<1>7. UsesOf' = [m \in DOMAIN UsesOf \cup {n} |-> IF m = n THEN items ELSE UsesOf[m]]
  <2>1. n \notin seen /\ DOMAIN UsesOf = seen
    BY <1>1 DEF UsedFor, UsesOf
  <2>. QED
    BY <1>2, <1>5, <1>6, <2>1 DEF UsesOf
<1>8. IssuedTokens' = IssuedTokens
  BY <1>2 DEF IssuedTokens, Issued
<1>9. /\ n \in DOMAIN IssuedTokens \ (revoked \cup DOMAIN UsesOf)
      /\ now <= IssuedTokens[n].expiresAt
      /\ IssuedTokens[n].scope = capabilities[n].scope
  BY <1>1 DEF UsedFor, IssuedTokens, Issued, UsesOf
<1>10. Used!Use(n, items)
  BY <1>2, <1>7, <1>8, <1>9 DEF Used!Use, Used!Usable, IssuedTokens, Issued, UsesOf, ItemsOf
<1>. QED
  BY <1>9, <1>10

(* Every step of the three places issues, uses or revokes a token, lets time *)
(* pass, or is none of the promise's business.                               *)
LEMMA RefinesStep == Inv /\ [Next]_vars => [Used!Next]_(Used!usesVars)
<1>. SUFFICES ASSUME Inv, [Next]_vars PROVE Used!Next \/ UNCHANGED Used!usesVars
  OBVIOUS
<1>1. ASSUME NoUse PROVE UNCHANGED Used!usesVars
  BY <1>1 DEF NoUse, Used!usesVars
<1>2. ASSUME NEW n \in DOMAIN capabilities, IsUse(n) PROVE Used!Next
  BY <1>2, UseImplementsUse DEF Used!Next, IssuedTokens, Issued
<1>3. ASSUME NEW t \in ConsentTerms, GrantConsent(t) PROVE UNCHANGED Used!usesVars
  BY <1>3 DEF GrantConsent, Used!usesVars
<1>4. ASSUME NEW n \in DOMAIN capabilities,
             RevokeCapability(n) \/ \E subject \in Subjects : RevokeByConsent(subject, n)
      PROVE  Used!Next
  BY <1>4 DEF RevokeCapability, RevokeByConsent, vaultVars, Used!Next, Used!Revoke
<1>5. ASSUME NEW c \in consents, NEW t \in MintTerms, MintCapability(c, t) PROVE Used!Next
  <2>1. Used!Issue(t.scope, t.life)
    BY <1>5, MintIssues
  <2>2. t.scope \subseteq Resources
    BY <1>5 DEF MintCapability, Mintable, Inv, TokensInv, GrantsInv
  <2>. QED
    BY <2>1, <2>2 DEF Used!Next
<1>6. ASSUME NEW pack \in DOMAIN Packs, NEW ms \in Mappings, RegisterPack(pack, ms)
      PROVE  UNCHANGED Used!usesVars
  BY <1>6 DEF RegisterPack, Used!usesVars
<1>7. ASSUME NEW n \in DOMAIN capabilities, NEW ps \in SUBSET Paths, NEW pack \in DOMAIN Packs,
             RequestAccess(n, ps, pack)
      PROVE  Used!Next \/ UNCHANGED Used!usesVars
  BY <1>1, <1>2, <1>7, RequestUses
<1>8. ASSUME NEW n \in DOMAIN capabilities, NEW r \in Presentations,
             ConsumeCapabilityAccess(n, r)
      PROVE  Used!Next \/ UNCHANGED Used!usesVars
  BY <1>1, <1>2, <1>8, PresentationUses
<1>9. ASSUME NEW n \in DOMAIN capabilities, RejectToken(n) \/ VerifyCapabilityToken(n)
      PROVE  Used!Next \/ UNCHANGED Used!usesVars
  BY <1>1, <1>2, <1>9, VerificationUses
<1>10. CASE Tick
  BY <1>10 DEF Tick, vaultVars, Used!Next, Used!Pass
<1>11. CASE UNCHANGED vars
  BY <1>11 DEF vars, vaultVars, Used!usesVars
<1>. QED
  BY <1>3, <1>4, <1>5, <1>6, <1>7, <1>8, <1>9, <1>10, <1>11 DEF Next

(* The vault, the gateway and the verifier keep the promise of a token: it   *)
(* is used once, in time, not after its revocation, and all it gives out is  *)
(* decided in that use, within its scope.                                    *)
THEOREM CapabilitiesUsedOnce == Spec => ImplementsCapabilityUse
<1>. QED
  BY InvInit, InvStep, RefinesInit, RefinesStep, PTL
     DEF Spec, ImplementsCapabilityUse, Used!Spec

-----------------------------------------------------------------------------
(* What is stored: the registries only know tokens that were minted, under   *)
(* consents that were given.                                                 *)

StoresInv ==
  /\ now \in 0..MaxTime
  /\ \A c \in consents : c.action \in {"grant", "revoke"} /\ c.issuedAt \in 0..now
  /\ packs \subseteq DOMAIN Packs
  /\ sdlMappings \in [Paths -> Fields \cup {Absent}]
  /\ \A n \in DOMAIN capabilities : capabilities[n].consent \in consents
  /\ revoked \subseteq DOMAIN capabilities
  /\ \A d \in disclosures : d.at \in 0..now

(* The stores are empty at first.                                            *)
LEMMA StoresInit == Init => StoresInv
<1>. SUFFICES ASSUME Init PROVE StoresInv
  OBVIOUS
<1>1. 0 \in 0..MaxTime
  BY CapabilityAssumption
<1>. QED
  BY <1>1 DEF Init, StoresInv

(* A use discloses things now, and stores nothing else.                      *)
LEMMA UseKeepsStores ==
  ASSUME StoresInv, NEW n \in DOMAIN capabilities, IsUse(n),
         UNCHANGED <<packs, sdlMappings>>
  PROVE  StoresInv'
<1>1. PICK items \in SUBSET capabilities[n].scope, paid \in BOOLEAN : UsedFor(n, items, paid)
  BY DEF IsUse
<1>2. ASSUME NEW d \in disclosures' PROVE d.at \in 0..now
  BY <1>1 DEF UsedFor, Disclose, StoresInv
<1>. QED
  BY <1>1, <1>2 DEF UsedFor, StoresInv

(* The paths of a pack are mapped to fields.                                 *)
LEMMA MappedTyped ==
  ASSUME StoresInv, NEW ms \in Mappings
  PROVE  Mapped(ms) \in [Paths -> Fields \cup {Absent}]
<1>1. ms \subseteq Paths \X Fields
  BY CapabilityAssumption
<1>2. ASSUME NEW p \in Paths, \E m \in ms : m[1] = p
      PROVE  (CHOOSE m \in ms : m[1] = p)[2] \in Fields
  BY <1>1, <1>2
<1>3. \A p \in Paths : sdlMappings[p] \in Fields \cup {Absent}
  BY DEF StoresInv
<1>. QED
  BY <1>2, <1>3 DEF Mapped

(* A call that uses a token, or none, leaves packs and paths alone.          *)
LEMMA CallsKeepPacks ==
  ASSUME NEW n, NEW ps, NEW pack, NEW r,
         \/ RequestAccess(n, ps, pack) \/ ConsumeCapabilityAccess(n, r)
         \/ RejectToken(n) \/ VerifyCapabilityToken(n)
  PROVE  UNCHANGED <<packs, sdlMappings>>
  BY DEF RequestAccess, RefuseAccess, DenyAccess, AllowAccess, ConsumeCapabilityAccess,
         RefusePresentation, DenyPresentation, AllowPresentation, RejectToken,
         VerifyCapabilityToken, vars, vaultVars

(* Each operation stores what it should: a new consent dates from now, a new *)
(* token is of a stored consent, and only minted tokens are revoked.         *)
LEMMA StoresStep == Inv /\ StoresInv /\ [Next]_vars => StoresInv'
<1>. SUFFICES ASSUME Inv, StoresInv, [Next]_vars PROVE StoresInv'
  OBVIOUS
<1>. now \in Nat /\ MaxTime \in Nat
  BY CapabilityAssumption DEF StoresInv
<1>1. ASSUME NoUse, UNCHANGED <<packs, sdlMappings>> PROVE StoresInv'
  BY <1>1 DEF NoUse, StoresInv
<1>2. ASSUME NEW t \in ConsentTerms, GrantConsent(t) PROVE StoresInv'
  <2>1. PICK c : c = Consent(t)
    OBVIOUS
  <2>2. c.action = "grant" /\ c.issuedAt = now
    BY <2>1 DEF Consent
  <2>3. consents' = consents \cup {c}
    BY <1>2, <2>1 DEF GrantConsent
  <2>. QED
    BY <1>2, <2>2, <2>3 DEF GrantConsent, StoresInv
<1>3. ASSUME NEW subject \in Subjects, NEW n \in DOMAIN capabilities,
             RevokeByConsent(subject, n)
      PROVE  StoresInv'
  <2>1. PICK c : c = [action |-> "revoke", subject |-> subject, target |-> n, issuedAt |-> now]
    OBVIOUS
  <2>2. c.action = "revoke" /\ c.issuedAt = now
    BY <2>1
  <2>3. consents' = consents \cup {c}
    BY <1>3, <2>1 DEF RevokeByConsent
  <2>. QED
    BY <1>3, <2>2, <2>3 DEF RevokeByConsent, StoresInv
<1>4. ASSUME NEW c \in consents, NEW t \in MintTerms, MintCapability(c, t) PROVE StoresInv'
  <2>1. PICK k : k = Token(c, t)
    OBVIOUS
  <2>2. k.consent = c
    BY <2>1 DEF Token
  <2>3. capabilities' = Append(capabilities, k)
    BY <1>4, <2>1 DEF MintCapability
  <2>4. PICK S : capabilities \in Seq(S)
    BY DEF Inv, TokensInv
  <2>5. /\ DOMAIN capabilities \subseteq DOMAIN capabilities'
        /\ \A n \in DOMAIN capabilities : capabilities'[n] = capabilities[n]
        /\ \A n \in DOMAIN capabilities' \ DOMAIN capabilities : capabilities'[n] = k
    BY <2>3, <2>4
  <2>6. UNCHANGED <<now, consents, packs, sdlMappings, revoked, disclosures>>
    BY <1>4 DEF MintCapability
  <2>. QED
    BY <2>2, <2>5, <2>6 DEF StoresInv
<1>5. ASSUME NEW n \in DOMAIN capabilities, RevokeCapability(n) PROVE StoresInv'
  BY <1>5 DEF RevokeCapability, vaultVars, StoresInv
<1>6. ASSUME NEW pack \in DOMAIN Packs, NEW ms \in Mappings, RegisterPack(pack, ms)
      PROVE  StoresInv'
  <2>1. sdlMappings' \in [Paths -> Fields \cup {Absent}]
    BY <1>6, MappedTyped DEF RegisterPack
  <2>. QED
    BY <1>6, <2>1 DEF RegisterPack, StoresInv
<1>7. ASSUME NEW n \in DOMAIN capabilities, NEW ps \in SUBSET Paths, NEW pack \in DOMAIN Packs,
             RequestAccess(n, ps, pack)
      PROVE  StoresInv'
  BY <1>1, <1>7, RequestUses, UseKeepsStores, CallsKeepPacks
<1>8. ASSUME NEW n \in DOMAIN capabilities, NEW r \in Presentations,
             ConsumeCapabilityAccess(n, r)
      PROVE  StoresInv'
  BY <1>1, <1>8, PresentationUses, UseKeepsStores, CallsKeepPacks
<1>9. ASSUME NEW n \in DOMAIN capabilities, RejectToken(n) \/ VerifyCapabilityToken(n)
      PROVE  StoresInv'
  BY <1>1, <1>9, VerificationUses, UseKeepsStores, CallsKeepPacks
<1>10. CASE Tick
  BY <1>10 DEF Tick, vaultVars, StoresInv
<1>11. CASE UNCHANGED vars
  BY <1>1, <1>11 DEF vars, vaultVars, NoUse
<1>. QED
  BY <1>2, <1>3, <1>4, <1>5, <1>6, <1>7, <1>8, <1>9, <1>10, <1>11 DEF Next

-----------------------------------------------------------------------------
(* The gateway's budget and its meter.  A window that is no longer open ends *)
(* before now, so what was admitted under it lies before the window that     *)
(* replaces it.                                                              *)

AdmittedSince(consent, start) == {i \in AdmittedUnder(consent) : admitted[i].at >= start}

BudgetsInv ==
  /\ \E S : admitted \in Seq(S)
  /\ \A i \in DOMAIN admitted :
       LET consent == admitted[i].consent
       IN /\ consent \in DOMAIN windows
          /\ admitted[i].at \in Nat /\ admitted[i].at <= now
          /\ admitted[i].at < windows[consent].startedAt + RateWindow
  /\ \A c \in DOMAIN windows :
       /\ windows[c] \in [count : 1..MaxAttempts, startedAt : Nat]
       /\ windows[c].startedAt <= now
       /\ Cardinality(AdmittedSince(c, windows[c].startedAt)) <= windows[c].count

MetersInv ==
  /\ \A i \in DOMAIN admitted : admitted[i].consent \in DOMAIN usage
  /\ \A c \in DOMAIN usage :
       /\ usage[c].count = Cardinality(AdmittedUnder(c))
       /\ \A i \in AdmittedUnder(c) : admitted[i].at <= usage[c].at
  /\ DOMAIN usage \subseteq DOMAIN windows /\ DOMAIN windows \subseteq consents

(* Nothing is counted at first.                                              *)
LEMMA GatewayInit == Init => BudgetsInv /\ MetersInv
<1>. SUFFICES ASSUME Init PROVE BudgetsInv /\ MetersInv
  OBVIOUS
<1>1. admitted \in Seq({}) /\ DOMAIN admitted = {} /\ DOMAIN windows = {} /\ DOMAIN usage = {}
  BY DEF Init
<1>. QED
  BY <1>1 DEF BudgetsInv, MetersInv

(* There are finitely many admissions, under one consent and since one start.*)
LEMMA AdmittedFinite ==
  ASSUME BudgetsInv, NEW c, NEW start
  PROVE  /\ IsFiniteSet(AdmittedUnder(c)) /\ Cardinality(AdmittedUnder(c)) \in Nat
         /\ IsFiniteSet(AdmittedSince(c, start)) /\ Cardinality(AdmittedSince(c, start)) \in Nat
<1>1. PICK S : admitted \in Seq(S)
  BY DEF BudgetsInv
<1>2. IsFiniteSet(1..Len(admitted)) /\ DOMAIN admitted = 1..Len(admitted)
  BY <1>1, FS_Interval
<1>3. AdmittedUnder(c) \subseteq 1..Len(admitted) /\ AdmittedSince(c, start) \subseteq 1..Len(admitted)
  BY <1>2 DEF AdmittedUnder, AdmittedSince
<1>. QED
  BY <1>2, <1>3, FS_Subset, FS_CardinalityType

(* What the budgets say of one admission and of one window.                  *)
LEMMA AdmissionOf ==
  ASSUME BudgetsInv, NEW i \in DOMAIN admitted
  PROVE  /\ admitted[i].consent \in DOMAIN windows
         /\ admitted[i].at \in Nat /\ admitted[i].at <= now
         /\ admitted[i].at < windows[admitted[i].consent].startedAt + RateWindow
  BY DEF BudgetsInv

(* What the budgets say of the window a consent has.                         *)
LEMMA WindowOf ==
  ASSUME BudgetsInv, NEW c \in DOMAIN windows
  PROVE  /\ windows[c] \in [count : 1..MaxAttempts, startedAt : Nat]
         /\ windows[c].count \in Nat /\ windows[c].startedAt \in Nat
         /\ windows[c].startedAt <= now
         /\ Cardinality(AdmittedSince(c, windows[c].startedAt)) <= windows[c].count
<1>1. windows[c] \in [count : 1..MaxAttempts, startedAt : Nat]
  BY DEF BudgetsInv
<1>. QED
  BY <1>1 DEF BudgetsInv

\* The window of a consent after an attempt: it goes on, one further, or it is a
\* new one.
GoesOn(c) ==
  /\ c \in DOMAIN windows
  /\ windows'[c].count = windows[c].count + 1
  /\ windows'[c].startedAt = windows[c].startedAt

StartsAnew(c) ==
  /\ windows'[c].count = 1 /\ windows'[c].startedAt = now
  /\ c \in DOMAIN windows => windows[c].startedAt + RateWindow <= now

CountedUnder(c) ==
  /\ DOMAIN windows' = DOMAIN windows \cup {c}
  /\ \A d \in DOMAIN windows \ {c} : windows'[d] = windows[d]
  /\ windows'[c] \in [count : 1..MaxAttempts, startedAt : Nat]
  /\ windows'[c].startedAt \in Nat /\ windows'[c].startedAt <= now
  /\ now < windows'[c].startedAt + RateWindow
  /\ GoesOn(c) \/ StartsAnew(c)

(* An attempt within the limit is counted in its consent's window, and in no *)
(* other.                                                                    *)
LEMMA Counted ==
  ASSUME BudgetsInv, NEW c, now \in Nat, ~Limited(c), Count(c)
  PROVE  CountedUnder(c)
<1>. MaxAttempts \in Nat \ {0} /\ RateWindow \in Nat \ {0}
  BY CapabilityAssumption
<1> DEFINE w == IF InWindow(c) THEN [windows[c] EXCEPT !.count = @ + 1]
                ELSE [count |-> 1, startedAt |-> now]
<1>1. windows' = With(windows, c, w)
  BY DEF Count
<1>2. CASE InWindow(c)
  <2>1. /\ c \in DOMAIN windows /\ now - windows[c].startedAt < RateWindow
        /\ windows[c].count < MaxAttempts
        /\ windows[c] \in [count : 1..MaxAttempts, startedAt : Nat]
        /\ windows[c].startedAt <= now
    BY <1>2 DEF InWindow, Limited, BudgetsInv
  <2>2. w = [count |-> windows[c].count + 1, startedAt |-> windows[c].startedAt]
    BY <1>2, <2>1
  <2>. HIDE DEF w
  <2>. QED
    BY <1>1, <2>1, <2>2 DEF With, CountedUnder, GoesOn, StartsAnew
<1>3. CASE ~InWindow(c)
  <2>1. w = [count |-> 1, startedAt |-> now]
    BY <1>3
  <2>2. c \in DOMAIN windows => windows[c].startedAt + RateWindow <= now
    BY <1>3 DEF InWindow, BudgetsInv
  <2>. HIDE DEF w
  <2>. QED
    BY <1>1, <2>1, <2>2 DEF With, CountedUnder, GoesOn, StartsAnew
<1>. QED
  BY <1>2, <1>3

(* A window that starts anew starts after everything admitted before.        *)
LEMMA NoneSinceNow ==
  ASSUME BudgetsInv, NEW c, now \in Nat, StartsAnew(c)
  PROVE  AdmittedSince(c, now) = {}
<1>1. ASSUME NEW i \in AdmittedSince(c, now) PROVE FALSE
  <2>1. i \in DOMAIN admitted /\ admitted[i].consent = c /\ admitted[i].at >= now
    BY DEF AdmittedSince, AdmittedUnder
  <2>2. /\ c \in DOMAIN windows /\ admitted[i].at \in Nat
        /\ admitted[i].at < windows[c].startedAt + RateWindow
    BY <2>1, AdmissionOf
  <2>3. windows[c].startedAt + RateWindow <= now /\ windows[c].startedAt \in Nat
    BY <2>2, WindowOf DEF StartsAnew
  <2>4. RateWindow \in Nat
    BY CapabilityAssumption
  <2>. QED
    BY <2>1, <2>2, <2>3, <2>4
<1>. QED
  BY <1>1

(* A denied attempt leaves its consent less of its budget, and admits nothing.*)
LEMMA DeniedKeepsBudgets ==
  ASSUME BudgetsInv, MetersInv, StoresInv, NEW n \in DOMAIN capabilities, NEW r,
         DenyPresentation(n, r)
  PROVE  BudgetsInv' /\ MetersInv'
<1>. now \in Nat /\ RateWindow \in Nat \ {0}
  BY CapabilityAssumption DEF StoresInv
<1>1. PICK c : c = capabilities[n].consent
  OBVIOUS
<1>2. ~Limited(c) /\ Count(c) /\ UNCHANGED <<now, consents, usage, admitted>> /\ c \in consents
  BY <1>1 DEF DenyPresentation, Admitted, vaultVars, StoresInv
<1>3. CountedUnder(c)
  BY <1>2, Counted
<1>4. \A d, start : /\ AdmittedUnder(d)' = AdmittedUnder(d)
                    /\ AdmittedSince(d, start)' = AdmittedSince(d, start)
  BY <1>2 DEF AdmittedUnder, AdmittedSince
<1>5. MetersInv'
  BY <1>2, <1>3, <1>4 DEF MetersInv, CountedUnder
<1>6. Cardinality(AdmittedSince(c, windows'[c].startedAt)) <= windows'[c].count
  <2>1. CASE GoesOn(c)
    BY <2>1, WindowOf, AdmittedFinite DEF GoesOn
  <2>2. CASE StartsAnew(c)
    <3>1. Cardinality(AdmittedSince(c, now)) = 0
      BY <2>2, NoneSinceNow, FS_EmptySet
    <3>. QED
      BY <2>2, <3>1 DEF StartsAnew
  <2>. QED
    BY <1>3, <2>1, <2>2 DEF CountedUnder
<1>7. ASSUME NEW i \in DOMAIN admitted, NEW d, d = admitted[i].consent
      PROVE  /\ d \in DOMAIN windows' /\ admitted[i].at \in Nat /\ admitted[i].at <= now
             /\ admitted[i].at < windows'[d].startedAt + RateWindow
  <2>1. /\ d \in DOMAIN windows /\ admitted[i].at \in Nat /\ admitted[i].at <= now
        /\ admitted[i].at < windows[d].startedAt + RateWindow
    BY <1>7, AdmissionOf
  <2>2. CASE d = c
    BY <1>3, <2>1, <2>2 DEF CountedUnder
  <2>3. CASE d # c
    BY <1>3, <2>1, <2>3 DEF CountedUnder
  <2>. QED
    BY <2>2, <2>3
<1>8. ASSUME NEW d \in DOMAIN windows'
      PROVE  /\ windows'[d] \in [count : 1..MaxAttempts, startedAt : Nat]
             /\ windows'[d].startedAt <= now
             /\ Cardinality(AdmittedSince(d, windows'[d].startedAt)) <= windows'[d].count
  <2>1. CASE d = c
    BY <1>3, <1>6, <2>1 DEF CountedUnder
  <2>2. CASE d # c
    <3>1. d \in DOMAIN windows /\ windows'[d] = windows[d]
      BY <1>3, <1>8, <2>2 DEF CountedUnder
    <3>. QED
      BY <3>1, WindowOf
  <2>. QED
    BY <2>1, <2>2
<1>9. BudgetsInv'
  BY <1>2, <1>4, <1>7, <1>8 DEF BudgetsInv
<1>. QED
  BY <1>5, <1>9

(* An allowed one is counted before it is admitted, so it is within the      *)
(* budget, and it is metered.                                                *)
LEMMA AllowedKeepsBudgets ==
  ASSUME BudgetsInv, MetersInv, StoresInv, NEW n \in DOMAIN capabilities, NEW r,
         AllowPresentation(n, r)
  PROVE  BudgetsInv' /\ MetersInv'
<1>. now \in Nat /\ RateWindow \in Nat \ {0} /\ MaxAttempts \in Nat \ {0}
  BY CapabilityAssumption DEF StoresInv
<1>1. PICK c : c = capabilities[n].consent
  OBVIOUS
<1>2. PICK a : a = [consent |-> c, at |-> now]
  OBVIOUS
<1>3. /\ ~Limited(c) /\ Count(c) /\ UNCHANGED <<now, consents>> /\ c \in consents
      /\ admitted' = Append(admitted, a)
  BY <1>1, <1>2 DEF AllowPresentation, Admitted, vaultVars, StoresInv
<1>4. PICK u : /\ usage' = With(usage, c, u)
               /\ u.count = 1 + IF c \in DOMAIN usage THEN usage[c].count ELSE 0
               /\ u.at = now
  BY <1>1 DEF AllowPresentation, RecordUsage
<1>5. PICK S : admitted \in Seq(S)
  BY DEF BudgetsInv
<1>6. PICK k : k = Len(admitted) + 1
  OBVIOUS
<1>7. /\ DOMAIN admitted' = DOMAIN admitted \cup {k} /\ k \notin DOMAIN admitted
      /\ \A i \in DOMAIN admitted : admitted'[i] = admitted[i]
      /\ admitted'[k] = a /\ a.consent = c /\ a.at = now
      /\ admitted' \in Seq(S \cup {a})
  BY <1>2, <1>3, <1>5, <1>6
<1>8. \A d : AdmittedUnder(d)' = IF d = c THEN AdmittedUnder(d) \cup {k} ELSE AdmittedUnder(d)
  BY <1>7 DEF AdmittedUnder
<1>9. \A d, start : d # c => AdmittedSince(d, start)' = AdmittedSince(d, start)
  BY <1>7, <1>8 DEF AdmittedSince, AdmittedUnder
<1>10. \A start \in Nat : start <= now => AdmittedSince(c, start)' = AdmittedSince(c, start) \cup {k}
  BY <1>7, <1>8 DEF AdmittedSince, AdmittedUnder
<1>11. \A start : k \notin AdmittedUnder(c) /\ k \notin AdmittedSince(c, start)
  BY <1>7 DEF AdmittedUnder, AdmittedSince
<1>c. CountedUnder(c)
  BY <1>3, Counted
<1>12. MetersInv'
  <2>1. DOMAIN usage' = DOMAIN usage \cup {c} /\ usage'[c] = u
        /\ \A d \in DOMAIN usage \ {c} : usage'[d] = usage[d]
    BY <1>4 DEF With
  <2>2. u.count = Cardinality(AdmittedUnder(c)')
    <3>1. Cardinality(AdmittedUnder(c) \cup {k}) = Cardinality(AdmittedUnder(c)) + 1
      BY <1>11, AdmittedFinite, FS_AddElement
    <3>2. CASE c \in DOMAIN usage
      <4>1. usage[c].count = Cardinality(AdmittedUnder(c))
        BY <3>2 DEF MetersInv
      <4>2. Cardinality(AdmittedUnder(c)) \in Nat
        BY AdmittedFinite
      <4>3. AdmittedUnder(c)' = AdmittedUnder(c) \cup {k}
        BY <1>8
      <4>4. u.count = 1 + usage[c].count
        BY <1>4, <3>2
      <4>. QED
        BY <3>1, <4>1, <4>2, <4>3, <4>4
    <3>3. CASE c \notin DOMAIN usage
      <4>1. AdmittedUnder(c) = {}
        BY <3>3 DEF MetersInv, AdmittedUnder
      <4>. QED
        BY <1>4, <1>8, <3>1, <3>3, <4>1, FS_EmptySet
    <3>. QED
      BY <3>2, <3>3
  <2>3. ASSUME NEW i \in AdmittedUnder(c)' PROVE admitted'[i].at <= now
    BY <1>7, <2>3 DEF AdmittedUnder, BudgetsInv
  <2>4. ASSUME NEW d \in DOMAIN usage'
        PROVE  /\ usage'[d].count = Cardinality(AdmittedUnder(d)')
               /\ \A i \in AdmittedUnder(d)' : admitted'[i].at <= usage'[d].at
    <3>1. CASE d = c
      BY <1>4, <2>1, <2>2, <2>3, <3>1
    <3>2. CASE d # c
      <4>1. d \in DOMAIN usage /\ usage'[d] = usage[d] /\ AdmittedUnder(d)' = AdmittedUnder(d)
        BY <1>8, <2>1, <2>4, <3>2
      <4>2. \A i \in AdmittedUnder(d) : admitted'[i] = admitted[i]
        BY <1>7 DEF AdmittedUnder
      <4>. QED
        BY <4>1, <4>2 DEF MetersInv
    <3>. QED
      BY <3>1, <3>2
  <2>5. \A i \in DOMAIN admitted' : admitted'[i].consent \in DOMAIN usage'
    BY <1>7, <2>1 DEF MetersInv
  <2>6. DOMAIN usage' \subseteq DOMAIN windows' /\ DOMAIN windows' \subseteq consents'
    BY <1>3, <1>c, <2>1 DEF MetersInv, CountedUnder
  <2>. QED
    BY <2>4, <2>5, <2>6 DEF MetersInv
<1>13. \A start : start = windows'[c].startedAt
                    => Cardinality(AdmittedSince(c, start)') <= windows'[c].count
  <2>. SUFFICES ASSUME NEW start, start = windows'[c].startedAt
                PROVE  Cardinality(AdmittedSince(c, start)') <= windows'[c].count
    OBVIOUS
  <2>1. start \in Nat /\ start <= now
    BY <1>c DEF CountedUnder
  <2>2. Cardinality(AdmittedSince(c, start)') = Cardinality(AdmittedSince(c, start)) + 1
    BY <1>10, <1>11, <2>1, AdmittedFinite, FS_AddElement
  <2>3. Cardinality(AdmittedSince(c, start)) \in Nat
    BY AdmittedFinite
  <2>4. CASE GoesOn(c)
    <3>1. start = windows[c].startedAt /\ windows'[c].count = windows[c].count + 1
      BY <2>4 DEF GoesOn
    <3>2. Cardinality(AdmittedSince(c, start)) <= windows[c].count /\ windows[c].count \in Nat
      BY <2>4, <3>1, WindowOf DEF GoesOn
    <3>. QED
      BY <2>2, <2>3, <3>1, <3>2
  <2>5. CASE StartsAnew(c)
    <3>1. start = now /\ windows'[c].count = 1
      BY <2>5 DEF StartsAnew
    <3>2. Cardinality(AdmittedSince(c, start)) = 0
      BY <2>5, <3>1, NoneSinceNow, FS_EmptySet
    <3>. QED
      BY <2>2, <3>1, <3>2
  <2>. QED
    BY <1>c, <2>4, <2>5 DEF CountedUnder
<1>14. ASSUME NEW i \in DOMAIN admitted', NEW d, d = admitted'[i].consent
       PROVE  /\ d \in DOMAIN windows' /\ admitted'[i].at \in Nat /\ admitted'[i].at <= now
              /\ admitted'[i].at < windows'[d].startedAt + RateWindow
  <2>1. CASE i = k
    <3>1. d = c /\ admitted'[i].at = now
      BY <1>7, <1>14, <2>1
    <3>. QED
      BY <1>c, <3>1 DEF CountedUnder
  <2>2. CASE i # k
    <3>1. i \in DOMAIN admitted /\ admitted'[i] = admitted[i]
      BY <1>7, <1>14, <2>2
    <3>2. /\ d \in DOMAIN windows /\ admitted[i].at \in Nat /\ admitted[i].at <= now
          /\ admitted[i].at < windows[d].startedAt + RateWindow
      BY <1>14, <3>1, AdmissionOf
    <3>3. CASE d = c
      BY <1>c, <3>1, <3>2, <3>3 DEF CountedUnder
    <3>4. CASE d # c
      BY <1>c, <3>1, <3>2, <3>4 DEF CountedUnder
    <3>. QED
      BY <3>3, <3>4
  <2>. QED
    BY <2>1, <2>2
<1>15. ASSUME NEW d \in DOMAIN windows', NEW start, start = windows'[d].startedAt
       PROVE  /\ windows'[d] \in [count : 1..MaxAttempts, startedAt : Nat]
              /\ windows'[d].startedAt <= now
              /\ Cardinality(AdmittedSince(d, start)') <= windows'[d].count
  <2>1. CASE d = c
    BY <1>c, <1>13, <1>15, <2>1 DEF CountedUnder
  <2>2. CASE d # c
    <3>1. d \in DOMAIN windows /\ windows'[d] = windows[d]
      BY <1>c, <1>15, <2>2 DEF CountedUnder
    <3>2. AdmittedSince(d, start)' = AdmittedSince(d, windows[d].startedAt)
      BY <1>9, <1>15, <2>2, <3>1
    <3>. QED
      BY <3>1, <3>2, WindowOf
  <2>. QED
    BY <2>1, <2>2
<1>16. BudgetsInv'
  <2>1. \E T : admitted' \in Seq(T)
    BY <1>7
  <2>2. ASSUME NEW d \in DOMAIN windows'
        PROVE  Cardinality(AdmittedSince(d, windows[d].startedAt)') <= windows'[d].count
    <3>1. PICK start : start = windows'[d].startedAt
      OBVIOUS
    <3>2. AdmittedSince(d, windows[d].startedAt)' = AdmittedSince(d, start)'
      BY <3>1 DEF AdmittedSince
    <3>. QED
      BY <1>15, <3>1, <3>2
  <2>. QED
    BY <1>3, <1>14, <1>15, <2>1, <2>2 DEF BudgetsInv
<1>. QED
  BY <1>12, <1>16

(* Only a presentation to the gateway counts or meters; time alone closes    *)
(* windows and takes nothing back.                                           *)
LEMMA GatewayStep ==
  StoresInv /\ BudgetsInv /\ MetersInv /\ [Next]_vars => BudgetsInv' /\ MetersInv'
<1>. SUFFICES ASSUME StoresInv, BudgetsInv, MetersInv, [Next]_vars
              PROVE  BudgetsInv' /\ MetersInv'
  OBVIOUS
<1>1. ASSUME UNCHANGED gatewayVars, consents \subseteq consents', now' \in Nat, now <= now'
      PROVE  BudgetsInv' /\ MetersInv'
  <2>1. \A d : AdmittedUnder(d)' = AdmittedUnder(d)
    BY <1>1 DEF AdmittedUnder, gatewayVars
  <2>2. \A d, start : AdmittedSince(d, start)' = AdmittedSince(d, start)
    BY <1>1, <2>1 DEF AdmittedSince, gatewayVars
  <2>3. MetersInv'
    BY <1>1, <2>1 DEF MetersInv, gatewayVars
  <2>4. now \in Nat
    BY DEF StoresInv
  <2>5. BudgetsInv'
    BY <1>1, <2>2, <2>4 DEF BudgetsInv, gatewayVars
  <2>. QED
    BY <2>3, <2>5
<1>2. now \in Nat
  BY DEF StoresInv
<1>3. CASE \/ \E t \in ConsentTerms : GrantConsent(t)
           \/ \E s \in Subjects, n \in DOMAIN capabilities : RevokeByConsent(s, n)
           \/ \E c \in consents, t \in MintTerms : MintCapability(c, t)
           \/ \E n \in DOMAIN capabilities : RevokeCapability(n)
           \/ \E p \in DOMAIN Packs, ms \in Mappings : RegisterPack(p, ms)
  <2>1. UNCHANGED <<gatewayVars, now>> /\ consents \subseteq consents'
    BY <1>3 DEF GrantConsent, RevokeByConsent, MintCapability, RevokeCapability, RegisterPack,
                vaultVars
  <2>. QED
    BY <1>1, <1>2, <2>1
<1>4. CASE \E n \in DOMAIN capabilities, ps \in SUBSET Paths, p \in DOMAIN Packs :
             RequestAccess(n, ps, p)
  <2>1. UNCHANGED <<gatewayVars, now, consents>>
    BY <1>4 DEF RequestAccess, RefuseAccess, DenyAccess, AllowAccess, vars, vaultVars
  <2>. QED
    BY <1>1, <1>2, <2>1
<1>5. ASSUME NEW n \in DOMAIN capabilities, NEW r \in Presentations,
             ConsumeCapabilityAccess(n, r)
      PROVE  BudgetsInv' /\ MetersInv'
  <2>1. CASE RefusePresentation(n, r)
    BY <1>1, <1>2, <2>1 DEF RefusePresentation, vars, vaultVars
  <2>. QED
    BY <1>5, <2>1, DeniedKeepsBudgets, AllowedKeepsBudgets DEF ConsumeCapabilityAccess
<1>6. CASE \E n \in DOMAIN capabilities : RejectToken(n) \/ VerifyCapabilityToken(n)
  <2>1. UNCHANGED <<gatewayVars, now, consents>>
    BY <1>6 DEF RejectToken, VerifyCapabilityToken, vars, vaultVars
  <2>. QED
    BY <1>1, <1>2, <2>1
<1>7. CASE Tick
  BY <1>1, <1>2, <1>7 DEF Tick, vaultVars
<1>8. CASE UNCHANGED vars
  BY <1>1, <1>2, <1>8 DEF vars, vaultVars
<1>. QED
  BY <1>3, <1>4, <1>5, <1>6, <1>7, <1>8 DEF Next

(* A consent's budget covers all its tokens, whatever the limit, the window  *)
(* and the presentations: no more are let through since its window opened    *)
(* than the limit allows.                                                    *)
THEOREM BudgetsHold == Spec => []BudgetHolds
<1>1. StoresInv /\ BudgetsInv => BudgetHolds
  <2>. SUFFICES ASSUME StoresInv, BudgetsInv, NEW c \in DOMAIN windows
                PROVE  Cardinality(AdmittedSince(c, windows[c].startedAt)) <= MaxAttempts
    BY DEF BudgetHolds, AdmittedSince
  <2>1. /\ Cardinality(AdmittedSince(c, windows[c].startedAt)) <= windows[c].count
        /\ windows[c].count \in 1..MaxAttempts
    BY DEF BudgetsInv
  <2>. QED
    BY <2>1, AdmittedFinite, CapabilityAssumption
<1>. QED
  BY <1>1, InvInit, InvStep, StoresInit, StoresStep, GatewayInit, GatewayStep, PTL DEF Spec

(* The meter of a consent counts every presentation the gateway allowed      *)
(* under it, and dates the last.                                             *)
THEOREM UsageMetersAllowed == Spec => []UsageCountsAllowed
<1>1. MetersInv => UsageCountsAllowed
  BY DEF MetersInv, UsageCountsAllowed, AdmittedUnder
<1>. QED
  BY <1>1, InvInit, InvStep, StoresInit, StoresStep, GatewayInit, GatewayStep, PTL DEF Spec

(* Type correctness of the stores, the registries and the gateway.           *)
THEOREM AccessTypeCorrect == Spec => []TypeOK
<1>1. Inv /\ StoresInv /\ MetersInv => TypeOK
  BY DEF Inv, TokensInv, DisclosuresInv, StoresInv, MetersInv, TypeOK
<1>. QED
  BY <1>1, InvInit, InvStep, StoresInit, StoresStep, GatewayInit, GatewayStep, PTL DEF Spec

-----------------------------------------------------------------------------
(* What a step may never give out                                            *)

(* A step uses one token, or gives nothing out and spends nothing.           *)
LEMMA StepUsesOne ==
  ASSUME Inv, [Next]_vars
  PROVE  \/ \E n \in DOMAIN capabilities : IsUse(n)
         \/ UNCHANGED <<seen, disclosures>> /\ revoked \subseteq revoked'
<1>1. ASSUME NoUse PROVE UNCHANGED <<seen, disclosures>> /\ revoked \subseteq revoked'
  BY <1>1 DEF NoUse
<1>2. CASE \/ \E t \in ConsentTerms : GrantConsent(t)
           \/ \E s \in Subjects, n \in DOMAIN capabilities : RevokeByConsent(s, n)
           \/ \E c \in consents, t \in MintTerms : MintCapability(c, t)
           \/ \E n \in DOMAIN capabilities : RevokeCapability(n)
           \/ \E p \in DOMAIN Packs, ms \in Mappings : RegisterPack(p, ms)
           \/ Tick
  BY <1>2 DEF GrantConsent, RevokeByConsent, MintCapability, RevokeCapability, RegisterPack, Tick
<1>3. ASSUME NEW n \in DOMAIN capabilities, NEW ps \in SUBSET Paths, NEW pack \in DOMAIN Packs,
             RequestAccess(n, ps, pack)
      PROVE  IsUse(n) \/ NoUse
  BY <1>3, RequestUses
<1>4. ASSUME NEW n \in DOMAIN capabilities, NEW r \in Presentations,
             ConsumeCapabilityAccess(n, r)
      PROVE  IsUse(n) \/ NoUse
  BY <1>4, PresentationUses
<1>5. ASSUME NEW n \in DOMAIN capabilities, RejectToken(n) \/ VerifyCapabilityToken(n)
      PROVE  IsUse(n) \/ NoUse
  BY <1>5, VerificationUses
<1>6. CASE UNCHANGED vars
  BY <1>1, <1>6 DEF vars, vaultVars, NoUse
<1>. QED
  BY <1>1, <1>2, <1>3, <1>4, <1>5, <1>6 DEF Next

\* What a step gives out, it gives out under tokens not spent, not revoked and
\* not expired when it is taken, and within their scope; and it takes back no
\* spending and no revocation.
GivesUnderLiveTokens ==
  /\ seen \subseteq seen' /\ revoked \subseteq revoked'
  /\ \A d \in disclosures' \ disclosures :
       /\ d.token \in DOMAIN capabilities \ (seen \cup revoked)
       /\ d.item \in capabilities[d.token].scope
       /\ d.at = now /\ now <= capabilities[d.token].expiresAt
       /\ d.token \in seen'

(* So a token that was spent or revoked, even by a call of the vault that    *)
(* was then denied or by the verifier, never gives anything out again.       *)
THEOREM SpentGivesNothing == Spec => [][GivesUnderLiveTokens]_vars
<1>1. Inv /\ [Next]_vars => GivesUnderLiveTokens
  <2>. SUFFICES ASSUME Inv, [Next]_vars PROVE GivesUnderLiveTokens
    OBVIOUS
  <2>1. CASE UNCHANGED <<seen, disclosures>> /\ revoked \subseteq revoked'
    BY <2>1 DEF GivesUnderLiveTokens
  <2>2. ASSUME NEW n \in DOMAIN capabilities, IsUse(n) PROVE GivesUnderLiveTokens
    <3>1. PICK items \in SUBSET capabilities[n].scope, paid \in BOOLEAN : UsedFor(n, items, paid)
      BY <2>2 DEF IsUse
    <3>2. ASSUME NEW d \in disclosures' \ disclosures
          PROVE  d.token = n /\ d.item \in items /\ d.at = now
      BY <3>1, <3>2 DEF UsedFor, Disclose
    <3>. QED
      BY <3>1, <3>2 DEF UsedFor, Spend, GivesUnderLiveTokens
  <2>. QED
    BY <2>1, <2>2, StepUsesOne
<1>. QED
  BY <1>1, InvInit, InvStep, PTL DEF Spec

\* All that was given out under one token was given out in one use: at one
\* moment, and paid for or not as a whole.
OneUse ==
  \A d, e \in disclosures : d.token = e.token => d.at = e.at /\ d.paid = e.paid

(* However often the vault asks about a token within one request, and        *)
(* wherever else the token is shown, it has one use.                         *)
THEOREM GivenInOneUse == Spec => []OneUse
<1>1. Init => OneUse
  BY DEF Init, OneUse
<1>2. Inv /\ OneUse /\ [Next]_vars => OneUse'
  <2>. SUFFICES ASSUME Inv, OneUse, [Next]_vars PROVE OneUse'
    OBVIOUS
  <2>1. CASE UNCHANGED <<seen, disclosures>> /\ revoked \subseteq revoked'
    BY <2>1 DEF OneUse
  <2>2. ASSUME NEW n \in DOMAIN capabilities, IsUse(n) PROVE OneUse'
    <3>1. PICK items \in SUBSET capabilities[n].scope, paid \in BOOLEAN : UsedFor(n, items, paid)
      BY <2>2 DEF IsUse
    <3>2. \A d \in disclosures : d.token # n
      BY <3>1 DEF UsedFor, Inv, DisclosuresInv
    <3>3. ASSUME NEW d \in disclosures', d \notin disclosures
          PROVE  d.token = n /\ d.at = now /\ d.paid = paid
      BY <3>1, <3>3 DEF UsedFor, Disclose
    <3>. QED
      BY <3>2, <3>3 DEF OneUse
  <2>. QED
    BY <2>1, <2>2, StepUsesOne
<1>. QED
  BY <1>1, <1>2, InvInit, InvStep, PTL DEF Spec

=============================================================================
