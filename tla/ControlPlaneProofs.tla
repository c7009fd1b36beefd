------------------------- MODULE ControlPlaneProofs -------------------------
(***************************************************************************)
(* The control plane's promises, for any subjects, keys and number of       *)
(* requests.                                                               *)
(*                                                                         *)
(* An answer is an old statement about a grant; that it stays true needs an *)
(* invariant relating the four places a revocation is written to: the       *)
(* grant, the evidence, the idempotency cache and the answers given.        *)
(***************************************************************************)
EXTENDS ControlPlane, TLAPS

Revoked(g) == g \in DOMAIN grants /\ grants[g].status = "revoked"

\* Evidence e is about a revoked grant that points back to it.
OnRecord(e) ==
  LET record == revocationEvidence[e]
  IN /\ record.revocation = e
     /\ Revoked(record.grant)
     /\ grants[record.grant].revocation = e
     /\ grants[record.grant].revokedAt = record.completedAt

\* What a result says of its grant is what the grant says.
Tells(result) ==
  /\ Revoked(result.grant)
  /\ result.revocation = grants[result.grant].revocation
  /\ result.evidence = grants[result.grant].revocation
  /\ result.completedAt = grants[result.grant].revokedAt

EvidenceInv ==
  /\ revocationSequence = Len(revocationEvidence)
  /\ \A e \in DOMAIN revocationEvidence : OnRecord(e)
  /\ \A g \in DOMAIN grants : grants[g].status = "revoked" =>
       /\ grants[g].revocation \in DOMAIN revocationEvidence
       /\ revocationEvidence[grants[g].revocation].grant = g

CacheInv ==
  \A k \in Keys : revocationIdempotency[k] # Absent =>
    /\ revocationIdempotency[k].fingerprint.grant = revocationIdempotency[k].result.grant
    /\ Tells(revocationIdempotency[k].result)

AnswerInv ==
  \A a \in answered :
    /\ a.result.grant = a.command.grant /\ Tells(a.result)
    /\ a.command.key # Absent =>
         /\ revocationIdempotency[a.command.key] # Absent
         /\ revocationIdempotency[a.command.key].fingerprint = Fingerprint(a.command)

CPInv == CPTypeOK /\ EvidenceInv /\ CacheInv /\ AnswerInv

\* A step keeps every grant, and a revoked one as it is.
KeepsRevoked ==
  \A g \in DOMAIN grants :
    /\ g \in DOMAIN grants'
    /\ grants[g].status = "revoked" => grants'[g] = grants[g]

-----------------------------------------------------------------------------
(* The control plane starts with nothing revoked, answered or cached.        *)
LEMMA InitInv == CPInit => CPInv
<1> USE AbsentAssumption
<1>. SUFFICES ASSUME CPInit PROVE CPInv
  OBVIOUS
<1>1. CPTypeOK
  BY DEF CPInit, CPTypeOK, Optional
<1>2. EvidenceInv /\ CacheInv /\ AnswerInv
  BY DEF CPInit, EvidenceInv, CacheInv, AnswerInv
<1>. QED
  BY <1>1, <1>2 DEF CPInv

(* A revoked grant has one evidence record, the one it points to, so finding *)
(* the first record about it finds that one.                                 *)
LEMMA EvidenceOfRevoked ==
  ASSUME CPInv, NEW g \in DOMAIN grants, grants[g].status = "revoked"
  PROVE  EvidenceOf(g) = grants[g].revocation
<1> DEFINE n == grants[g].revocation
           First(e) == /\ revocationEvidence[e].grant = g
                       /\ \A f \in 1..(e - 1) : revocationEvidence[f].grant # g
<1>1. n \in DOMAIN revocationEvidence /\ revocationEvidence[n].grant = g
  BY DEF CPInv, EvidenceInv
<1>2. ASSUME NEW e \in DOMAIN revocationEvidence, revocationEvidence[e].grant = g
      PROVE  e = n
  BY <1>2 DEF CPInv, EvidenceInv, OnRecord
<1>3. \A f \in 1..(n - 1) : f \in DOMAIN revocationEvidence /\ f # n
  BY <1>1 DEF CPInv, CPTypeOK
<1>4. First(n)
  BY <1>1, <1>2, <1>3
<1>5. \A e \in DOMAIN revocationEvidence : First(e) => e = n
  BY <1>2
<1>. QED
  BY <1>1, <1>4, <1>5 DEF EvidenceOf

-----------------------------------------------------------------------------
(* Decisions append grants and revocations touch active ones only.           *)
LEMMA StepKeepsRevoked == CPInv /\ [CPNext]_cpVars => KeepsRevoked
<1>. SUFFICES ASSUME CPInv, [CPNext]_cpVars PROVE KeepsRevoked
  OBVIOUS
<1>. USE DEF KeepsRevoked
<1>1. grants \in Seq(Grant)
  BY DEF CPInv, CPTypeOK
<1>2. CASE UNCHANGED grants
  BY <1>2
<1>3. ASSUME NEW i, NEW s, NEW d, DecideAccessRequest(i, s, d) PROVE KeepsRevoked
  <2>1. CASE grants' = Append(grants, NewGrant(i))
    BY <1>1, <2>1
  <2>. QED
    BY <1>3, <2>1 DEF DecideAccessRequest
<1>4. ASSUME NEW c, NEW at, CompleteRevocation(c, at) PROVE KeepsRevoked
  <2>1. grants[c.grant].status = "active"
    BY <1>4 DEF CompleteRevocation
  <2>2. \E record : grants' = [grants EXCEPT ![c.grant] = record]
    BY <1>4 DEF CompleteRevocation
  <2>. QED
    BY <1>1, <2>1, <2>2
<1>. QED
  BY <1>2, <1>3, <1>4 DEF CPNext, cpVars, CreateAccessRequest, RefuseDecision,
     RevokeGrant, ReplayRevocation, RefuseKey, RefuseRevocation, RepeatRevocation

(* A true statement about a revoked grant stays true.                        *)
LEMMA TellsOn ==
  ASSUME KeepsRevoked, NEW result, Tells(result)
  PROVE  Tells(result)'
BY DEF KeepsRevoked, Tells, Revoked

-----------------------------------------------------------------------------
(* Every operation keeps its stores well typed.                              *)
LEMMA ResultTypes ==
  ASSUME CPInv, NEW c \in RevokeCommand, Revocable(c)
  PROVE  /\ grants[c.grant] \in Grant
         /\ c.grant \in Nat
         /\ StatedReason(c) \in Reasons \cup {"MANUAL_REVOCATION"}
BY AbsentAssumption DEF CPInv, CPTypeOK, Revocable, RevokeCommand, StatedReason, Optional

(* What is remembered and answered of a result is of the types stated.       *)
LEMMA RememberTyped ==
  ASSUME CPTypeOK, NEW c \in RevokeCommand, NEW result \in Result,
         Remember(c, result), Answer(c, result)
  PROVE  /\ revocationIdempotency' \in [Keys -> Optional(Remembered)]
         /\ answered' \subseteq [command: RevokeCommand, result: Result]
<1>1. [fingerprint |-> Fingerprint(c), result |-> result] \in Remembered
  BY DEF Fingerprint, RevokeCommand, Remembered
<1>2. c.key # Absent => c.key \in Keys
  BY DEF RevokeCommand, Optional
<1>3. answered' \subseteq [command: RevokeCommand, result: Result]
  BY DEF CPTypeOK, Answer
<1>. QED
  BY <1>1, <1>2, <1>3 DEF CPTypeOK, Remember, Optional

(* Every step keeps the stores typed.                                        *)
LEMMA StepTyped == CPInv /\ [CPNext]_cpVars => CPTypeOK'
<1>. SUFFICES ASSUME CPInv, [CPNext]_cpVars PROVE CPTypeOK'
  OBVIOUS
<1>. CPTypeOK
  BY DEF CPInv
<1>1. CASE UNCHANGED cpVars
  BY <1>1 DEF CPTypeOK, cpVars
<1>2. ASSUME NEW s \in Subjects, NEW r \in Requesters, CreateAccessRequest(s, r)
      PROVE  CPTypeOK'
  <2>1. [subject |-> s, requester |-> r, status |-> "pending"] \in AccessRequest
    BY DEF AccessRequest
  <2>2. requests' \in Seq(AccessRequest)
    BY <1>2, <2>1 DEF CreateAccessRequest, CPTypeOK
  <2>. QED
    BY <1>2, <2>2 DEF CreateAccessRequest, CPTypeOK
<1>3. ASSUME NEW i \in Nat, NEW s, NEW d, DecideAccessRequest(i, s, d)
      PROVE  CPTypeOK'
  <2>1. i \in DOMAIN requests /\ requests[i] \in AccessRequest
    BY <1>3 DEF CPTypeOK, DecideAccessRequest, Decidable
  <2>2. requests' \in Seq(AccessRequest)
    <3> DEFINE status == IF d = "approve" THEN "approved" ELSE "denied"
               decided == [requests[i] EXCEPT !.status = status]
    <3>1. decided \in AccessRequest
      BY <2>1 DEF AccessRequest
    <3>2. requests' = [requests EXCEPT ![i] = decided]
      BY <1>3 DEF DecideAccessRequest
    <3>. HIDE DEF decided
    <3>. QED
      BY <2>1, <3>1, <3>2 DEF CPTypeOK
  <2>3. NewGrant(i) \in Grant
    BY <2>1 DEF NewGrant, Grant, AccessRequest, Optional
  <2>4. grants' \in Seq(Grant)
    BY <1>3, <2>3 DEF DecideAccessRequest, CPTypeOK
  <2>. QED
    BY <1>3, <2>2, <2>4 DEF DecideAccessRequest, CPTypeOK
<1>4. ASSUME NEW c \in RevokeCommand, ReplayRevocation(c)
      PROVE  CPTypeOK'
  <2> DEFINE entry == revocationIdempotency[c.key]
             again == [entry.result EXCEPT !.replay = TRUE]
  <2>1. entry.result \in Result
    BY <1>4 DEF ReplayRevocation, Cached, CPTypeOK, RevokeCommand, Optional, Remembered
  <2>2. again \in Result
    BY <2>1 DEF Result
  <2>3. answered' = answered \cup {[command |-> c, result |-> again]}
    BY <1>4 DEF ReplayRevocation, Answer
  <2>. HIDE DEF again
  <2>4. answered' \subseteq [command: RevokeCommand, result: Result]
    BY <2>2, <2>3 DEF CPTypeOK
  <2>. QED
    BY <1>4, <2>4 DEF ReplayRevocation, CPTypeOK
<1>5. ASSUME NEW c \in RevokeCommand, RepeatRevocation(c)
      PROVE  CPTypeOK'
  <2> DEFINE result == [grant |-> c.grant, revocation |-> grants[c.grant].revocation,
                        evidence |-> EvidenceOf(c.grant),
                        completedAt |-> grants[c.grant].revokedAt, replay |-> TRUE]
  <2>1. Revocable(c) /\ grants[c.grant].status = "revoked"
    BY <1>5 DEF RepeatRevocation
  <2>2. EvidenceOf(c.grant) = grants[c.grant].revocation
    BY <2>1, EvidenceOfRevoked DEF Revocable
  <2>3. grants[c.grant].revocation \in DOMAIN revocationEvidence
        /\ revocationEvidence[grants[c.grant].revocation] \in Evidence
    BY <2>1 DEF Revocable, CPInv, EvidenceInv, CPTypeOK
  <2>4. grants[c.grant].revocation \in Nat
    BY <2>3 DEF CPTypeOK
  <2>5. grants[c.grant].revokedAt \in Nat
    BY <2>1, <2>3 DEF Revocable, CPInv, EvidenceInv, OnRecord, Evidence
  <2>6. result \in Result
    BY <2>2, <2>4, <2>5 DEF Result, Optional, RevokeCommand
  <2>7. Remember(c, result) /\ Answer(c, result)
    BY <1>5 DEF RepeatRevocation
  <2>. HIDE DEF result
  <2>8. /\ revocationIdempotency' \in [Keys -> Optional(Remembered)]
        /\ answered' \subseteq [command: RevokeCommand, result: Result]
    BY <2>6, <2>7, RememberTyped
  <2>. QED
    BY <1>5, <2>8 DEF RepeatRevocation, CPTypeOK
<1>6. ASSUME NEW c \in RevokeCommand, NEW at \in Nat, CompleteRevocation(c, at)
      PROVE  CPTypeOK'
  <2> DEFINE grant == grants[c.grant]
             n == revocationSequence + 1
             result == [grant |-> c.grant, revocation |-> n,
                        evidence |-> Len(revocationEvidence) + 1,
                        completedAt |-> at, replay |-> FALSE]
             revoked == RevokedGrant(grant, n, at, StatedReason(c))
             record == [revocation |-> n, grant |-> c.grant,
                        subject |-> grant.subject, requester |-> grant.requester,
                        reason |-> StatedReason(c), key |-> c.key, completedAt |-> at]
  <2>1. Revocable(c)
    BY <1>6 DEF CompleteRevocation
  <2>2. grant \in Grant /\ c.grant \in Nat
        /\ StatedReason(c) \in Reasons \cup {"MANUAL_REVOCATION"}
    BY <2>1, ResultTypes
  <2>3. n \in Nat /\ Len(revocationEvidence) + 1 \in Nat
    BY DEF CPTypeOK
  <2>4. result \in Result
    BY <2>2, <2>3 DEF Result, Optional
  <2>5. revoked \in Grant
    BY <2>2, <2>3 DEF RevokedGrant, Grant, Optional
  <2>6. record \in Evidence
    BY <2>2, <2>3 DEF Evidence, Grant, RevokeCommand
  <2>7. /\ Remember(c, result) /\ Answer(c, result)
        /\ grants' = [grants EXCEPT ![c.grant] = revoked]
        /\ revocationEvidence' = Append(revocationEvidence, record)
        /\ revocationSequence' = n /\ UNCHANGED requests
    BY <1>6 DEF CompleteRevocation
  <2>. HIDE DEF result, revoked, record, n
  <2>8. /\ revocationIdempotency' \in [Keys -> Optional(Remembered)]
        /\ answered' \subseteq [command: RevokeCommand, result: Result]
    BY <2>4, <2>7, RememberTyped
  <2>9. grants' \in Seq(Grant)
    BY <2>1, <2>5, <2>7 DEF CPTypeOK, Revocable
  <2>10. revocationEvidence' \in Seq(Evidence)
    BY <2>6, <2>7 DEF CPTypeOK
  <2>. QED
    BY <2>3, <2>7, <2>8, <2>9, <2>10 DEF CPTypeOK
<1>. QED
  BY <1>1, <1>2, <1>3, <1>4, <1>5, <1>6
     DEF CPNext, RefuseDecision, RevokeGrant, RefuseKey, RefuseRevocation

-----------------------------------------------------------------------------
(* A true answer, remembered and given, keeps cache and answers true.        *)
LEMMA AnswerKept ==
  ASSUME CPInv, KeepsRevoked, NEW c \in RevokeCommand, NEW result \in Result,
         Remember(c, result), Answer(c, result),
         ~Cached(c), result.grant = c.grant, Tells(result)'
  PROVE  CacheInv' /\ AnswerInv'
<1> DEFINE entry == [fingerprint |-> Fingerprint(c), result |-> result]
<1>1. entry.fingerprint.grant = c.grant /\ entry.result = result /\ entry # Absent
  <2>1. entry \in Remembered
    BY DEF Fingerprint, RevokeCommand, Remembered
  <2>. QED
    BY <2>1, AbsentAssumption DEF Fingerprint
<1>2. CacheInv'
  <2>. SUFFICES ASSUME NEW k \in Keys, (revocationIdempotency[k] # Absent)'
                PROVE  (/\ revocationIdempotency[k].fingerprint.grant
                             = revocationIdempotency[k].result.grant
                        /\ Tells(revocationIdempotency[k].result))'
    BY DEF CacheInv
  <2>1. CASE revocationIdempotency'[k] = revocationIdempotency[k]
    <3>1. Tells(revocationIdempotency[k].result)
      BY <2>1 DEF CPInv, CacheInv
    <3>2. Tells(revocationIdempotency[k].result)'
      BY <2>1, <3>1 DEF KeepsRevoked, Tells, Revoked
    <3>. QED
      BY <2>1, <3>2 DEF CPInv, CacheInv
  <2>2. CASE revocationIdempotency'[k] = entry
    <3>. HIDE DEF entry
    <3>1. Tells(revocationIdempotency[k].result)'
      BY <2>2, <1>1 DEF Tells, Revoked
    <3>. QED
      BY <2>2, <3>1, <1>1
  <2>. QED
    BY <2>1, <2>2 DEF Remember, CPInv, CPTypeOK
<1>3. AnswerInv'
  <2>. SUFFICES ASSUME NEW a \in answered'
                PROVE  /\ a.result.grant = a.command.grant /\ Tells(a.result)'
                       /\ a.command.key # Absent =>
                            /\ revocationIdempotency'[a.command.key] # Absent
                            /\ revocationIdempotency'[a.command.key].fingerprint
                                 = Fingerprint(a.command)
    BY DEF AnswerInv
  <2>1. CASE a \in answered
    <3>1. a.command \in RevokeCommand
      BY <2>1 DEF CPInv, CPTypeOK
    <3>2. a.result.grant = a.command.grant /\ Tells(a.result)'
      BY <2>1, TellsOn DEF CPInv, AnswerInv
    <3>3. ASSUME a.command.key # Absent
          PROVE  revocationIdempotency'[a.command.key] = revocationIdempotency[a.command.key]
      <4>1. revocationIdempotency[a.command.key] # Absent
        BY <2>1, <3>3 DEF CPInv, AnswerInv
      <4>2. c.key # Absent => a.command.key # c.key
        BY <4>1 DEF Cached
      <4>. QED
        BY <4>2 DEF Remember, CPInv, CPTypeOK
    <3>. QED
      BY <2>1, <3>2, <3>3 DEF CPInv, AnswerInv
  <2>2. CASE a = [command |-> c, result |-> result]
    <3>1. ASSUME c.key # Absent
          PROVE  revocationIdempotency'[c.key] = entry
      <4>1. c.key \in Keys
        BY <3>1 DEF RevokeCommand, Optional
      <4>. QED
        BY <3>1, <4>1 DEF Remember, CPInv, CPTypeOK
    <3>2. entry.fingerprint = Fingerprint(c)
      OBVIOUS
    <3>. QED
      BY <1>1, <2>2, <3>1, <3>2
  <2>. QED
    BY <2>1, <2>2 DEF Answer
<1>. QED
  BY <1>2, <1>3

-----------------------------------------------------------------------------
(* A revocation completed: one more record, about one more revoked grant.    *)
LEMMA CompletionInv ==
  ASSUME CPInv, KeepsRevoked, CPTypeOK', NEW c \in RevokeCommand, NEW at \in Nat,
         CompleteRevocation(c, at)
  PROVE  EvidenceInv' /\ CacheInv' /\ AnswerInv'
<1> DEFINE grant == grants[c.grant]
           n == revocationSequence + 1
           result == [grant |-> c.grant, revocation |-> n,
                      evidence |-> Len(revocationEvidence) + 1,
                      completedAt |-> at, replay |-> FALSE]
           record == [revocation |-> n, grant |-> c.grant,
                      subject |-> grant.subject, requester |-> grant.requester,
                      reason |-> StatedReason(c), key |-> c.key, completedAt |-> at]
           revoked == RevokedGrant(grant, n, at, StatedReason(c))
<1>1. /\ ~Cached(c) /\ Remember(c, result) /\ Answer(c, result)
      /\ grants' = [grants EXCEPT ![c.grant] = revoked]
      /\ revocationEvidence' = Append(revocationEvidence, record)
      /\ revocationSequence' = n
  BY DEF CompleteRevocation
<1>2. /\ c.grant \in DOMAIN grants /\ grant \in Grant /\ c.grant \in Nat
      /\ grant.status = "active"
      /\ StatedReason(c) \in Reasons \cup {"MANUAL_REVOCATION"}
  BY ResultTypes DEF CompleteRevocation, Revocable
<1>3. n = Len(revocationEvidence) + 1 /\ n \in Nat \ {0} /\ Len(revocationEvidence) \in Nat
  BY DEF CPInv, EvidenceInv, CPTypeOK
<1>4. revoked.status = "revoked" /\ revoked.revocation = n /\ revoked.revokedAt = at
  BY <1>2 DEF RevokedGrant, Grant
<1>5. record.revocation = n /\ record.grant = c.grant /\ record.completedAt = at
  OBVIOUS
<1>6. /\ result.grant = c.grant /\ result.revocation = n /\ result.evidence = n
      /\ result.completedAt = at /\ result \in Result
  BY <1>2, <1>3 DEF Result, Optional
<1>. HIDE DEF revoked, record, result, n
<1>7. grants'[c.grant] = revoked /\ DOMAIN grants' = DOMAIN grants
      /\ \A g \in DOMAIN grants : g # c.grant => grants'[g] = grants[g]
  BY <1>1, <1>2
<1>8. /\ DOMAIN revocationEvidence = 1..Len(revocationEvidence)
      /\ DOMAIN revocationEvidence' = 1..n /\ revocationEvidence'[n] = record
      /\ \A e \in DOMAIN revocationEvidence : revocationEvidence'[e] = revocationEvidence[e]
  BY <1>1, <1>3 DEF CPInv, CPTypeOK
<1>9. EvidenceInv'
  <2>1. revocationSequence' = Len(revocationEvidence')
    BY <1>1, <1>3, <1>8 DEF CPInv, CPTypeOK
  <2>2. ASSUME NEW e \in DOMAIN revocationEvidence' PROVE OnRecord(e)'
    <3>1. CASE e = n
      BY <3>1, <1>4, <1>5, <1>7, <1>8, <1>2 DEF OnRecord, Revoked
    <3>2. CASE e \in DOMAIN revocationEvidence
      BY <3>2, <1>8 DEF OnRecord, Revoked, KeepsRevoked, CPInv, EvidenceInv
    <3>. QED
      BY <3>1, <3>2, <1>3, <1>8
  <2>3. ASSUME NEW g \in DOMAIN grants', grants'[g].status = "revoked"
        PROVE  /\ grants'[g].revocation \in DOMAIN revocationEvidence'
               /\ revocationEvidence'[grants'[g].revocation].grant = g
    <3>1. CASE g = c.grant
      BY <3>1, <1>3, <1>4, <1>5, <1>7, <1>8
    <3>2. CASE g # c.grant
      BY <2>3, <3>2, <1>3, <1>7, <1>8 DEF CPInv, EvidenceInv
    <3>. QED
      BY <3>1, <3>2
  <2>. QED
    BY <2>1, <2>2, <2>3 DEF EvidenceInv
<1>10. PICK r \in Result : r = result
  BY <1>6
<1>11. Tells(r)'
  BY <1>2, <1>4, <1>6, <1>7, <1>10 DEF Tells, Revoked
<1>. QED
  BY <1>1, <1>6, <1>9, <1>10, <1>11, AnswerKept

(* A revocation repeated: the grant and its record, answered once more.      *)
LEMMA RepetitionInv ==
  ASSUME CPInv, KeepsRevoked, CPTypeOK', NEW c \in RevokeCommand, RepeatRevocation(c)
  PROVE  EvidenceInv' /\ CacheInv' /\ AnswerInv'
<1> DEFINE g == c.grant
           result == [grant |-> g, revocation |-> grants[g].revocation,
                      evidence |-> EvidenceOf(g),
                      completedAt |-> grants[g].revokedAt, replay |-> TRUE]
<1>1. /\ ~Cached(c) /\ Remember(c, result) /\ Answer(c, result)
      /\ g \in DOMAIN grants /\ grants[g].status = "revoked"
      /\ UNCHANGED <<requests, grants, revocationEvidence, revocationSequence>>
  BY DEF RepeatRevocation, Revocable
<1>2. EvidenceOf(g) = grants[g].revocation
  BY <1>1, EvidenceOfRevoked
<1>3. EvidenceInv'
  BY <1>1 DEF CPInv, EvidenceInv, OnRecord, Revoked
<1>4. /\ result.grant = g /\ result.revocation = grants[g].revocation
      /\ result.evidence = grants[g].revocation
      /\ result.completedAt = grants[g].revokedAt
  BY <1>2
<1>5. result \in Result
  <2>1. /\ grants[g].revocation \in DOMAIN revocationEvidence
        /\ revocationEvidence[grants[g].revocation].grant = g
        /\ revocationEvidence[grants[g].revocation] \in Evidence
        /\ grants[g].revocation \in Nat
    BY <1>1 DEF CPInv, EvidenceInv, CPTypeOK
  <2>2. grants[g].revokedAt \in Nat
    BY <2>1 DEF CPInv, EvidenceInv, OnRecord, Evidence
  <2>. QED
    BY <1>2, <2>1, <2>2 DEF Result, Optional, RevokeCommand
<1>. HIDE DEF result
<1>6. PICK r \in Result : r = result
  BY <1>5
<1>7. Tells(r)'
  BY <1>1, <1>4, <1>6 DEF Tells, Revoked
<1>. QED
  BY <1>1, <1>3, <1>4, <1>6, <1>7, AnswerKept

(* A revocation replayed: the cached answer, marked as a replay.             *)
LEMMA ReplayInv ==
  ASSUME CPInv, KeepsRevoked, NEW c \in RevokeCommand, ReplayRevocation(c)
  PROVE  EvidenceInv' /\ CacheInv' /\ AnswerInv'
<1> DEFINE entry == revocationIdempotency[c.key]
           again == [entry.result EXCEPT !.replay = TRUE]
<1>1. /\ c.key # Absent /\ entry # Absent /\ entry.fingerprint = Fingerprint(c)
      /\ answered' = answered \cup {[command |-> c, result |-> again]}
      /\ UNCHANGED <<requests, grants, revocationEvidence, revocationIdempotency,
                     revocationSequence>>
  BY DEF ReplayRevocation, Cached, SameCommand, Answer
<1>2. entry \in Remembered /\ c.key \in Keys
  BY <1>1 DEF CPInv, CPTypeOK, RevokeCommand, Optional
<1>3. /\ again.grant = entry.result.grant /\ again.revocation = entry.result.revocation
      /\ again.evidence = entry.result.evidence
      /\ again.completedAt = entry.result.completedAt
  BY <1>2 DEF Remembered, Result
<1>4. entry.result.grant = c.grant /\ Tells(entry.result)
  BY <1>1, <1>2 DEF CPInv, CacheInv, Fingerprint
<1>. HIDE DEF again
<1>5. EvidenceInv' /\ CacheInv'
  BY <1>1 DEF CPInv, EvidenceInv, OnRecord, Revoked, CacheInv, Tells
<1>6. ASSUME NEW a \in answered'
      PROVE  (/\ a.result.grant = a.command.grant /\ Tells(a.result)
              /\ a.command.key # Absent =>
                   /\ revocationIdempotency[a.command.key] # Absent
                   /\ revocationIdempotency[a.command.key].fingerprint
                        = Fingerprint(a.command))'
  <2>1. CASE a \in answered
    <3>1. Tells(a.result)'
      BY <2>1, TellsOn DEF CPInv, AnswerInv
    <3>. QED
      BY <1>1, <2>1, <3>1 DEF CPInv, AnswerInv
  <2>2. CASE a = [command |-> c, result |-> again]
    <3>1. Tells(again)
      BY <1>3, <1>4 DEF Tells
    <3>2. Tells(a.result)'
      BY <1>1, <2>2, <3>1 DEF Tells, Revoked
    <3>. QED
      BY <1>1, <1>3, <1>4, <2>2, <3>2
  <2>. QED
    BY <1>1, <2>1, <2>2
<1>. QED
  BY <1>5, <1>6 DEF AnswerInv

(* No other operation touches a revoked grant, its record or its answers.    *)
LEMMA UntouchedInv ==
  ASSUME CPInv, KeepsRevoked, CPTypeOK',
         UNCHANGED <<revocationEvidence, revocationIdempotency, revocationSequence, answered>>,
         \A g \in DOMAIN grants' : g \in DOMAIN grants \/ grants'[g].status = "active",
         \A g \in DOMAIN grants : grants'[g] = grants[g]
  PROVE  EvidenceInv' /\ CacheInv' /\ AnswerInv'
<1>1. EvidenceInv'
  BY DEF CPInv, EvidenceInv, OnRecord, Revoked, KeepsRevoked
<1>2. CacheInv'
  <2>. SUFFICES ASSUME NEW k \in Keys, revocationIdempotency[k] # Absent
                PROVE  Tells(revocationIdempotency[k].result)'
    BY DEF CPInv, CacheInv
  <2>1. Tells(revocationIdempotency[k].result)
    BY DEF CPInv, CacheInv
  <2>. QED
    BY <2>1 DEF Tells, Revoked, KeepsRevoked
<1>3. AnswerInv'
  BY TellsOn DEF CPInv, AnswerInv
<1>. QED
  BY <1>1, <1>2, <1>3

(* Every step of the control plane keeps the invariant.                      *)
LEMMA StepInv == CPInv /\ [CPNext]_cpVars => CPInv'
<1>. SUFFICES ASSUME CPInv, [CPNext]_cpVars PROVE CPInv'
  OBVIOUS
<1>1. KeepsRevoked /\ CPTypeOK'
  BY StepKeepsRevoked, StepTyped
<1>2. CASE UNCHANGED cpVars
  BY <1>1, <1>2, UntouchedInv DEF CPInv, cpVars
<1>3. ASSUME NEW s, NEW r, CreateAccessRequest(s, r) PROVE CPInv'
  BY <1>1, <1>3, UntouchedInv DEF CPInv, CreateAccessRequest
<1>4. ASSUME NEW i, NEW s, NEW d, DecideAccessRequest(i, s, d) PROVE CPInv'
  <2>1. /\ \A g \in DOMAIN grants' : g \in DOMAIN grants \/ grants'[g].status = "active"
        /\ \A g \in DOMAIN grants : grants'[g] = grants[g]
    <3>1. NewGrant(i).status = "active"
      BY DEF NewGrant
    <3>. QED
      BY <1>4, <3>1 DEF DecideAccessRequest, CPInv, CPTypeOK
  <2>. QED
    BY <1>1, <1>4, <2>1, UntouchedInv DEF CPInv, DecideAccessRequest
<1>5. ASSUME NEW c \in RevokeCommand, NEW at \in Nat, RevokeGrant(c, at) PROVE CPInv'
  BY <1>1, <1>2, <1>5, ReplayInv, RepetitionInv, CompletionInv
     DEF CPInv, RevokeGrant, RefuseKey, RefuseRevocation
<1>. QED
  BY <1>2, <1>3, <1>4, <1>5 DEF CPNext, RefuseDecision

-----------------------------------------------------------------------------
(* What the invariant says of any two answers and any two records.           *)
LEMMA Convergence == CPInv => RevocationsConverge
<1>. SUFFICES ASSUME CPInv PROVE RevocationsConverge
  OBVIOUS
<1>1. ASSUME NEW a \in answered, NEW b \in answered, a.result.grant = b.result.grant
      PROVE  /\ a.result.revocation = b.result.revocation
             /\ a.result.evidence = b.result.evidence
             /\ a.result.completedAt = b.result.completedAt
  BY <1>1 DEF CPInv, AnswerInv, Tells
<1>2. ASSUME NEW e \in DOMAIN revocationEvidence, NEW f \in DOMAIN revocationEvidence,
             revocationEvidence[e].grant = revocationEvidence[f].grant
      PROVE  e = f
  BY <1>2 DEF CPInv, EvidenceInv, OnRecord
<1>. QED
  BY <1>1, <1>2 DEF RevocationsConverge

(* An answer tells what the grant and the evidence it quotes say.            *)
LEMMA AnswersInForce == CPInv => AnsweredIsRevoked
<1>. SUFFICES ASSUME CPInv, NEW a \in answered
     PROVE  LET g == a.result.grant
                e == a.result.evidence
            IN /\ g = a.command.grant
               /\ g \in DOMAIN grants /\ grants[g].status = "revoked"
               /\ e \in DOMAIN revocationEvidence /\ revocationEvidence[e].grant = g
               /\ revocationEvidence[e].revocation = grants[g].revocation
               /\ grants[g].revokedAt = a.result.completedAt
               /\ revocationEvidence[e].completedAt = a.result.completedAt
  BY DEF AnsweredIsRevoked
<1>1. a.result.grant = a.command.grant /\ Tells(a.result)
  BY DEF CPInv, AnswerInv
<1>. QED
  BY <1>1 DEF CPInv, EvidenceInv, OnRecord, Tells, Revoked

(* Answers under one key are of one command.                                 *)
LEMMA KeysName == CPInv => KeyNamesOneCommand
BY DEF CPInv, AnswerInv, KeyNamesOneCommand

(* The invariant holds throughout, whatever the order of the operations.     *)
THEOREM ControlPlaneInvariant == CPSpec => []CPInv
<1>1. CPInit => CPInv
  BY InitInv
<1>2. CPInv /\ [CPNext]_cpVars => CPInv'
  BY StepInv
<1>. QED
  BY <1>1, <1>2, PTL DEF CPSpec

(* The stores stay well typed.                                               *)
THEOREM StoresTyped == CPSpec => []CPTypeOK
<1>1. CPInv => CPTypeOK
  BY DEF CPInv
<1>. QED
  BY <1>1, ControlPlaneInvariant, PTL

(* All answers about a grant agree, and one record is about it, however      *)
(* often and under whatever keys it is revoked (revokeGrant).                *)
THEOREM RevocationConverges == CPSpec => []RevocationsConverge
BY ControlPlaneInvariant, Convergence, PTL

(* Every answer to a revocation speaks of a grant that is revoked and of its *)
(* own evidence, and stays true (revokeGrant's atomic block).                *)
THEOREM AnswersStayTrue == CPSpec => []AnsweredIsRevoked
BY ControlPlaneInvariant, AnswersInForce, PTL

(* One idempotency key is answered for one command (revokeGrant's conflict). *)
THEOREM KeysAreNotReused == CPSpec => []KeyNamesOneCommand
BY ControlPlaneInvariant, KeysName, PTL

(* No decision and no revocation changes a revoked grant.                    *)
THEOREM RevocationIsFinal == CPSpec => RevokedIsFinal
<1>1. CPInv /\ [CPNext]_cpVars =>
        [\A g \in DOMAIN grants :
           /\ g \in DOMAIN grants'
           /\ grants[g].status = "revoked" => grants'[g] = grants[g]]_cpVars
  BY StepKeepsRevoked DEF KeepsRevoked
<1>. QED
  BY <1>1, ControlPlaneInvariant, PTL DEF CPSpec, RevokedIsFinal
=============================================================================
