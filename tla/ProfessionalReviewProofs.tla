---------------------- MODULE ProfessionalReviewProofs -----------------------
(***************************************************************************)
(* What professional review guarantees for every profile, any number of    *)
(* sessions and any length of a case: decisions name revisions that really *)
(* happened, a current attestation was given on the dossier the case still *)
(* has, no attestation stands without its decision, objections stay.       *)
(*                                                                         *)
(* A case only ever grows by appending to its history, so what is said of  *)
(* a history h is said as constant-level operators of h, and carried from  *)
(* h to any history that extends it.  Statements about a stretch of        *)
(* revisions would be inductions over data; here DossierInv carries them,  *)
(* one revision per step.                                                  *)
(***************************************************************************)
EXTENDS ProfessionalReview, CaseAggregateProofs, FiniteSetTheorems, SequenceTheorems

\* What every step of a case keeps of it: the profile, and each material,
\* which may at most be associated with more requirements.
Follows(c, next) ==
  /\ next.revision = c.revision + 1
  /\ next.profile = c.profile
  /\ \A m \in c.materials : \E n \in next.materials :
       n.materialId = m.materialId /\ n.ref = m.ref

\* A change of the case alone brings in no attestation, as long as other
\* writers do not store or associate material of that kind.
BringsNoAttestation(c, next) ==
  "Attestation" \notin ChangeKinds =>
    \A m \in next.materials : m.kind = "Attestation" => m \in c.materials

\* next is c with the attestation m of requirement q, and nothing else.
AddsAttestation(c, next, m, q) ==
  /\ m.kind = "Attestation"
  /\ m.requirementIds = {q}
  /\ next.state = c.state
  /\ next.materials = c.materials \cup {m}

\* next is c with the attestation that d names.
AttestedBy(d, c, next) ==
  \E m \in next.materials :
    /\ Produced(d, d.requirement, m)
    /\ m.materialId \notin MaterialIdsOf(c)
    /\ AddsAttestation(c, next, m, d.requirement)

\* A history numbers every revision of one case, all of them well formed.
Recorded(h) ==
  /\ Len(h) # 0
  /\ \A n \in 1..Len(h) :
       h[n].revision = n /\ h[n].profile = h[1].profile /\ WellFormed(h[n])

Extends(h, g) == Len(h) <= Len(g) /\ \A n \in 1..Len(h) : g[n] = h[n]

\* A stretch of history in which no step touches the dossier for r leaves it
\* as it was.
KeptThrough(h, r, a, b) ==
  \A n \in (a + 1)..b : DossierFor(h[n], r) = DossierFor(h[n - 1], r)

DossierKept(h) ==
  \A r \in Requirements : \A b \in 1..Len(h) : \A a \in 1..b :
    KeptThrough(h, r, a, b) => DossierFor(h[b], r) = DossierFor(h[a], r)

\* A decision is about a stored revision and an attestation requirement of
\* the case, and claims a further revision only with an attestation.
Sound(h, d) ==
  /\ d.basis \in 1..Len(h)
  /\ d.requirement \in ProfileRequirements[h[1].profile]
  /\ RequirementKind[d.requirement] = "Attestation"
  /\ d.resulting # 0 => d.resulting = d.basis + 1 /\ d.action = Attest

\* The attestation a decision names was stored, at the revision it claims.
Happened(h, d) ==
  /\ d.resulting \in 1..Len(h)
  /\ AttestedBy(d, h[d.basis], h[d.resulting])

\* A case a session has yet to store follows the stored case it was made from.
NextOK(h, x) ==
  x.next # NoCase =>
    /\ x.next.revision - 1 \in 1..Len(h)
    /\ Follows(h[x.next.revision - 1], x.next)

UndecidedOK(h, x) ==
  /\ x.snapshot = NoCase
  /\ x.next # NoCase /\ CommitOrder # "DecisionFirst" =>
       BringsNoAttestation(h[x.next.revision - 1], x.next)

UnsignedOK(h, x) ==
  /\ x.next = NoCase
  /\ x.decision.resulting = 0
  /\ x.decision.action = Attest
  /\ x.decision.materialId \in MaterialIds
  /\ x.decision.ref \in Refs
  /\ x.snapshot = h[x.decision.basis]

SignedOK(h, x) ==
  /\ x.snapshot = NoCase
  /\ x.next # NoCase => /\ x.next.revision = x.decision.resulting
                        /\ AttestedBy(x.decision, h[x.decision.basis], x.next)
  /\ x.next = NoCase => CommitOrder = "CaseFirst" /\ Happened(h, x.decision)

PositionOK(x) == x.next = NoCase /\ x.decision.materialId = NoArtifact

\* What a session still has to store belongs together: a decision under
\* signature and its snapshot, a signed one and the case it produced.
PhaseOK(h, x) ==
  /\ x.decision = NoDecision => UndecidedOK(h, x)
  /\ x.decision # NoDecision =>
       /\ Sound(h, x.decision)
       /\ x.snapshot # NoCase => UnsignedOK(h, x)
       /\ x.snapshot = NoCase /\ x.decision.resulting = 0 => PositionOK(x)
       /\ x.decision.resulting # 0 => SignedOK(h, x)

HistoryInv ==
  /\ Recorded(history)
  /\ case = history[Len(history)]
  /\ DossierKept(history)

SessionInv ==
  \A s \in Sessions : NextOK(history, session[s]) /\ PhaseOK(history, session[s])

Stored(h, d) ==
  /\ Sound(h, d)
  /\ d.resulting = 0 => d.materialId = NoArtifact
  /\ d.resulting # 0 /\ CommitOrder # "DecisionFirst" => Happened(h, d)

DecisionInv == \A d \in decisions : Stored(history, d)

\* The positions taken on any requirement have a latest basis.
HasLatest(ds, r) ==
  (\E d \in ds : d.requirement = r) =>
    \E e \in ds : /\ e.requirement = r
                  /\ \A d \in ds : d.requirement = r => d.basis <= e.basis

LatestInv == \A r \in Requirements : HasLatest(decisions, r)

\* Every attestation in the case has the decision that produced it.
JustifiedInv ==
  CommitOrder = "Atomic" /\ "Attestation" \notin ChangeKinds =>
    \A m \in case.materials : m.kind = "Attestation" =>
      \A r \in m.requirementIds : \E d \in decisions : Produced(d, r, m)

ReviewInv ==
  /\ TypeOK
  /\ HistoryInv
  /\ SessionInv
  /\ DecisionInv
  /\ LatestInv
  /\ JustifiedInv

SessionState ==
  [snapshot: Case \cup {NoCase}, next: Case \cup {NoCase},
   decision: Decision \cup {NoDecision}]

-----------------------------------------------------------------------------
(* The operations of the aggregate, as steps of a history *)

\* (activateProtocolizationCase)
LEMMA ActivatedFollows ==
  ASSUME NEW c \in Case, NEW now
  PROVE  /\ Follows(c, ActivatedCase(c, now))
         /\ BringsNoAttestation(c, ActivatedCase(c, now))
BY ActivatedFields DEF Follows, BringsNoAttestation

\* (cancelProtocolizationCase)
LEMMA CancelledFollows ==
  ASSUME NEW c \in Case, NEW now
  PROVE  /\ Follows(c, CancelledCase(c, now))
         /\ BringsNoAttestation(c, CancelledCase(c, now))
BY CancelledFields DEF Follows, BringsNoAttestation

\* (addProtocolizationCaseMaterial)
LEMMA WithMaterialFollows ==
  ASSUME NEW c \in Case, NEW m
  PROVE  /\ Follows(c, WithMaterial(c, m))
         /\ m.kind \in ChangeKinds => BringsNoAttestation(c, WithMaterial(c, m))
BY WithMaterialFields DEF Follows, BringsNoAttestation

\* (associateProtocolizationCaseMaterial)
LEMMA WithAssociationFollows ==
  ASSUME NEW c \in Case, NEW m \in c.materials, NEW rs, NEW now
  PROVE  /\ Follows(c, WithAssociation(c, m, rs, now))
         /\ m.kind \in ChangeKinds =>
              BringsNoAttestation(c, WithAssociation(c, m, rs, now))
<1> DEFINE n == [m EXCEPT !.requirementIds = @ \cup rs]
           d == WithAssociation(c, m, rs, now)
<1>1. m \in Material
  BY DEF Case
<1>2. n.materialId = m.materialId /\ n.kind = m.kind /\ n.ref = m.ref
  BY <1>1, AssociatedMaterialFields
<1>3. /\ d.revision = c.revision + 1 /\ d.profile = c.profile
      /\ d.materials = (c.materials \ {m}) \cup {n}
  BY WithAssociationFields
<1> HIDE DEF n, d
<1>4. Follows(c, d)
  BY <1>2, <1>3 DEF Follows
<1>5. m.kind \in ChangeKinds => BringsNoAttestation(c, d)
  BY <1>2, <1>3 DEF BringsNoAttestation
<1> QED BY <1>4, <1>5 DEF d

\* The signed attestation is the whole difference it makes to the case.
LEMMA SigningAttests ==
  ASSUME NEW c \in Case, NEW m, NEW d, Produced(d, d.requirement, m),
         m.kind = "Attestation", m.requirementIds = {d.requirement},
         m.materialId \notin MaterialIdsOf(c)
  PROVE  AttestedBy(d, c, WithMaterial(c, m))
BY WithMaterialFields DEF AttestedBy, AddsAttestation

-----------------------------------------------------------------------------
(* Histories *)

\* Storing a case extends the history by it.
LEMMA Appended ==
  ASSUME NEW h \in Seq(Case), NEW c \in Case
  PROVE  /\ Append(h, c) \in Seq(Case)
         /\ Len(Append(h, c)) = Len(h) + 1
         /\ Append(h, c)[Len(h) + 1] = c
         /\ \A n \in 1..Len(h) : Append(h, c)[n] = h[n]
         /\ Extends(h, Append(h, c))
BY DEF Extends

\* A history extends itself.
LEMMA ExtendsItself ==
  ASSUME NEW h \in Seq(Case)
  PROVE  Extends(h, h)
BY DEF Extends

\* What holds of decisions and sessions holds of them in a longer history.
LEMMA StaysSound ==
  ASSUME NEW h \in Seq(Case), NEW g \in Seq(Case), Extends(h, g), Recorded(h),
         NEW d, Sound(h, d)
  PROVE  Sound(g, d)
<1>1. Len(h) \in Nat /\ Len(g) \in Nat
  OBVIOUS
<1>2. g[1] = h[1]
  BY <1>1 DEF Extends, Recorded
<1> QED BY <1>1, <1>2 DEF Sound, Extends

\* An attestation that happened stays in the history.
LEMMA StaysHappened ==
  ASSUME NEW h \in Seq(Case), NEW g \in Seq(Case), Extends(h, g),
         NEW d, Sound(h, d), Happened(h, d)
  PROVE  Happened(g, d)
BY DEF Happened, Sound, Extends

\* The stored decisions stay sound.
LEMMA StaysStored ==
  ASSUME NEW h \in Seq(Case), NEW g \in Seq(Case), Extends(h, g), Recorded(h),
         NEW d, Stored(h, d)
  PROVE  Stored(g, d)
BY StaysSound, StaysHappened DEF Stored

\* A prepared case still follows the case it was made from.
LEMMA StaysNext ==
  ASSUME NEW h \in Seq(Case), NEW g \in Seq(Case), Extends(h, g),
         NEW x \in SessionState, NextOK(h, x)
  PROVE  NextOK(g, x)
BY DEF NextOK, Extends

\* A session stays in its phase.
LEMMA StaysInPhase ==
  ASSUME NEW h \in Seq(Case), NEW g \in Seq(Case), Extends(h, g), Recorded(h),
         NEW x \in SessionState, NextOK(h, x), PhaseOK(h, x)
  PROVE  PhaseOK(g, x)
<1>1. CASE x.decision = NoDecision
  <2>1. UndecidedOK(h, x)
    BY <1>1 DEF PhaseOK
  <2>2. UndecidedOK(g, x)
    BY <2>1 DEF UndecidedOK, NextOK, Extends
  <2> QED BY <1>1, <2>2 DEF PhaseOK
<1>2. CASE x.decision # NoDecision
  <2>1. Sound(h, x.decision) /\ Sound(g, x.decision)
    BY <1>2, StaysSound DEF PhaseOK
  <2>2. g[x.decision.basis] = h[x.decision.basis]
    BY <2>1 DEF Sound, Extends
  <2>3. x.snapshot # NoCase => UnsignedOK(g, x)
    BY <1>2, <2>2 DEF PhaseOK, UnsignedOK
  <2>4. x.decision.resulting # 0 => SignedOK(g, x)
    BY <1>2, <2>1, <2>2, StaysHappened DEF PhaseOK, SignedOK
  <2> QED BY <1>2, <2>1, <2>3, <2>4 DEF PhaseOK
<1> QED BY <1>1, <1>2

\* The repository takes only a well-formed case one revision further.
LEMMA RecordedAppended ==
  ASSUME NEW h \in Seq(Case), NEW c \in Case, Recorded(h),
         SaveAccepted(h[Len(h)], c), Follows(h[Len(h)], c)
  PROVE  Recorded(Append(h, c))
<1> DEFINE g == Append(h, c)
<1>1. /\ Len(h) \in Nat /\ Len(h) # 0 /\ Len(g) = Len(h) + 1
      /\ g[Len(h) + 1] = c /\ \A n \in 1..Len(h) : g[n] = h[n]
  BY Appended DEF Recorded
<1>2. h[Len(h)] \in Case /\ h[Len(h)].revision = Len(h) /\ h[Len(h)].profile = h[1].profile
  BY <1>1 DEF Recorded
<1>3. c.revision = Len(h) + 1 /\ c.profile = h[1].profile /\ WellFormed(c)
  BY <1>2 DEF SaveAccepted, Follows
<1> HIDE DEF g
<1>4. ASSUME NEW n \in 1..Len(g)
      PROVE  g[n].revision = n /\ g[n].profile = g[1].profile /\ WellFormed(g[n])
  <2>1. g[1] = h[1]
    BY <1>1
  <2>2. CASE n \in 1..Len(h)
    BY <1>1, <2>1, <2>2 DEF Recorded
  <2>3. CASE n = Len(h) + 1
    BY <1>1, <1>3, <2>1, <2>3
  <2> QED BY <1>1, <2>2, <2>3
<1>5. Recorded(g)
  BY <1>1, <1>4 DEF Recorded
<1> QED BY <1>5 DEF g

\* One more revision either touches the dossier or keeps it, and with it
\* every stretch that reached the revision before.
LEMMA DossierKeptAppended ==
  ASSUME NEW h \in Seq(Case), NEW c \in Case, DossierKept(h)
  PROVE  DossierKept(Append(h, c))
<1> DEFINE g == Append(h, c)
<1>1. /\ Len(h) \in Nat /\ Len(g) = Len(h) + 1
      /\ \A n \in 1..Len(h) : g[n] = h[n]
  BY Appended
<1> HIDE DEF g
<1>2. ASSUME NEW r \in Requirements, NEW b \in 1..Len(g), NEW a \in 1..b,
             KeptThrough(g, r, a, b)
      PROVE  DossierFor(g[b], r) = DossierFor(g[a], r)
  <2>1. ASSUME NEW k \in 1..Len(h), a <= k, k <= b
        PROVE  DossierFor(g[k], r) = DossierFor(g[a], r)
    <3>1. KeptThrough(h, r, a, k)
      <4> SUFFICES ASSUME NEW n \in (a + 1)..k
                   PROVE  DossierFor(h[n], r) = DossierFor(h[n - 1], r)
        BY DEF KeptThrough
      <4>1. n \in (a + 1)..b /\ n \in 1..Len(h) /\ n - 1 \in 1..Len(h)
        BY <1>1, <2>1
      <4> QED BY <1>1, <1>2, <4>1 DEF KeptThrough
    <3>2. a \in 1..k
      BY <2>1
    <3> QED BY <1>1, <2>1, <3>1, <3>2 DEF DossierKept
  <2>2. CASE b \in 1..Len(h)
    BY <2>1, <2>2
  <2>3. CASE a = b
    BY <2>3
  <2>4. CASE b = Len(h) + 1 /\ a # b
    <3>1. b - 1 \in 1..Len(h) /\ a <= b - 1 /\ b \in (a + 1)..b
      BY <1>1, <2>4
    <3>2. DossierFor(g[b - 1], r) = DossierFor(g[a], r)
      BY <2>1, <3>1
    <3> QED BY <1>2, <3>1, <3>2 DEF KeptThrough
  <2> QED BY <1>1, <2>2, <2>3, <2>4
<1>3. DossierKept(g)
  BY <1>2 DEF DossierKept
<1> QED BY <1>3 DEF g

-----------------------------------------------------------------------------
(* The initial states *)

\* The case an applicant has declared something in is ready to be reviewed.
LEMMA ReviewInit == Init => ReviewInv
<1> SUFFICES ASSUME Init PROVE ReviewInv
  OBVIOUS
<1>1. PICK t \in Tenants, id \in CaseIds, p \in Profiles :
        \E declared \in DeclaredCases(CreatedCase(t, id, p, 1)) :
          /\ case = declared
          /\ history = <<CreatedCase(t, id, p, 1), declared>>
  BY DEF Init
<1> DEFINE created == CreatedCase(t, id, p, 1)
<1>2. 1 \in Times
  BY AggregateAssumption DEF Times
<1>3. created \in Case /\ WellFormed(created) /\ created.revision = 1
      /\ created.materials = {} /\ created.profile = p
  BY <1>2, CreatedCaseType, CreatedCaseWellFormed DEF CreatedCase
<1> HIDE DEF created
<1>4. PICK m \in Material :
        /\ m.kind = "Declaration"
        /\ CanAddMaterial(created, created.tenantId, m)
        /\ case = WithMaterial(created, m)
        /\ history = <<created, case>>
  BY <1>1 DEF DeclaredCases, created
<1>5. case \in Case /\ WellFormed(case)
  BY <1>3, <1>4, WithMaterialType, WithMaterialWellFormed DEF CanAddMaterial
<1>6. /\ case.revision = 2 /\ case.profile = p /\ case.materials = {m}
  BY <1>3, <1>4, WithMaterialFields
<1>7. /\ history \in Seq(Case) /\ Len(history) = 2
      /\ history[1] = created /\ history[2] = case
  BY <1>3, <1>4, <1>5
<1>8. TypeOK
  BY <1>5, <1>7 DEF Init, TypeOK, Idle
<1>9. Recorded(history)
  BY <1>3, <1>5, <1>6, <1>7 DEF Recorded
<1>10. DossierKept(history)
  BY <1>7 DEF DossierKept, KeptThrough
<1>11. SessionInv
  BY DEF Init, SessionInv, Idle, NextOK, PhaseOK, UndecidedOK
<1>12. DecisionInv /\ LatestInv
  BY DEF Init, DecisionInv, LatestInv, HasLatest
<1>13. JustifiedInv
  BY <1>4, <1>6 DEF JustifiedInv
<1> QED BY <1>7, <1>8, <1>9, <1>10, <1>11, <1>12, <1>13 DEF ReviewInv, HistoryInv

-----------------------------------------------------------------------------
(* The steps *)

\* The case of a good history: the numbers and names every step uses.
LEMMA TheCase ==
  ASSUME ReviewInv
  PROVE  /\ case \in Case /\ history \in Seq(Case)
         /\ Len(history) \in Nat /\ Len(history) # 0
         /\ case.revision = Len(history) /\ case = history[Len(history)]
         /\ case.profile = history[1].profile /\ WellFormed(case)
         /\ session \in [Sessions -> SessionState]
         /\ \A s \in Sessions : session[s] \in SessionState
         /\ Recorded(history)
BY DEF ReviewInv, TypeOK, HistoryInv, Recorded, SessionState

\* One session's step, while the others and the repositories stand still.
LEMMA OneSession ==
  ASSUME ReviewInv, NEW s \in Sessions, NEW x \in SessionState,
         session' = [session EXCEPT ![s] = x],
         UNCHANGED <<case, requests, decisions, history>>,
         NextOK(history, x), PhaseOK(history, x)
  PROVE  ReviewInv'
<1>1. TypeOK'
  BY DEF ReviewInv, TypeOK, SessionState
<1>2. HistoryInv' /\ DecisionInv' /\ LatestInv' /\ JustifiedInv'
  BY DEF ReviewInv, HistoryInv, DecisionInv, LatestInv, JustifiedInv
<1>3. SessionInv'
  <2>1. ASSUME NEW t \in Sessions
        PROVE  NextOK(history', session'[t]) /\ PhaseOK(history', session'[t])
    <3>1. session'[t] = IF t = s THEN x ELSE session[t]
      BY DEF ReviewInv, TypeOK
    <3>2. history' = history
      OBVIOUS
    <3> QED BY <3>1, <3>2 DEF ReviewInv, SessionInv
  <2> QED BY <2>1 DEF SessionInv
<1> QED BY <1>1, <1>2, <1>3 DEF ReviewInv

\* An idle session has nothing to answer for.
LEMMA IdleOK ==
  ASSUME NEW h
  PROVE  Idle \in SessionState /\ NextOK(h, Idle) /\ PhaseOK(h, Idle)
BY DEF Idle, SessionState, NextOK, PhaseOK, UndecidedOK

\* A request that passes the guards of a decision is about the case as it is.
LEMMA DecidableRequest ==
  ASSUME ReviewInv, NEW s \in Sessions, NEW q \in requests, MayDecide(s, q)
  PROVE  /\ q.id \in RequestIds /\ q.requirement \in Requirements
         /\ q.basis = case.revision /\ session[s] = Idle
         /\ q.requirement \in ProfileRequirements[case.profile]
         /\ RequirementKind[q.requirement] = "Attestation"
BY DEF ReviewInv, TypeOK, Request, MayDecide, AttestationRequirements

\* A review request changes nothing a decision is judged by.
LEMMA CreateRequestStep ==
  ASSUME ReviewInv, NEW id \in RequestIds, NEW r \in Requirements,
         CreateRequest(id, r)
  PROVE  ReviewInv'
<1>1. [id |-> id, requirement |-> r, basis |-> case.revision] \in Request
  BY TheCase DEF Request
<1>2. TypeOK'
  BY <1>1 DEF ReviewInv, TypeOK, CreateRequest
<1>3. HistoryInv' /\ SessionInv' /\ DecisionInv' /\ LatestInv' /\ JustifiedInv'
  BY DEF ReviewInv, HistoryInv, SessionInv, DecisionInv, LatestInv, JustifiedInv,
         CreateRequest
<1> QED BY <1>2, <1>3 DEF ReviewInv

\* A position without an artifact is complete at once.
LEMMA DecideStep ==
  ASSUME ReviewInv, NEW s \in Sessions, NEW q \in requests, NEW action \in Positions,
         Decide(s, q, action)
  PROVE  ReviewInv'
<1> DEFINE d == DecisionOn(q, action, NoArtifact, NoArtifact)
           x == [snapshot |-> NoCase, next |-> NoCase, decision |-> d]
<1>1. MayDecide(s, q) /\ session' = [session EXCEPT ![s].decision = d]
  BY DEF Decide
<1>2. action \in Actions
  BY ReviewAssumption
<1>3. d \in Decision /\ d # NoDecision
  BY <1>1, <1>2, DecidableRequest, TheCase, DecisionAssumption DEF Decision, DecisionOn
<1>4. /\ d.basis = case.revision /\ d.requirement = q.requirement
      /\ d.resulting = 0 /\ d.materialId = NoArtifact
  BY <1>1, DecidableRequest DEF DecisionOn
<1> HIDE DEF d
<1>5. Sound(history, d)
  BY <1>1, <1>4, DecidableRequest, TheCase DEF Sound
<1>6. session' = [session EXCEPT ![s] = x]
  <2>1. session[s] = Idle
    BY <1>1, DecidableRequest
  <2>2. [session[s] EXCEPT !.decision = d] = x
    BY <2>1 DEF Idle
  <2> QED BY <1>1, <2>2
<1>7. x \in SessionState
  BY <1>3 DEF SessionState
<1>8. NextOK(history, x) /\ PhaseOK(history, x)
  BY <1>3, <1>4, <1>5 DEF NextOK, PhaseOK, PositionOK
<1>9. UNCHANGED <<case, requests, decisions, history>>
  BY DEF Decide
<1> HIDE DEF x
<1>10. PICK y \in SessionState : y = x
  BY <1>7
<1> QED BY <1>6, <1>8, <1>9, <1>10, OneSession

\* The signer is handed the very case the decision is about.
LEMMA AwaitSignatureStep ==
  ASSUME ReviewInv, NEW s \in Sessions, NEW q \in requests, NEW id \in MaterialIds,
         NEW ref \in Refs, AwaitSignature(s, q, id, ref)
  PROVE  ReviewInv'
<1> DEFINE d == DecisionOn(q, Attest, id, ref)
           x == [snapshot |-> case, next |-> NoCase, decision |-> d]
<1>1. MayDecide(s, q) /\ session' = [session EXCEPT ![s] = x]
  BY DEF AwaitSignature
<1>2. d \in Decision /\ d # NoDecision
  BY <1>1, DecidableRequest, TheCase, DecisionAssumption DEF Decision, DecisionOn, Actions
<1>3. /\ d.basis = case.revision /\ d.requirement = q.requirement
      /\ d.resulting = 0 /\ d.materialId = id /\ d.ref = ref /\ d.action = Attest
  BY <1>1, DecidableRequest DEF DecisionOn
<1> HIDE DEF d
<1>4. Sound(history, d)
  BY <1>1, <1>3, DecidableRequest, TheCase DEF Sound
<1>5. x \in SessionState
  BY <1>2, TheCase DEF SessionState
<1>6. case # NoCase
  BY TheCase, SentinelAssumption
<1>7. NextOK(history, x) /\ PhaseOK(history, x)
  BY <1>2, <1>3, <1>4, <1>6, TheCase DEF NextOK, PhaseOK, UnsignedOK
<1>8. UNCHANGED <<case, requests, decisions, history>>
  BY DEF AwaitSignature
<1> HIDE DEF x
<1>9. PICK y \in SessionState : y = x
  BY <1>5
<1> QED BY <1>1, <1>7, <1>8, <1>9, OneSession

\* The signature adds to the snapshot exactly what the decision names.
LEMMA SignedStep ==
  ASSUME ReviewInv, NEW s \in Sessions, NEW now \in Times, Signed(s, now)
  PROVE  ReviewInv'
<1> DEFINE d == session[s].decision
           c == session[s].snapshot
           m == [materialId |-> d.materialId, kind |-> "Attestation", ref |-> d.ref,
                 requirementIds |-> {d.requirement}, addedAt |-> now]
           e == [d EXCEPT !.resulting = c.revision + 1]
           next == WithMaterial(c, m)
           x == [snapshot |-> NoCase, next |-> next, decision |-> e]
<1>1. /\ c # NoCase /\ CanAddMaterial(c, c.tenantId, m)
      /\ session' = [session EXCEPT ![s] = x]
      /\ UNCHANGED <<case, requests, decisions, history>>
  BY DEF Signed
<1>2. session[s] \in SessionState /\ PhaseOK(history, session[s])
  BY TheCase DEF ReviewInv, SessionInv
<1>3. c \in Case /\ d \in Decision /\ d # NoDecision
      /\ Sound(history, d) /\ UnsignedOK(history, session[s])
  BY <1>1, <1>2, DecisionAssumption DEF PhaseOK, UndecidedOK, SessionState
<1>4. /\ d.action = Attest /\ d.materialId \in MaterialIds /\ d.ref \in Refs
      /\ d.basis \in 1..Len(history) /\ c = history[d.basis] /\ c.revision = d.basis
      /\ d.requirement \in Requirements
  BY <1>3, TheCase DEF UnsignedOK, Sound, Recorded, Decision
<1>5. m \in Material
  BY <1>4, ReviewAssumption DEF Material
<1>6. next \in Case
  BY <1>1, <1>3, <1>5, WithMaterialType DEF CanAddMaterial
<1>7. /\ e \in Decision /\ e.resulting = d.basis + 1 /\ e.basis = d.basis
      /\ e.action = Attest /\ e.requirement = d.requirement
      /\ e.materialId = d.materialId /\ e.ref = d.ref
  BY <1>3, <1>4, TheCase DEF Decision
<1>8. Produced(e, e.requirement, m) /\ m.kind = "Attestation"
      /\ m.requirementIds = {e.requirement} /\ m.materialId \notin MaterialIdsOf(c)
  BY <1>1, <1>4, <1>7 DEF Produced, CanAddMaterial
<1> HIDE DEF m, e
<1>9. AttestedBy(e, c, next)
  BY <1>3, <1>8, SigningAttests
<1>10. Follows(c, next) /\ next.revision = c.revision + 1
  BY <1>3, WithMaterialFollows DEF Follows
<1>11. next # NoCase /\ e # NoDecision
  BY <1>6, <1>7, SentinelAssumption, DecisionAssumption
<1> HIDE DEF next, c, d
<1>12. Sound(history, e)
  BY <1>3, <1>7 DEF Sound
<1>13. x \in SessionState
  BY <1>6, <1>7 DEF SessionState
<1>14. NextOK(history, x)
  BY <1>4, <1>10, TheCase DEF NextOK
<1>15. SignedOK(history, x)
  BY <1>4, <1>7, <1>9, <1>10, <1>11 DEF SignedOK
<1>16. PhaseOK(history, x)
  BY <1>4, <1>7, <1>11, <1>12, <1>15, TheCase DEF PhaseOK
<1> HIDE DEF x
<1>17. PICK y \in SessionState : y = x
  BY <1>13
<1> QED BY <1>1, <1>14, <1>16, <1>17, OneSession

\* What any other operation prepares, it prepares from the stored case.
LEMMA PreparedOK ==
  ASSUME ReviewInv, NEW s \in Sessions, session[s] = Idle, NEW c \in Case,
         Follows(case, c), BringsNoAttestation(case, c), Prepare(s, c)
  PROVE  ReviewInv'
<1> DEFINE x == [snapshot |-> NoCase, next |-> c, decision |-> NoDecision]
<1>1. session' = [session EXCEPT ![s] = x]
  <2>1. [session[s] EXCEPT !.next = c] = x
    BY DEF Idle
  <2> QED BY <2>1 DEF Prepare
<1>2. x \in SessionState
  BY DEF SessionState
<1>3. c.revision - 1 = Len(history) /\ history[c.revision - 1] = case
  BY TheCase DEF Follows
<1>4. NextOK(history, x) /\ PhaseOK(history, x)
  BY <1>3, TheCase DEF NextOK, PhaseOK, UndecidedOK
<1>5. UNCHANGED <<case, requests, decisions, history>>
  BY DEF Prepare
<1> HIDE DEF x
<1> QED BY <1>1, <1>2, <1>4, <1>5, OneSession

\* Every other writer of the case.
LEMMA ChangeStep ==
  ASSUME ReviewInv, NEW s \in Sessions, NEW now \in Times, Change(s, now)
  PROVE  ReviewInv'
<1>1. session[s] = Idle /\ case \in Case
  BY TheCase DEF Change
<1>2. CASE CanActivate(case, case.tenantId, now) /\ Prepare(s, ActivatedCase(case, now))
  BY <1>1, <1>2, ActivatedCaseType, ActivatedFollows, PreparedOK
<1>3. CASE CanCancel(case, case.tenantId, now) /\ Prepare(s, CancelledCase(case, now))
  BY <1>1, <1>3, CancelledCaseType, CancelledFollows, PreparedOK
<1>4. CASE \E m \in Material :
             /\ m.kind \in ChangeKinds
             /\ CanAddMaterial(case, case.tenantId, m)
             /\ Prepare(s, WithMaterial(case, m))
  <2>1. PICK m \in Material : /\ m.kind \in ChangeKinds
                              /\ CanAddMaterial(case, case.tenantId, m)
                              /\ Prepare(s, WithMaterial(case, m))
    BY <1>4
  <2>2. WithMaterial(case, m) \in Case
    BY <1>1, <2>1, WithMaterialType DEF CanAddMaterial
  <2> QED BY <1>1, <2>1, <2>2, WithMaterialFollows, PreparedOK
<1>5. CASE \E m \in case.materials, rs \in SUBSET ChangeTargets :
             /\ m.kind \in ChangeKinds
             /\ CanAssociate(case, case.tenantId, m, rs, now)
             /\ Prepare(s, WithAssociation(case, m, rs, now))
  <2>1. PICK m \in case.materials, rs \in SUBSET ChangeTargets :
             /\ m.kind \in ChangeKinds
             /\ CanAssociate(case, case.tenantId, m, rs, now)
             /\ Prepare(s, WithAssociation(case, m, rs, now))
    BY <1>5
  <2>2. m \in Material
    BY <1>1 DEF Case
  <2>3. WithAssociation(case, m, rs, now) \in Case
    BY <1>1, <2>1, <2>2, WithAssociationType DEF CanAssociate
  <2> QED BY <1>1, <2>1, <2>3, WithAssociationFollows, PreparedOK
<1> QED BY <1>2, <1>3, <1>4, <1>5 DEF Change

\* What a session had not stored is lost, and nothing else.
LEMMA AbandonStep ==
  ASSUME ReviewInv, NEW s \in Sessions, Abandon(s)
  PROVE  ReviewInv'
BY IdleOK, OneSession DEF Abandon

\* A further position on a requirement is its latest, or an earlier one is.
LEMMA LatestAdded ==
  ASSUME NEW ds \in SUBSET Decision, NEW d \in Decision, NEW r, HasLatest(ds, r)
  PROVE  HasLatest(ds \cup {d}, r)
<1>1. d.basis \in Nat /\ \A e \in ds : e.basis \in Nat
  BY DEF Decision
<1>2. CASE \E e \in ds : e.requirement = r
  <2>1. PICK e \in ds : /\ e.requirement = r
                        /\ \A f \in ds : f.requirement = r => f.basis <= e.basis
    BY <1>2 DEF HasLatest
  <2>2. CASE d.requirement = r /\ d.basis > e.basis
    BY <1>1, <2>1, <2>2 DEF HasLatest
  <2>3. CASE ~(d.requirement = r /\ d.basis > e.basis)
    BY <1>1, <2>1, <2>3 DEF HasLatest
  <2> QED BY <2>2, <2>3
<1>3. CASE ~ \E e \in ds : e.requirement = r
  BY <1>1, <1>3 DEF HasLatest
<1> QED BY <1>2, <1>3

\* The sessions stay what they are while one of them stores what it holds.
LEMMA OneSessionStores ==
  ASSUME ReviewInv, NEW s \in Sessions, NEW x \in SessionState,
         session' = [session EXCEPT ![s] = x],
         history' \in Seq(Case), Extends(history, history'),
         NextOK(history', x), PhaseOK(history', x)
  PROVE  SessionInv' /\ session' \in [Sessions -> SessionState]
<1>1. ASSUME NEW t \in Sessions
      PROVE  NextOK(history', session'[t]) /\ PhaseOK(history', session'[t])
  <2>1. CASE t = s
    BY <2>1, TheCase
  <2>2. CASE t # s
    <3>1. session'[t] = session[t] /\ session[t] \in SessionState
      BY <2>2, TheCase
    <3>2. NextOK(history, session[t]) /\ PhaseOK(history, session[t])
      BY DEF ReviewInv, SessionInv
    <3>3. NextOK(history', session[t]) /\ PhaseOK(history', session[t])
      BY <3>1, <3>2, TheCase, StaysNext, StaysInPhase
    <3> QED BY <3>1, <3>3
  <2> QED BY <2>1, <2>2
<1> QED BY <1>1, TheCase DEF SessionInv

\* What a decision repository takes is complete: a position, or a decision
\* whose attestation the case repository already has.
LEMMA SaveDecisionStep ==
  ASSUME ReviewInv, NEW s \in Sessions, SaveDecision(s)
  PROVE  ReviewInv'
<1> DEFINE d == session[s].decision
           x == [session[s] EXCEPT !.decision = NoDecision]
<1>1. /\ d # NoDecision /\ session[s].snapshot = NoCase
      /\ session[s].next # NoCase => CommitOrder = "DecisionFirst"
      /\ decisions' = decisions \cup {d}
      /\ session' = [session EXCEPT ![s] = x]
      /\ UNCHANGED <<case, requests, history>>
  BY DEF SaveDecision, StoreDecision, Unsigned
<1>2. /\ session[s] \in SessionState /\ NextOK(history, session[s])
      /\ PhaseOK(history, session[s])
  BY TheCase DEF ReviewInv, SessionInv
<1>3. /\ d \in Decision /\ x \in SessionState /\ x.decision = NoDecision
      /\ x.snapshot = NoCase /\ x.next = session[s].next
  BY <1>1, <1>2 DEF SessionState
<1>4. Stored(history, d)
  BY <1>1, <1>2 DEF Stored, PhaseOK, PositionOK, SignedOK
<1>5. NextOK(history, x) /\ PhaseOK(history, x)
  BY <1>1, <1>2, <1>3 DEF NextOK, PhaseOK, UndecidedOK
<1>6. history' = history /\ history \in Seq(Case)
  BY <1>1, TheCase
<1> HIDE DEF d, x
<1>7. PICK y \in SessionState : y = x
  BY <1>3
<1>8. SessionInv' /\ session' \in [Sessions -> SessionState]
  BY <1>1, <1>5, <1>6, <1>7, ExtendsItself, OneSessionStores
<1>9. TypeOK'
  BY <1>1, <1>3, <1>8 DEF ReviewInv, TypeOK, SessionState
<1>10. HistoryInv'
  BY <1>1 DEF ReviewInv, HistoryInv
<1>11. DecisionInv'
  BY <1>1, <1>4 DEF ReviewInv, DecisionInv
<1>12. decisions \in SUBSET Decision
  BY DEF ReviewInv, TypeOK
<1>13. LatestInv'
  BY <1>1, <1>3, <1>12, LatestAdded DEF ReviewInv, LatestInv
<1>14. JustifiedInv'
  BY <1>1 DEF ReviewInv, JustifiedInv
<1> QED BY <1>8, <1>9, <1>10, <1>11, <1>13, <1>14 DEF ReviewInv

\* The case repository takes only the successor of the case it has.
LEMMA CaseStored ==
  ASSUME ReviewInv, NEW s \in Sessions, session[s].next # NoCase,
         StoreCase(session[s].next)
  PROVE  /\ session[s].next \in Case /\ session[s].next.revision = Len(history) + 1
         /\ Follows(case, session[s].next)
         /\ case' = session[s].next /\ history' = Append(history, session[s].next)
         /\ history' \in Seq(Case) /\ Extends(history, history')
         /\ Len(history') = Len(history) + 1
         /\ history'[Len(history) + 1] = session[s].next
         /\ HistoryInv'
<1> DEFINE c == session[s].next
<1>1. /\ SaveAccepted(case, c) /\ case' = c /\ history' = Append(history, c)
  BY DEF StoreCase
<1>2. session[s] \in SessionState /\ NextOK(history, session[s])
  BY TheCase DEF ReviewInv, SessionInv
<1>3. c \in Case
  BY <1>2 DEF SessionState
<1>4. c.revision = Len(history) + 1
  BY <1>1, TheCase, SentinelAssumption DEF SaveAccepted, RevisionOf
<1>5. Follows(case, c)
  BY <1>2, <1>4, TheCase DEF NextOK
<1> HIDE DEF c
<1>6. /\ history' \in Seq(Case) /\ Extends(history, history')
      /\ Len(history') = Len(history) + 1 /\ history'[Len(history) + 1] = c
  BY <1>1, <1>3, TheCase, Appended
<1>7. Recorded(history')
  BY <1>1, <1>3, <1>5, TheCase, RecordedAppended
<1>8. DossierKept(history')
  BY <1>1, <1>3, TheCase, DossierKeptAppended DEF ReviewInv, HistoryInv
<1>9. HistoryInv'
  BY <1>1, <1>6, <1>7, <1>8 DEF HistoryInv
<1> QED BY <1>1, <1>3, <1>4, <1>5, <1>6, <1>9 DEF c

\* A case is stored before its decision only by a composition that does so.
LEMMA SaveCaseStep ==
  ASSUME ReviewInv, NEW s \in Sessions, SaveCase(s)
  PROVE  ReviewInv'
<1> DEFINE c == session[s].next
           d == session[s].decision
           x == [session[s] EXCEPT !.next = NoCase]
<1>1. /\ c # NoCase
      /\ d # NoDecision => CommitOrder = "CaseFirst"
      /\ StoreCase(c) /\ session' = [session EXCEPT ![s] = x]
      /\ UNCHANGED <<requests, decisions>>
  BY DEF SaveCase
<1>2. /\ c \in Case /\ c.revision = Len(history) + 1 /\ Follows(case, c)
      /\ case' = c /\ history' \in Seq(Case) /\ Extends(history, history')
      /\ Len(history') = Len(history) + 1 /\ history'[Len(history) + 1] = c
      /\ HistoryInv'
  BY <1>1, CaseStored
<1>3. /\ session[s] \in SessionState /\ NextOK(history, session[s])
      /\ PhaseOK(history, session[s])
  BY TheCase DEF ReviewInv, SessionInv
<1>4. /\ x \in SessionState /\ x.next = NoCase /\ x.decision = d
      /\ x.snapshot = session[s].snapshot
  BY <1>3 DEF SessionState
<1>5. session[s].snapshot = NoCase
  BY <1>1, <1>3 DEF PhaseOK, UndecidedOK, UnsignedOK
<1>6. PhaseOK(history', x) /\ JustifiedInv'
  <2>1. CASE d = NoDecision
    <3>1. PhaseOK(history', x)
      BY <1>4, <1>5, <2>1 DEF PhaseOK, UndecidedOK
    <3>2. CommitOrder # "DecisionFirst" => BringsNoAttestation(case, c)
      BY <1>1, <1>2, <1>3, <2>1, TheCase DEF PhaseOK, UndecidedOK
    <3>3. JustifiedInv'
      BY <1>1, <1>2, <3>2 DEF ReviewInv, JustifiedInv, BringsNoAttestation
    <3> QED BY <3>1, <3>3
  <2>2. CASE d # NoDecision
    <3>1. Sound(history, d) /\ Sound(history', d)
      BY <1>2, <1>3, <2>2, TheCase, StaysSound DEF PhaseOK
    <3>2. d.resulting # 0 /\ d.resulting = c.revision /\ AttestedBy(d, history[d.basis], c)
      BY <1>1, <1>3, <1>5, <2>2 DEF PhaseOK, PositionOK, SignedOK
    <3>3. d.basis \in 1..Len(history) /\ history'[d.basis] = history[d.basis]
      BY <1>2, <3>1 DEF Sound, Extends
    <3>4. Happened(history', d)
      BY <1>2, <3>2, <3>3, TheCase DEF Happened
    <3>5. PhaseOK(history', x)
      BY <1>1, <1>4, <1>5, <2>2, <3>1, <3>2, <3>4 DEF PhaseOK, SignedOK
    <3>6. JustifiedInv'
      BY <1>1, <2>2 DEF JustifiedInv
    <3> QED BY <3>5, <3>6
  <2> QED BY <2>1, <2>2
<1>7. NextOK(history', x)
  BY <1>4 DEF NextOK
<1> HIDE DEF c, d, x
<1>8. PICK y \in SessionState : y = x
  BY <1>4
<1>9. SessionInv' /\ session' \in [Sessions -> SessionState]
  BY <1>1, <1>2, <1>6, <1>7, <1>8, OneSessionStores
<1>10. TypeOK'
  BY <1>1, <1>2, <1>9 DEF ReviewInv, TypeOK, SessionState
<1>11. DecisionInv'
  BY <1>1, <1>2, TheCase, StaysStored DEF ReviewInv, DecisionInv
<1>12. LatestInv'
  BY <1>1 DEF ReviewInv, LatestInv
<1> QED BY <1>2, <1>6, <1>9, <1>10, <1>11, <1>12 DEF ReviewInv

\* In one transaction the attestation and its decision appear together.
LEMMA SaveBothStep ==
  ASSUME ReviewInv, NEW s \in Sessions, SaveBoth(s)
  PROVE  ReviewInv'
<1> DEFINE c == session[s].next
           d == session[s].decision
<1>1. /\ CommitOrder = "Atomic" /\ c # NoCase /\ d # NoDecision
      /\ StoreCase(c) /\ decisions' = decisions \cup {d}
      /\ session' = [session EXCEPT ![s] = Idle]
      /\ UNCHANGED requests
  BY DEF SaveBoth, StoreDecision
<1>2. /\ c \in Case /\ c.revision = Len(history) + 1 /\ Follows(case, c)
      /\ case' = c /\ history' \in Seq(Case) /\ Extends(history, history')
      /\ Len(history') = Len(history) + 1 /\ history'[Len(history) + 1] = c
      /\ HistoryInv'
  BY <1>1, CaseStored
<1>3. /\ session[s] \in SessionState /\ PhaseOK(history, session[s])
  BY TheCase DEF ReviewInv, SessionInv
<1>4. d \in Decision
  BY <1>1, <1>3 DEF SessionState
<1>5. Sound(history, d) /\ Sound(history', d)
  BY <1>1, <1>2, <1>3, TheCase, StaysSound DEF PhaseOK
<1>6. d.resulting # 0 /\ d.resulting = c.revision /\ AttestedBy(d, history[d.basis], c)
  BY <1>1, <1>3 DEF PhaseOK, PositionOK, SignedOK, UnsignedOK
<1>7. d.basis = Len(history) /\ history[d.basis] = case /\ history'[d.basis] = case
  BY <1>2, <1>5, <1>6, TheCase DEF Sound, Extends
<1>8. Happened(history', d)
  BY <1>2, <1>6, <1>7, TheCase DEF Happened
<1>9. Stored(history', d)
  BY <1>5, <1>6, <1>8 DEF Stored
<1>10. JustifiedInv'
  <2>1. PICK m \in c.materials : /\ Produced(d, d.requirement, m)
                                 /\ m.requirementIds = {d.requirement}
                                 /\ c.materials = case.materials \cup {m}
    BY <1>6, <1>7 DEF AttestedBy, AddsAttestation
  <2> HIDE DEF c, d
  <2> QED BY <1>1, <1>2, <2>1 DEF ReviewInv, JustifiedInv
<1> HIDE DEF c, d
<1>11. SessionInv' /\ session' \in [Sessions -> SessionState]
  BY <1>1, <1>2, IdleOK, OneSessionStores
<1>12. TypeOK'
  BY <1>1, <1>2, <1>4, <1>11 DEF ReviewInv, TypeOK, SessionState
<1>13. DecisionInv'
  BY <1>1, <1>2, <1>9, TheCase, StaysStored DEF ReviewInv, DecisionInv
<1>14. decisions \in SUBSET Decision
  BY DEF ReviewInv, TypeOK
<1>15. LatestInv'
  BY <1>1, <1>4, <1>14, LatestAdded DEF ReviewInv, LatestInv
<1> QED BY <1>2, <1>10, <1>11, <1>12, <1>13, <1>15 DEF ReviewInv

\* Every step of the composition layer keeps ReviewInv.
LEMMA ReviewStep == ReviewInv /\ [Next]_vars => ReviewInv'
<1> SUFFICES ASSUME ReviewInv, [Next]_vars
             PROVE  ReviewInv'
  OBVIOUS
<1>1. CASE \E id \in RequestIds, r \in Requirements : CreateRequest(id, r)
  BY <1>1, CreateRequestStep
<1>2. ASSUME NEW s \in Sessions, SessionStep(s)
      PROVE  ReviewInv'
  <2>1. CASE \E q \in requests, action \in Positions : Decide(s, q, action)
    BY <2>1, DecideStep
  <2>2. CASE \E q \in requests, id \in MaterialIds, ref \in Refs :
               AwaitSignature(s, q, id, ref)
    BY <2>2, AwaitSignatureStep
  <2>3. CASE \E now \in Times : Signed(s, now) \/ Change(s, now)
    BY <2>3, SignedStep, ChangeStep
  <2>4. CASE SaveCase(s)
    BY <2>4, SaveCaseStep
  <2>5. CASE SaveDecision(s)
    BY <2>5, SaveDecisionStep
  <2>6. CASE SaveBoth(s)
    BY <2>6, SaveBothStep
  <2>7. CASE Abandon(s)
    BY <2>7, AbandonStep
  <2> QED BY <1>2, <2>1, <2>2, <2>3, <2>4, <2>5, <2>6, <2>7 DEF SessionStep
<1>3. CASE UNCHANGED vars
  BY <1>3 DEF vars, ReviewInv, TypeOK, HistoryInv, SessionInv, DecisionInv,
              LatestInv, JustifiedInv
<1> QED BY <1>1, <1>2, <1>3 DEF Next

\* In every reachable state, under every order of the two stores.
LEMMA ReviewInvariant == Spec => []ReviewInv
BY ReviewInit, ReviewStep, PTL DEF Spec

-----------------------------------------------------------------------------
(* Cases stay finite *)

\* Every stored or prepared case has finitely many materials, so the distinct
\* references readiness counts are a number.
FiniteInv ==
  /\ \A n \in 1..Len(history) : IsFiniteSet(history[n].materials)
  /\ \A s \in Sessions : session[s].next # NoCase => IsFiniteSet(session[s].next.materials)

\* No operation of the aggregate brings in more than one material.
LEMMA OperationsFinite ==
  ASSUME NEW c \in Case, IsFiniteSet(c.materials), NEW m, NEW rs, NEW now
  PROVE  /\ IsFiniteSet(ActivatedCase(c, now).materials)
         /\ IsFiniteSet(CancelledCase(c, now).materials)
         /\ IsFiniteSet(WithMaterial(c, m).materials)
         /\ IsFiniteSet(WithAssociation(c, m, rs, now).materials)
<1> DEFINE n == [m EXCEPT !.requirementIds = @ \cup rs]
<1>1. /\ IsFiniteSet(ActivatedCase(c, now).materials)
      /\ IsFiniteSet(CancelledCase(c, now).materials)
  BY ActivatedFields, CancelledFields
<1>2. WithMaterial(c, m).materials = c.materials \cup {m}
      /\ WithAssociation(c, m, rs, now).materials = (c.materials \ {m}) \cup {n}
  BY WithMaterialFields, WithAssociationFields
<1> HIDE DEF n
<1>3. IsFiniteSet(c.materials \cup {m})
  BY FS_AddElement
<1>4. IsFiniteSet((c.materials \ {m}) \cup {n})
  BY FS_RemoveElement, FS_AddElement
<1> QED BY <1>1, <1>2, <1>3, <1>4

\* One declaration to start with.
LEMMA FiniteStarts == Init => FiniteInv
<1> SUFFICES ASSUME Init PROVE FiniteInv
  OBVIOUS
<1>1. PICK t \in Tenants, id \in CaseIds, p \in Profiles :
        \E declared \in DeclaredCases(CreatedCase(t, id, p, 1)) :
          history = <<CreatedCase(t, id, p, 1), declared>>
  BY DEF Init
<1> DEFINE created == CreatedCase(t, id, p, 1)
<1>2. 1 \in Times
  BY AggregateAssumption DEF Times
<1>3. created \in Case /\ created.materials = {}
  BY <1>2, CreatedCaseType DEF CreatedCase
<1> HIDE DEF created
<1>4. PICK m \in Material : history = <<created, WithMaterial(created, m)>>
  BY <1>1 DEF DeclaredCases, created
<1>5. IsFiniteSet(created.materials)
  BY <1>3, FS_EmptySet
<1>6. IsFiniteSet(WithMaterial(created, m).materials)
  BY <1>3, <1>5, OperationsFinite
<1>7. \A s \in Sessions : session[s].next = NoCase
  BY DEF Init, Idle
<1> QED BY <1>4, <1>5, <1>6, <1>7 DEF FiniteInv

\* A session prepares a finite case from a stored one.
LEMMA PreparesFinite ==
  ASSUME ReviewInv, FiniteInv, NEW s \in Sessions, SessionStep(s),
         session'[s].next # NoCase
  PROVE  IsFiniteSet(session'[s].next.materials)
<1>1. case \in Case /\ IsFiniteSet(case.materials) /\ session[s] \in SessionState
      /\ session \in [Sessions -> SessionState]
      /\ (session[s].next # NoCase => IsFiniteSet(session[s].next.materials))
  BY TheCase DEF FiniteInv
<1>2. ASSUME NEW now \in Times, Signed(s, now)
      PROVE  IsFiniteSet(session'[s].next.materials)
  <2> DEFINE d == session[s].decision
             c == session[s].snapshot
             m == [materialId |-> d.materialId, kind |-> "Attestation", ref |-> d.ref,
                   requirementIds |-> {d.requirement}, addedAt |-> now]
  <2>1. c # NoCase /\ session'[s].next = WithMaterial(c, m)
    BY <1>1, <1>2 DEF Signed
  <2>2. PhaseOK(history, session[s])
    BY DEF ReviewInv, SessionInv
  <2>3. d # NoDecision /\ Sound(history, d) /\ UnsignedOK(history, session[s])
    BY <2>1, <2>2 DEF PhaseOK, UndecidedOK
  <2>4. c = history[d.basis] /\ d.basis \in 1..Len(history)
    BY <2>3 DEF UnsignedOK, Sound
  <2>5. c \in Case /\ IsFiniteSet(c.materials)
    BY <2>4, TheCase DEF FiniteInv
  <2> HIDE DEF c, m
  <2> QED BY <2>1, <2>5, OperationsFinite
<1>3. ASSUME NEW now \in Times, Change(s, now)
      PROVE  IsFiniteSet(session'[s].next.materials)
  <2>1. ASSUME NEW c, Prepare(s, c) PROVE session'[s].next = c
    BY <1>1, <2>1 DEF Prepare, SessionState
  <2>2. \/ Prepare(s, ActivatedCase(case, now))
        \/ Prepare(s, CancelledCase(case, now))
        \/ \E m \in Material : Prepare(s, WithMaterial(case, m))
        \/ \E m \in case.materials, rs \in SUBSET ChangeTargets :
             Prepare(s, WithAssociation(case, m, rs, now))
    BY <1>3 DEF Change
  <2> QED BY <1>1, <2>1, <2>2, OperationsFinite
<1>4. CASE \/ \E q \in requests, action \in Positions : Decide(s, q, action)
           \/ SaveDecision(s)
  <2>1. session'[s].next = session[s].next
    BY <1>1, <1>4 DEF Decide, SaveDecision, SessionState
  <2> QED BY <1>1, <2>1
<1>5. CASE \/ \E q \in requests, id \in MaterialIds, ref \in Refs : AwaitSignature(s, q, id, ref)
           \/ SaveCase(s) \/ SaveBoth(s) \/ Abandon(s)
  <2>1. session'[s].next = NoCase
    BY <1>1, <1>5 DEF AwaitSignature, SaveCase, SaveBoth, Abandon, Idle, SessionState
  <2> QED BY <2>1
<1> QED BY <1>2, <1>3, <1>4, <1>5 DEF SessionStep

\* What is stored was prepared.
LEMMA FiniteStep == ReviewInv /\ FiniteInv /\ [Next]_vars => FiniteInv'
<1> SUFFICES ASSUME ReviewInv, FiniteInv, [Next]_vars PROVE FiniteInv'
  OBVIOUS
<1>1. \A n \in 1..Len(history') : IsFiniteSet((history'[n]).materials)
  <2>1. ASSUME NEW s \in Sessions, SaveCase(s) \/ SaveBoth(s), NEW n \in 1..Len(history')
        PROVE  IsFiniteSet((history'[n]).materials)
    <3>1. session[s].next # NoCase /\ StoreCase(session[s].next)
      BY <2>1 DEF SaveCase, SaveBoth
    <3>2. /\ Len(history') = Len(history) + 1 /\ Extends(history, history')
          /\ history'[Len(history) + 1] = session[s].next
      BY <3>1, CaseStored
    <3>3. n \in 1..Len(history) \/ n = Len(history) + 1
      BY <3>2, TheCase
    <3> QED BY <3>1, <3>2, <3>3 DEF Extends, FiniteInv
  <2>2. ASSUME ~\E s \in Sessions : SaveCase(s) \/ SaveBoth(s)
        PROVE  history' = history
    <3>1. ASSUME NEW s \in Sessions, SessionStep(s) PROVE history' = history
      <4>1. ~SaveCase(s) /\ ~SaveBoth(s)
        BY <2>2
      <4> QED BY <3>1, <4>1 DEF SessionStep, Decide, AwaitSignature, Signed, Change,
                                Prepare, SaveDecision, Abandon
    <3> QED BY <3>1 DEF Next, CreateRequest, vars
  <2> QED BY <2>1, <2>2 DEF FiniteInv
<1>2. ASSUME NEW s \in Sessions, (session'[s]).next # NoCase
      PROVE  IsFiniteSet((session'[s]).next.materials)
  <2>1. CASE session'[s] = session[s]
    BY <1>2, <2>1 DEF FiniteInv
  <2>2. CASE session'[s] # session[s]
    <3>1. ~ UNCHANGED session
      BY <2>2
    <3>2. PICK t \in Sessions : SessionStep(t)
      BY <3>1 DEF Next, CreateRequest, vars
    <3>3. session \in [Sessions -> SessionState]
      BY TheCase
    <3>4. t = s
      <4> SUFFICES ASSUME t # s PROVE FALSE
        OBVIOUS
      <4>1. session'[s] = session[s]
        BY <3>2, <3>3 DEF SessionStep, Decide, AwaitSignature, Signed, Change, Prepare,
                          SaveCase, SaveDecision, SaveBoth, Abandon
      <4> QED BY <2>2, <4>1
    <3> QED BY <1>2, <3>2, <3>4, PreparesFinite
  <2> QED BY <2>1, <2>2
<1> QED BY <1>1, <1>2 DEF FiniteInv

\* In every reachable state.
LEMMA FiniteInvariant == Spec => [](ReviewInv /\ FiniteInv)
<1>1. Init => ReviewInv /\ FiniteInv
  BY ReviewInit, FiniteStarts
<1>2. ReviewInv /\ FiniteInv /\ [Next]_vars => (ReviewInv /\ FiniteInv)'
  BY ReviewStep, FiniteStep
<1> QED BY <1>1, <1>2, PTL DEF Spec

-----------------------------------------------------------------------------
(* What a current attestation means *)

\* A dossier with one more attestation.
Answered(dossier, m) == [dossier EXCEPT !.materials = @ \cup {m}]

\* An attestation adds itself to the dossier of its own requirement, and
\* leaves the dossier of every other requirement alone.
LEMMA AttestationDossier ==
  ASSUME NEW c, NEW next, NEW m, NEW q, AddsAttestation(c, next, m, q), NEW r
  PROVE  /\ r = q => DossierFor(next, r) = Answered(DossierFor(c, r), m)
         /\ r # q => DossierFor(next, r) = DossierFor(c, r)
<1> DEFINE Seen(x) == {k \in x.materials : k.kind # "Attestation" \/ r \in k.requirementIds}
<1>1. \A x : DossierFor(x, r) = [state |-> x.state, materials |-> Seen(x)]
  BY DEF DossierFor
<1>2. CASE r = q
  <2>1. Seen(next) = Seen(c) \cup {m}
    BY <1>2 DEF AddsAttestation
  <2> HIDE DEF Seen
  <2> QED BY <1>1, <1>2, <2>1 DEF Answered, AddsAttestation
<1>3. CASE r # q
  <2>1. Seen(next) = Seen(c)
    BY <1>3 DEF AddsAttestation
  <2> HIDE DEF Seen
  <2> QED BY <1>1, <1>3, <2>1 DEF AddsAttestation
<1> QED BY <1>2, <1>3

\* The attestation m of r entered the case with the revision that d claims.
EnteredBy(h, d, r, m) ==
  /\ d.basis \in 1..Len(h)
  /\ d.resulting = d.basis + 1
  /\ d.resulting # 0
  /\ \E a \in h[d.resulting].materials :
       /\ a.materialId = m.materialId
       /\ a.materialId \notin MaterialIdsOf(h[d.basis])
       /\ AddsAttestation(h[d.basis], h[d.resulting], a, r)

\* Records collected of this case: some of the decisions stored about it.
\* The decision that produced an attestation of some revision of it happened
\* by then: at its basis the attestation was not there yet.
LEMMA ProducedBy ==
  ASSUME ReviewInv, CommitOrder # "DecisionFirst",
         NEW n \in 1..Len(history), NEW inp, inp.decisions \subseteq decisions,
         NEW r, NEW m \in MaterialsFor(history[n], r, "Attestation"),
         NEW d \in ProducingDecisions(history[n], inp, r, m)
  PROVE  /\ d \in decisions /\ Produced(d, r, m)
         /\ d.resulting \in 1..n /\ EnteredBy(history, d, r, m)
<1>1. /\ Len(history) \in Nat /\ \A k \in 1..Len(history) :
           history[k] \in Case /\ history[k].revision = k
  BY TheCase DEF Recorded
<1>2. /\ d \in decisions /\ Produced(d, r, m) /\ m \in history[n].materials
  BY DEF ProducingDecisions, Decisions, MaterialsFor
<1>3. Stored(history, d)
  BY <1>2 DEF ReviewInv, DecisionInv
<1>4. m.materialId \in MaterialIds
  BY <1>1, <1>2 DEF Case, Material
<1>5. d.materialId = m.materialId /\ d.requirement = r
  BY <1>2 DEF Produced
<1>6. d.resulting # 0
  BY <1>3, <1>4, <1>5, ReadinessAssumption DEF Stored
<1>7. /\ d.basis \in 1..Len(history) /\ d.resulting = d.basis + 1
      /\ d.resulting \in 1..Len(history)
      /\ AttestedBy(d, history[d.basis], history[d.resulting])
  BY <1>3, <1>6 DEF Stored, Sound, Happened
<1>8. PICK a \in history[d.resulting].materials :
        /\ Produced(d, d.requirement, a)
        /\ a.materialId \notin MaterialIdsOf(history[d.basis])
        /\ AddsAttestation(history[d.basis], history[d.resulting], a, r)
  BY <1>5, <1>7 DEF AttestedBy
<1>9. a.materialId = m.materialId
  BY <1>5, <1>8 DEF Produced
<1>10. d.resulting \in 1..n
  <2>1. d.basis <= n
    BY <1>1 DEF ProducingDecisions, Decisions
  <2>2. d.basis # n
    BY <1>2, <1>8, <1>9 DEF MaterialIdsOf
  <2> QED BY <1>1, <1>7, <2>1, <2>2
<1> QED BY <1>2, <1>6, <1>7, <1>8, <1>9, <1>10 DEF EnteredBy

\* For any revision of the case and any such records, an attestation readiness
\* counts as current was given on the dossier that revision still has.
LEMMA SeenDossier ==
  ASSUME ReviewInv, CommitOrder # "DecisionFirst",
         NEW n \in 1..Len(history), NEW inp, inp.decisions \subseteq decisions,
         NEW r \in Requirements, NEW m \in MaterialsFor(history[n], r, "Attestation"),
         NEW d \in ProducingDecisions(history[n], inp, r, m),
         CoversCurrentRevision(history[n], inp, r, CoveredThrough(d))
  PROVE  /\ d \in decisions /\ Produced(d, r, m) /\ d.basis \in 1..Len(history)
         /\ DossierFor(history[n], r) = Answered(DossierFor(history[d.basis], r), m)
<1>1. /\ Len(history) \in Nat /\ \A k \in 1..Len(history) :
           history[k] \in Case /\ history[k].revision = k /\ WellFormed(history[k])
  BY TheCase DEF Recorded
<1>2. m \in history[n].materials /\ r \in m.requirementIds
  BY DEF MaterialsFor
<1>3. \A e \in decisions : Stored(history, e)
  BY DEF ReviewInv, DecisionInv
<1>4. /\ d \in decisions /\ Produced(d, r, m)
      /\ d.resulting \in 1..n /\ EnteredBy(history, d, r, m)
  BY ProducedBy
<1>5. d.basis \in 1..Len(history) /\ d.resulting # 0
  BY <1>4 DEF EnteredBy
<1>6. PICK a \in history[d.resulting].materials :
        /\ a.materialId = m.materialId
        /\ AddsAttestation(history[d.basis], history[d.resulting], a, r)
  BY <1>4 DEF EnteredBy
<1>7. DossierFor(history[d.resulting], r) = Answered(DossierFor(history[d.basis], r), a)
  BY <1>6, AttestationDossier
<1>8. KeptThrough(history, r, d.resulting, n)
  <2> SUFFICES ASSUME NEW k \in (d.resulting + 1)..n
               PROVE  DossierFor(history[k], r) = DossierFor(history[k - 1], r)
    BY DEF KeptThrough
  <2>1. k \in (CoveredThrough(d) + 1)..history[n].revision
    BY <1>1, <1>4, <1>5 DEF CoveredThrough
  <2>2. PICK e \in decisions :
          e.action = Attest /\ e.requirement # r /\ e.resulting = k
    BY <2>1 DEF CoversCurrentRevision, Decisions
  <2>3. e.resulting # 0
    BY <1>1, <1>4, <2>2
  <2>4. k = e.basis + 1 /\ e.basis \in 1..Len(history)
        /\ AttestedBy(e, history[e.basis], history[k])
    BY <1>3, <2>2, <2>3 DEF Stored, Sound, Happened
  <2>5. e.basis = k - 1
    BY <1>1, <2>4
  <2>6. PICK b \in history[k].materials :
          AddsAttestation(history[k - 1], history[k], b, e.requirement)
    BY <2>4, <2>5 DEF AttestedBy
  <2> QED BY <2>2, <2>6, AttestationDossier
<1>9. DossierFor(history[n], r) = DossierFor(history[d.resulting], r)
  BY <1>4, <1>8 DEF ReviewInv, HistoryInv, DossierKept
\* The attestation evaluated is the one the decision produced.
<1>10. a = m
  <2>1. a \in DossierFor(history[d.resulting], r).materials
    BY <1>6 DEF DossierFor, AddsAttestation
  <2>2. a \in history[n].materials
    BY <1>9, <2>1 DEF DossierFor
  <2> QED BY <1>1, <1>2, <1>6, <2>2 DEF WellFormed, MaterialIdsUnique
<1> QED BY <1>4, <1>5, <1>7, <1>9, <1>10

\* Two attestations stored as the same revision are one.
LEMMA OneAttestationPerRevision ==
  ASSUME NEW c, NEW next, NEW a, NEW b, NEW q, NEW r,
         AddsAttestation(c, next, a, q), a.materialId \notin MaterialIdsOf(c),
         AddsAttestation(c, next, b, r), b.materialId \notin MaterialIdsOf(c)
  PROVE  a = b /\ q = r
<1>1. b \in c.materials \cup {a} /\ b \notin c.materials
  BY DEF AddsAttestation, MaterialIdsOf
<1>2. a = b
  BY <1>1
<1> QED BY <1>2 DEF AddsAttestation

\* For any revision of the case and any records of it, the later of two
\* attestations of one requirement stales the earlier: the revision it was
\* stored as is not another requirement's attestation.
LEMMA OneCurrentAttestation ==
  ASSUME ReviewInv, CommitOrder # "DecisionFirst",
         NEW n \in 1..Len(history), NEW inp, inp.decisions \subseteq decisions, NEW r,
         NEW m \in CurrentAttestations(history[n], inp, r),
         NEW k \in CurrentAttestations(history[n], inp, r)
  PROVE  m = k
<1>1. /\ Len(history) \in Nat /\ history[n] \in Case /\ history[n].revision = n
      /\ WellFormed(history[n])
  BY TheCase DEF Recorded
<1>2. /\ m \in MaterialsFor(history[n], r, "Attestation")
      /\ k \in MaterialsFor(history[n], r, "Attestation")
      /\ m \in history[n].materials /\ k \in history[n].materials
  BY DEF CurrentAttestations, MaterialsFor
<1>3. \A e \in decisions : Stored(history, e)
  BY DEF ReviewInv, DecisionInv
\* A decision that still covers the revision has no later attestation of r.
<1>4. ASSUME NEW a \in MaterialsFor(history[n], r, "Attestation"),
             NEW d \in ProducingDecisions(history[n], inp, r, a),
             CoversCurrentRevision(history[n], inp, r, CoveredThrough(d)),
             NEW b \in MaterialsFor(history[n], r, "Attestation"),
             NEW f \in ProducingDecisions(history[n], inp, r, b)
      PROVE  f.resulting <= d.resulting
  <2>1. d.resulting \in 1..n /\ CoveredThrough(d) = d.resulting
    <3>1. d.resulting \in 1..n /\ EnteredBy(history, d, r, a)
      BY ProducedBy
    <3> QED BY <3>1 DEF CoveredThrough, EnteredBy
  <2>2. f.resulting \in 1..n /\ EnteredBy(history, f, r, b)
    BY ProducedBy
  <2> SUFFICES ASSUME ~(f.resulting <= d.resulting) PROVE FALSE
    OBVIOUS
  <2>3. f.resulting \in (CoveredThrough(d) + 1)..history[n].revision
    BY <1>1, <2>1, <2>2
  <2>4. PICK e \in decisions :
          e.action = Attest /\ e.requirement # r /\ e.resulting = f.resulting
    <3>1. PICK e \in Decisions(history[n], inp) :
            e.action = Attest /\ e.requirement # r /\ e.resulting = f.resulting
      BY <1>4, <2>3 DEF CoversCurrentRevision
    <3> QED BY <3>1 DEF Decisions
  <2>5. e.resulting # 0
    BY <2>2, <2>4 DEF EnteredBy
  <2>6. /\ e.basis \in 1..Len(history) /\ e.resulting = e.basis + 1
        /\ AttestedBy(e, history[e.basis], history[f.resulting])
    BY <1>3, <2>4, <2>5 DEF Stored, Sound, Happened
  <2>7. e.basis = f.basis
    BY <1>1, <2>2, <2>4, <2>6 DEF EnteredBy
  <2>8. PICK z \in history[f.resulting].materials :
          /\ z.materialId \notin MaterialIdsOf(history[f.basis])
          /\ AddsAttestation(history[f.basis], history[f.resulting], z, e.requirement)
    BY <2>6, <2>7 DEF AttestedBy
  <2> QED BY <2>2, <2>4, <2>8, OneAttestationPerRevision DEF EnteredBy
<1>5. PICK d \in ProducingDecisions(history[n], inp, r, m) :
        CoversCurrentRevision(history[n], inp, r, CoveredThrough(d))
  BY DEF CurrentAttestations
<1>6. PICK f \in ProducingDecisions(history[n], inp, r, k) :
        CoversCurrentRevision(history[n], inp, r, CoveredThrough(f))
  BY DEF CurrentAttestations
<1>7. d.resulting \in 1..n /\ EnteredBy(history, d, r, m)
  BY <1>2, ProducedBy
<1>8. f.resulting \in 1..n /\ EnteredBy(history, f, r, k)
  BY <1>2, ProducedBy
<1>9. f.resulting <= d.resulting /\ d.resulting <= f.resulting
  BY <1>2, <1>4, <1>5, <1>6
<1>10. f.resulting = d.resulting /\ f.basis = d.basis
  BY <1>7, <1>8, <1>9 DEF EnteredBy
<1>11. m.materialId = k.materialId
  BY <1>7, <1>8, <1>10, OneAttestationPerRevision DEF EnteredBy
<1> QED BY <1>1, <1>2, <1>11 DEF WellFormed, MaterialIdsUnique

-----------------------------------------------------------------------------
(* What readiness reads *)

\* The reasons some row of READINESS_STATE_PRECEDENCE names.
PrecedenceReasons == UNION {Precedence[i].reasons : i \in DOMAIN Precedence}

\* A case derived Ready has none of the reasons that name another state.
LEMMA ReadyHasNoReason ==
  ASSUME NEW c, NEW inp, ReadinessState(c, inp) = Ready
  PROVE  PrecedenceReasons \cap Blockers(c, inp) = {}
<1> DEFINE rows == {i \in DOMAIN Precedence :
                      Precedence[i].reasons \cap Blockers(c, inp) # {}}
           first == CHOOSE i \in rows : \A j \in rows : i <= j
<1>1. DOMAIN Precedence = 1..7 /\ \A i \in 1..7 : Precedence[i].state # Ready
  BY DEF Precedence, Ready
<1>2. rows = {}
  <2> SUFFICES ASSUME rows # {} PROVE FALSE
    OBVIOUS
  <2>1. rows \subseteq 1..7
    BY <1>1
  <2>2. \E i \in rows : \A j \in rows : i <= j
    <3> HIDE DEF rows
    <3>1. \A i \in rows : i \in 1..7
      BY <2>1
    <3>2. 1 \in rows \/ 2 \in rows \/ 3 \in rows \/ 4 \in rows \/ 5 \in rows
          \/ 6 \in rows \/ 7 \in rows
      BY <3>1
    <3> QED BY <3>1, <3>2
  <2>3. first \in rows
    BY <2>2
  <2>4. ReadinessState(c, inp) = Precedence[first].state
    BY DEF ReadinessState
  <2> QED BY <1>1, <2>1, <2>3, <2>4
<1>3. \A i \in DOMAIN Precedence : Precedence[i].reasons \cap Blockers(c, inp) = {}
  BY <1>2
<1> QED BY <1>3 DEF PrecedenceReasons

\* The reasons review gives are among them.
LEMMA ReviewReasons ==
  {"review.rejected", "review.conflicting", "review.more-evidence-required",
   "review.pending", "attestation.missing", "attestation.decision.missing",
   "attestation.currency.unresolved"} \subseteq PrecedenceReasons
<1>1. DOMAIN Precedence = 1..7
  BY DEF Precedence
<1>2. /\ Precedence[2].reasons = {"review.rejected"}
      /\ Precedence[3].reasons = {"review.conflicting"}
      /\ Precedence[4].reasons = {"review.more-evidence-required"}
      /\ Precedence[7].reasons =
           {"verification.manual-review", "attestation.missing",
            "attestation.decision.missing", "attestation.currency.unresolved",
            "review.pending"}
  BY DEF Precedence
<1> HIDE DEF Precedence
<1>3. \A i \in 1..7 : \A x \in Precedence[i].reasons : x \in PrecedenceReasons
  BY <1>1 DEF PrecedenceReasons
<1>4. 2 \in 1..7 /\ 3 \in 1..7 /\ 4 \in 1..7 /\ 7 \in 1..7
  OBVIOUS
<1> QED BY <1>2, <1>3, <1>4

\* A required attestation of a Ready case has no reason against it.
LEMMA ReadyAttestation ==
  ASSUME NEW c, NEW inp, ReadinessState(c, inp) = Ready,
         NEW r \in ProfileRequirements[c.profile],
         RequirementKind[r] = "Attestation", Obligation[r] = "Required"
  PROVE  /\ "review.rejected" \notin AttestationBlockers(c, inp, r)
         /\ "review.conflicting" \notin AttestationBlockers(c, inp, r)
         /\ "review.more-evidence-required" \notin AttestationBlockers(c, inp, r)
         /\ "review.pending" \notin AttestationBlockers(c, inp, r)
         /\ "attestation.missing" \notin AttestationBlockers(c, inp, r)
         /\ "attestation.decision.missing" \notin AttestationBlockers(c, inp, r)
         /\ "attestation.currency.unresolved" \notin AttestationBlockers(c, inp, r)
<1>1. RequirementBlockers(c, inp, r) = AttestationBlockers(c, inp, r)
  BY DEF RequirementBlockers, FindingsOf
<1>2. RequirementBlockers(c, inp, r) \subseteq Blockers(c, inp)
  BY DEF Blockers
<1> QED BY <1>1, <1>2, ReadyHasNoReason, ReviewReasons

\* A required attestation of a Ready case has as many current attestations,
\* on distinct references, as the profile demands.
LEMMA ReadyEnough ==
  ASSUME NEW c, NEW inp, ReadinessState(c, inp) = Ready,
         NEW r \in ProfileRequirements[c.profile],
         RequirementKind[r] = "Attestation", Obligation[r] = "Required"
  PROVE  Cardinality(DistinctRefs(CurrentAttestations(c, inp, r))) >= MinimumCount[r]
<1> DEFINE materials == MaterialsFor(c, r, "Attestation")
           unfounded == {m \in materials : ProducingDecisions(c, inp, r, m) = {}}
           current == CurrentAttestations(c, inp, r)
<1> SUFFICES ASSUME ~(Cardinality(DistinctRefs(current)) >= MinimumCount[r])
             PROVE  FALSE
  OBVIOUS
<1>1. CASE materials = {} \/ current # {}
  <2>1. "attestation.missing" \in AttestationBlockers(c, inp, r)
    BY <1>1 DEF AttestationBlockers, When
  <2> QED BY <2>1, ReadyAttestation
<1>2. CASE unfounded # {}
  <2>1. "attestation.decision.missing" \in AttestationBlockers(c, inp, r)
    BY <1>2 DEF AttestationBlockers, When
  <2> QED BY <2>1, ReadyAttestation
<1>3. CASE materials # {} /\ current = {} /\ unfounded = {}
  <2>1. (materials \ unfounded) \ current # {}
    BY <1>3
  <2>2. "attestation.currency.unresolved" \in AttestationBlockers(c, inp, r)
    BY <2>1 DEF AttestationBlockers, When
  <2> QED BY <2>2, ReadyAttestation
<1> QED BY <1>1, <1>2, <1>3

\* (one at least, as no minimum is zero)
LEMMA ReadyHasAttestation ==
  ASSUME NEW c \in Case, NEW inp, ReadinessState(c, inp) = Ready,
         NEW r \in ProfileRequirements[c.profile],
         RequirementKind[r] = "Attestation", Obligation[r] = "Required"
  PROVE  CurrentAttestations(c, inp, r) # {}
<1> SUFFICES ASSUME CurrentAttestations(c, inp, r) = {} PROVE FALSE
  OBVIOUS
<1>1. Cardinality(DistinctRefs({})) = 0
  <2>1. DistinctRefs({}) = {}
    BY DEF DistinctRefs
  <2> QED BY <2>1, FS_EmptySet
<1>2. MinimumCount[r] \in Nat \ {0}
  BY AggregateAssumption, ReadinessAssumption DEF Case
<1>3. 0 >= MinimumCount[r]
  BY <1>1, ReadyEnough
<1> QED BY <1>2, <1>3

\* At any revision and on any records, a required attestation requirement of a
\* Ready case demands a single attestation.
LEMMA ReadyDemandsOne ==
  ASSUME ReviewInv, CommitOrder # "DecisionFirst",
         NEW n \in 1..Len(history), NEW inp, inp.decisions \subseteq decisions,
         ReadinessState(history[n], inp) = Ready,
         NEW r \in ProfileRequirements[case.profile],
         RequirementKind[r] = "Attestation", Obligation[r] = "Required"
  PROVE  MinimumCount[r] = 1
<1> DEFINE c == history[n]
           current == CurrentAttestations(c, inp, r)
<1>1. c \in Case /\ c.profile = case.profile
  BY TheCase DEF Recorded
<1>2. MinimumCount[r] \in Nat \ {0}
  BY <1>1, AggregateAssumption, ReadinessAssumption DEF Case
<1>3. PICK m \in current : TRUE
  BY <1>1, ReadyHasAttestation
<1>4. \A k \in current : k = m
  BY <1>3, OneCurrentAttestation
<1> HIDE DEF current
<1>5. current = {m}
  BY <1>3, <1>4
<1>6. DistinctRefs(current) = {m.ref}
  BY <1>5 DEF DistinctRefs
<1>7. Cardinality(DistinctRefs(current)) = 1
  BY <1>6, FS_Singleton
<1>8. Cardinality(DistinctRefs(current)) >= MinimumCount[r]
  BY <1>1, ReadyEnough DEF current
<1> QED BY <1>2, <1>7, <1>8

-----------------------------------------------------------------------------
(* Theorems *)

\* The requirements professionals answer are the ones decisions are about.
LEMMA AskedRequirement ==
  ASSUME ReviewInv, NEW r
  PROVE  r \in AttestationRequirements <=>
           /\ r \in ProfileRequirements[history[1].profile]
           /\ RequirementKind[r] = "Attestation"
BY TheCase DEF AttestationRequirements

\* (and requirements of the catalogue)
LEMMA AskedIsRequirement ==
  ASSUME ReviewInv, NEW r \in AttestationRequirements
  PROVE  r \in Requirements
<1>1. case.profile \in Profiles
  BY TheCase DEF Case
<1> QED BY <1>1, AggregateAssumption DEF AttestationRequirements

\* Whatever the order of the two stores and whoever races, both repositories
\* and every session hold records of the shapes the package gives them: a
\* snapshot is signed into a case, a decision is stored whole.
THEOREM ReviewTypeCorrect == Spec => []TypeOK
<1>1. ReviewInv => TypeOK
  BY DEF ReviewInv
<1> QED BY <1>1, ReviewInvariant, PTL

\* Unless a composition stores decisions before cases, a stored decision that
\* names an artifact names one the case really took, at the revision after
\* the one reviewed and as the only difference between the two.
THEOREM DecidedArtifactsExist ==
  ASSUME CommitOrder # "DecisionFirst"
  PROVE  Spec => []DecisionsHappened
<1>1. ReviewInv => DecisionsHappened
  <2> SUFFICES ASSUME ReviewInv, NEW d \in decisions, d.resulting # 0
               PROVE  /\ d.resulting = d.basis + 1
                      /\ d.resulting \in DOMAIN history
                      /\ \E m \in history[d.resulting].materials :
                           /\ Produced(d, d.requirement, m)
                           /\ history[d.resulting].materials
                                = history[d.basis].materials \cup {m}
    BY DEF DecisionsHappened
  <2>1. Sound(history, d) /\ Happened(history, d)
    BY DEF ReviewInv, DecisionInv, Stored
  <2>2. DOMAIN history = 1..Len(history)
    BY TheCase
  <2> QED BY <2>1, <2>2 DEF Sound, Happened, AttestedBy, AddsAttestation
<1> QED BY <1>1, ReviewInvariant, PTL

\* Unless decisions are stored before cases, an attestation that readiness
\* counts as current was given on the dossier the case still has, whatever
\* other professionals and writers stored in between.
THEOREM CurrentMeansSeen ==
  ASSUME CommitOrder # "DecisionFirst"
  PROVE  Spec => []CurrentAttestationSawDossier
<1>1. ReviewInv => CurrentAttestationSawDossier
  <2> SUFFICES ASSUME ReviewInv, NEW r \in AttestationRequirements,
                      NEW m \in CurrentAttestations(case, Records, r)
               PROVE  \E d \in ProducingDecisions(case, Records, r, m) :
                        LET seen == DossierFor(history[d.basis], r) IN
                        DossierFor(case, r) = [seen EXCEPT !.materials = @ \cup {m}]
    BY DEF CurrentAttestationSawDossier
  <2>1. PICK d \in ProducingDecisions(case, Records, r, m) :
          CoversCurrentRevision(case, Records, r, CoveredThrough(d))
    BY DEF CurrentAttestations
  <2>2. /\ Len(history) \in 1..Len(history) /\ case = history[Len(history)]
        /\ r \in Requirements /\ m \in MaterialsFor(case, r, "Attestation")
    BY TheCase, AskedIsRequirement DEF CurrentAttestations
  <2>3. Records.decisions \subseteq decisions
    BY DEF Records
  <2>4. DossierFor(case, r) = Answered(DossierFor(history[d.basis], r), m)
    BY <2>1, <2>2, <2>3, SeenDossier
  <2> QED BY <2>4 DEF Answered
<1> QED BY <1>1, ReviewInvariant, PTL

\* Written in one transaction, and as long as no other writer stores or
\* associates attestations, no attestation is left without its decision.
THEOREM AttestationsStayJustified ==
  ASSUME CommitOrder = "Atomic", "Attestation" \notin ChangeKinds
  PROVE  Spec => []AttestationsDecided
<1>1. ReviewInv => AttestationsDecided
  <2> SUFFICES ASSUME ReviewInv, NEW r \in AttestationRequirements,
                      NEW m \in MaterialsFor(case, r, "Attestation")
               PROVE  ProducingDecisions(case, Records, r, m) # {}
    BY DEF AttestationsDecided
  <2>1. PICK d \in decisions : Produced(d, r, m)
    BY DEF MaterialsFor, ReviewInv, JustifiedInv
  <2>2. d.basis <= case.revision
    BY TheCase DEF ReviewInv, DecisionInv, Stored, Sound
  <2> QED BY <2>1, <2>2 DEF ProducingDecisions, Decisions, Records
<1> QED BY <1>1, ReviewInvariant, PTL

\* The attestations of one requirement that readiness counts as current.
AtMostOneCurrent ==
  \A r \in AttestationRequirements :
    \A m, k \in CurrentAttestations(case, Records, r) : m = k

\* Unless decisions are stored before cases, readiness never counts two
\* attestations of one requirement: each new one stales the one before it,
\* since only another requirement's attestation is let pass.
THEOREM LaterStalesEarlier ==
  ASSUME CommitOrder # "DecisionFirst"
  PROVE  Spec => []AtMostOneCurrent
<1>1. ReviewInv => AtMostOneCurrent
  <2> SUFFICES ASSUME ReviewInv, NEW r \in AttestationRequirements,
                      NEW m \in CurrentAttestations(case, Records, r),
                      NEW k \in CurrentAttestations(case, Records, r)
               PROVE  m = k
    BY DEF AtMostOneCurrent
  <2>1. Len(history) \in 1..Len(history) /\ case = history[Len(history)]
        /\ Records.decisions \subseteq decisions
    BY TheCase DEF Records
  <2> QED BY <2>1, OneCurrentAttestation
<1> QED BY <1>1, ReviewInvariant, PTL

\* The minimums that a Ready case has met, on the records stored about it.
ReadyMeansMinimumOne ==
  ReadinessState(case, Records) = Ready =>
    \A r \in AttestationRequirements : Obligation[r] = "Required" => MinimumCount[r] = 1

\* So a profile may not ask two attestations of one requirement: whatever
\* professionals do, no case of it is ever derived Ready.
THEOREM MinimumOfTwoIsNeverMet ==
  ASSUME CommitOrder # "DecisionFirst"
  PROVE  Spec => []ReadyMeansMinimumOne
<1>1. ReviewInv => ReadyMeansMinimumOne
  <2> SUFFICES ASSUME ReviewInv, ReadinessState(case, Records) = Ready,
                      NEW r \in AttestationRequirements, Obligation[r] = "Required"
               PROVE  MinimumCount[r] = 1
    BY DEF ReadyMeansMinimumOne
  <2>1. Len(history) \in 1..Len(history) /\ case = history[Len(history)]
        /\ Records.decisions \subseteq decisions
    BY TheCase DEF Records
  <2>2. r \in ProfileRequirements[case.profile] /\ RequirementKind[r] = "Attestation"
    BY DEF AttestationRequirements
  <2>3. ReadinessState(history[Len(history)], Records) = Ready
    BY <2>1
  <2> QED BY <2>1, <2>2, <2>3, ReadyDemandsOne
<1> QED BY <1>1, ReviewInvariant, PTL

\* Two positions conflict.
LEMMA NoConflict ==
  ASSUME NEW positions \in SUBSET Actions, ~(Cardinality(positions) > 1),
         NEW a \in positions, NEW b \in positions
  PROVE  a = b
<1>1. IsFiniteSet(Actions)
  <2>1. IsFiniteSet({Attest}) /\ IsFiniteSet({Attest, Reject})
        /\ IsFiniteSet({Attest, Reject, RequestMoreEvidence})
    <3>1. IsFiniteSet({Attest} \cup {Reject})
      BY FS_Singleton, FS_AddElement
    <3>2. IsFiniteSet(({Attest} \cup {Reject}) \cup {RequestMoreEvidence})
      BY <3>1, FS_AddElement
    <3>3. /\ {Attest} \cup {Reject} = {Attest, Reject}
          /\ {Attest, Reject} \cup {RequestMoreEvidence}
               = {Attest, Reject, RequestMoreEvidence}
      OBVIOUS
    <3> QED BY <3>1, <3>2, <3>3, FS_Singleton
  <2>2. IsFiniteSet({Attest, Reject, RequestMoreEvidence} \cup {Abstain})
    BY <2>1, FS_AddElement
  <2>3. {Attest, Reject, RequestMoreEvidence} \cup {Abstain} = Actions
    BY DEF Actions
  <2> QED BY <2>2, <2>3
<1>2. IsFiniteSet(positions) /\ Cardinality(positions) \in Nat
  BY <1>1, FS_Subset, FS_CardinalityType
<1> SUFFICES ASSUME a # b PROVE FALSE
  OBVIOUS
<1>3. Cardinality({a} \cup {b}) = 2 /\ IsFiniteSet({a} \cup {b})
  <2>1. IsFiniteSet({a}) /\ Cardinality({a}) = 1
    BY FS_Singleton
  <2> QED BY <2>1, FS_AddElement
<1>4. {a} \cup {b} \in SUBSET positions
  OBVIOUS
<1>5. Cardinality({a} \cup {b}) <= Cardinality(positions)
  BY <1>2, <1>4, FS_Subset
<1> QED BY <1>2, <1>3, <1>5

\* Under every order of the stores, a case derived Ready leaves no objection
\* of a professional to a required attestation standing: an attestation of
\* the same requirement was given on a later revision.
THEOREM ObjectionsStay == Spec => []ObjectionsAnswered
<1>1. ReviewInv => ObjectionsAnswered
  <2> SUFFICES ASSUME ReviewInv, ReadinessState(case, Records) = Ready,
                      NEW d \in decisions, d.action # Attest,
                      Obligation[d.requirement] = "Required"
               PROVE  \E e \in decisions : /\ e.requirement = d.requirement
                                           /\ e.action = Attest
                                           /\ e.basis > d.basis
    BY DEF ObjectionsAnswered
  <2> DEFINE r == d.requirement
             mine == {e \in Decisions(case, Records) : e.requirement = r}
             positions == CurrentPositions(case, Records, r)
  <2>1. \A e \in decisions : /\ e \in Decision /\ Sound(history, e)
                             /\ e.basis \in Nat /\ e.basis <= case.revision
    BY TheCase DEF ReviewInv, TypeOK, DecisionInv, Stored, Sound, Decision
  <2>2. mine = {e \in decisions : e.requirement = r}
    BY <2>1 DEF Decisions, Records
  <2>3. /\ r \in ProfileRequirements[case.profile] /\ RequirementKind[r] = "Attestation"
        /\ r \in Requirements
    BY <2>1, TheCase DEF Sound, Decision
  <2>4. PICK e \in mine : \A f \in mine : f.basis <= e.basis
    BY <2>2, <2>3 DEF ReviewInv, LatestInv, HasLatest
  <2>5. \A f \in mine : f.basis = e.basis => f.action \in positions
    <3> HIDE DEF mine
    <3>1. positions = {f.action : f \in {g \in mine : \A h \in mine : h.basis <= g.basis}}
      BY DEF CurrentPositions, mine
    <3> QED BY <2>4, <3>1
  <2>6. positions \in SUBSET Actions
    BY <2>1, <2>2 DEF CurrentPositions, Decision
  <2>7. PositionBlockers(positions) \subseteq AttestationBlockers(case, Records, r)
    BY DEF AttestationBlockers
  <2> HIDE DEF positions, mine
  <2>8. /\ "review.conflicting" \notin PositionBlockers(positions)
        /\ "review.rejected" \notin PositionBlockers(positions)
        /\ "review.more-evidence-required" \notin PositionBlockers(positions)
        /\ "review.pending" \notin PositionBlockers(positions)
    BY <2>3, <2>7, ReadyAttestation
  <2>9. ~(Cardinality(positions) > 1)
    BY <2>8 DEF PositionBlockers
  <2>10. e.action \in positions
    BY <2>4, <2>5
  <2>11. positions = {e.action}
    BY <2>6, <2>9, <2>10, NoConflict
  <2>12. e.action = Attest
    BY <2>6, <2>8, <2>9, <2>10, <2>11 DEF PositionBlockers, When, Actions
  <2>13. d \in mine /\ d.basis <= e.basis /\ e \in decisions /\ e.requirement = r
    BY <2>2, <2>4
  <2>14. d.basis # e.basis
    BY <2>5, <2>11, <2>12, <2>13
  <2> QED BY <2>1, <2>12, <2>13, <2>14
<1> QED BY <1>1, ReviewInvariant, PTL

-----------------------------------------------------------------------------
(* What a step may never do *)

\* Only the three commits touch what readiness reads.
LEMMA WhatSteps ==
  ASSUME [Next]_vars
  PROVE  \/ UNCHANGED <<case, decisions>>
         \/ \E s \in Sessions : SaveDecision(s)
         \/ \E s \in Sessions : SaveCase(s)
         \/ \E s \in Sessions : SaveBoth(s)
<1>1. CASE \E id \in RequestIds, r \in Requirements : CreateRequest(id, r)
  BY <1>1 DEF CreateRequest
<1>2. ASSUME NEW s \in Sessions, SessionStep(s)
      PROVE  \/ UNCHANGED <<case, decisions>>
             \/ SaveDecision(s) \/ SaveCase(s) \/ SaveBoth(s)
  BY <1>2 DEF SessionStep, Decide, AwaitSignature, Signed, Change, Prepare, Abandon
<1>3. CASE UNCHANGED vars
  BY <1>3 DEF vars
<1> QED BY <1>1, <1>2, <1>3 DEF Next

\* In one transaction, a new decision is a position, or names material the
\* case did not have, at the revision stored with it.
LEMMA NewDecision ==
  ASSUME ReviewInv, [Next]_vars, CommitOrder = "Atomic", NEW d \in decisions' \ decisions
  PROVE  /\ d.materialId \notin MaterialIdsOf(case)
         /\ d.resulting = 0 \/ d.resulting = case.revision + 1
<1>1. \A s \in Sessions : PhaseOK(history, session[s])
  BY DEF ReviewInv, SessionInv
<1>2. ASSUME NEW s \in Sessions, SaveDecision(s)
      PROVE  d.resulting = 0 /\ d.materialId = NoArtifact
  <2>1. d = session[s].decision
    BY <1>2 DEF SaveDecision, StoreDecision
  <2>2. /\ d # NoDecision /\ session[s].snapshot = NoCase /\ session[s].next = NoCase
    BY <1>2, <2>1 DEF SaveDecision, Unsigned
  <2> QED BY <1>1, <2>1, <2>2 DEF PhaseOK, SignedOK, PositionOK
<1>3. ASSUME NEW s \in Sessions, SaveBoth(s)
      PROVE  d.resulting = case.revision + 1 /\ d.materialId \notin MaterialIdsOf(case)
  <2>1. d = session[s].decision
    BY <1>3 DEF SaveBoth, StoreDecision
  <2>2. /\ d # NoDecision /\ session[s].next # NoCase /\ StoreCase(session[s].next)
    BY <1>3, <2>1 DEF SaveBoth
  <2>3. session[s].next.revision = Len(history) + 1
    BY <2>2, CaseStored
  <2>4. Sound(history, d) /\ d.resulting # 0 /\ SignedOK(history, session[s])
    BY <1>1, <2>1, <2>2 DEF PhaseOK, UnsignedOK, PositionOK
  <2>5. d.resulting = Len(history) + 1 /\ AttestedBy(d, history[d.basis], session[s].next)
    BY <2>1, <2>2, <2>3, <2>4 DEF SignedOK
  <2>6. d.basis = Len(history) /\ case = history[d.basis]
    BY <2>4, <2>5, TheCase DEF Sound
  <2> QED BY <2>5, <2>6, TheCase DEF AttestedBy, Produced
<1>4. NoArtifact \notin MaterialIdsOf(case)
  BY TheCase, ReadinessAssumption DEF Case, Material, MaterialIdsOf
<1>5. \/ \E s \in Sessions : SaveDecision(s)
      \/ \E s \in Sessions : SaveBoth(s)
  BY WhatSteps DEF SaveCase
<1> QED BY <1>2, <1>3, <1>4, <1>5

\* No step takes material out of the case, or points it elsewhere.
LEMMA MaterialsStay ==
  ASSUME ReviewInv, [Next]_vars, NEW m \in case.materials
  PROVE  \E n \in case'.materials : n.materialId = m.materialId /\ n.ref = m.ref
<1>1. ASSUME NEW s \in Sessions, SaveCase(s) \/ SaveBoth(s)
      PROVE  Follows(case, case')
  BY <1>1, CaseStored DEF SaveCase, SaveBoth
<1>2. ASSUME NEW s \in Sessions, SaveDecision(s)
      PROVE  case' = case
  BY <1>2 DEF SaveDecision
<1> QED BY <1>1, <1>2, WhatSteps DEF Follows

\* Written in one transaction, what readiness has called stale stays stale:
\* nothing any session stores later makes the same attestation current.
THEOREM StaleStaysStale ==
  ASSUME CommitOrder = "Atomic"
  PROVE  Spec => StaleNeverRevives
<1> DEFINE Stays ==
      \A r \in AttestationRequirements :
        \A m \in MaterialsFor(case, r, "Attestation") :
          m.materialId \notin CurrentIds(case, Records, r) =>
          m.materialId \notin CurrentIds(case', Records', r)
<1>1. ReviewInv /\ ReviewInv' /\ [Next]_vars => [Stays]_vars
  <2> SUFFICES ASSUME ReviewInv, ReviewInv', [Next]_vars,
                      NEW r \in AttestationRequirements,
                      NEW m \in MaterialsFor(case, r, "Attestation"),
                      m.materialId \in CurrentIds(case', Records', r)
               PROVE  m.materialId \in CurrentIds(case, Records, r)
    OBVIOUS
  <2>1. PICK k \in CurrentAttestations(case', Records', r) : k.materialId = m.materialId
    BY DEF CurrentIds
  <2>2. PICK d \in ProducingDecisions(case', Records', r, k) :
          CoversCurrentRevision(case', Records', r, CoveredThrough(d))
    BY <2>1 DEF CurrentAttestations
  <2>3. m \in case.materials /\ k \in case'.materials
    BY <2>1 DEF CurrentAttestations, MaterialsFor
  <2>4. PICK n \in case'.materials : n.materialId = m.materialId /\ n.ref = m.ref
    BY <2>3, MaterialsStay
  <2>5. WellFormed(case')
    BY DEF ReviewInv, HistoryInv, TypeOK, Recorded
  <2>6. k.ref = m.ref
    BY <2>1, <2>3, <2>4, <2>5 DEF WellFormed, MaterialIdsUnique
  <2>7. d \in decisions' /\ Produced(d, r, k)
    BY <2>2 DEF ProducingDecisions, Decisions, Records
  <2>8. d \in decisions
    BY <2>1, <2>3, <2>7, NewDecision DEF Produced, MaterialIdsOf
  <2>9. \A e \in decisions : Sound(history, e) /\ e.basis <= case.revision /\ e.resulting \in Nat
    BY TheCase DEF ReviewInv, TypeOK, DecisionInv, Stored, Sound, Decision
  <2>10. d \in ProducingDecisions(case, Records, r, m)
    BY <2>1, <2>6, <2>7, <2>8, <2>9 DEF ProducingDecisions, Decisions, Records, Produced
  <2>11. CoversCurrentRevision(case, Records, r, CoveredThrough(d))
    <3> SUFFICES ASSUME NEW revision \in (CoveredThrough(d) + 1)..case.revision
                 PROVE  \E e \in Decisions(case, Records) :
                          /\ e.action = Attest /\ e.requirement # r
                          /\ e.resulting = revision
      BY DEF CoversCurrentRevision
    <3>1. CoveredThrough(d) \in Nat /\ case.revision \in Nat /\ case'.revision \in Nat
          /\ case.revision <= case'.revision
      <4>1. CoveredThrough(d) \in Nat
        BY <2>8, <2>9, TheCase DEF CoveredThrough, Sound
      <4>2. case'.revision \in Nat
        BY DEF ReviewInv, TypeOK, Case
      <4>3. case.revision <= case'.revision
        <5>1. ASSUME NEW s \in Sessions, SaveCase(s) \/ SaveBoth(s)
              PROVE  Follows(case, case')
          BY <5>1, CaseStored DEF SaveCase, SaveBoth
        <5> QED BY <5>1, WhatSteps, TheCase DEF SaveDecision, Follows
      <4> QED BY <4>1, <4>2, <4>3, TheCase
    <3>2. revision \in (CoveredThrough(d) + 1)..case'.revision
      BY <3>1
    <3>3. PICK e \in decisions' :
            e.action = Attest /\ e.requirement # r /\ e.resulting = revision
      BY <2>2, <3>2 DEF CoversCurrentRevision, Decisions, Records
    <3>4. e \in decisions
      BY <3>1, <3>3, NewDecision
    <3> QED BY <2>9, <3>3, <3>4 DEF Decisions, Records
  <2>12. m \in CurrentAttestations(case, Records, r)
    BY <2>10, <2>11 DEF CurrentAttestations
  <2> QED BY <2>12 DEF CurrentIds
<1>2. StaleNeverRevives <=> [][Stays]_vars
  BY PTL DEF StaleNeverRevives
<1> QED BY <1>1, <1>2, ReviewInvariant, PTL DEF Spec

\* Under every order of the stores, the attestation of one requirement leaves
\* every current attestation of another requirement current, so the
\* professionals of a case that needs several need not chase each other.
THEOREM AttestationsCoexist == Spec => OtherAttestationKeepsCurrency
<1> DEFINE Keeps ==
      \A r, other \in AttestationRequirements :
        \A d \in decisions' \ decisions :
          (d.requirement = other /\ r # other /\ d.resulting = case'.revision
           /\ case'.revision = case.revision + 1) =>
          CurrentIds(case, Records, r) \subseteq CurrentIds(case', Records', r)
<1>1. ReviewInv /\ ReviewInv' /\ [Next]_vars => [Keeps]_vars
  <2> SUFFICES ASSUME ReviewInv, ReviewInv', [Next]_vars,
                      NEW r \in AttestationRequirements,
                      NEW d \in decisions' \ decisions, r # d.requirement,
                      d.resulting = case'.revision, case'.revision = case.revision + 1,
                      NEW m \in CurrentAttestations(case, Records, r)
               PROVE  m.materialId \in CurrentIds(case', Records', r)
    BY DEF CurrentIds
  <2>1. PICK s \in Sessions : SaveBoth(s)
    BY WhatSteps, TheCase DEF SaveDecision, SaveCase
  <2>2. /\ CommitOrder = "Atomic" /\ decisions \subseteq decisions'
        /\ session[s].next # NoCase /\ StoreCase(session[s].next)
    BY <2>1 DEF SaveBoth, StoreDecision
  <2>3. /\ case' = history'[Len(history) + 1] /\ history[Len(history)] = case
        /\ \A n \in 1..Len(history) : history'[n] = history[n]
        /\ Len(history) \in 1..Len(history) /\ case.revision = Len(history)
    BY <2>2, CaseStored, TheCase DEF Extends
\* The new revision is that attestation and nothing else.
  <2>4. d.action = Attest /\ case.materials \subseteq case'.materials
    <3>1. Stored(history', d)
      BY DEF ReviewInv, DecisionInv
    <3>2. d.resulting = Len(history) + 1 /\ d.resulting # 0
      BY <2>3
    <3>3. d.basis = Len(history) /\ d.action = Attest
      <4>1. d.basis \in Nat
        BY DEF ReviewInv, TypeOK, Decision
      <4> QED BY <3>1, <3>2, <4>1, TheCase DEF Stored, Sound
    <3>4. AttestedBy(d, case, case')
      BY <2>2, <2>3, <3>1, <3>2, <3>3 DEF Stored, Happened
    <3> QED BY <3>3, <3>4 DEF AttestedBy, AddsAttestation
  <2>5. PICK e \in ProducingDecisions(case, Records, r, m) :
          CoversCurrentRevision(case, Records, r, CoveredThrough(e))
    BY DEF CurrentAttestations
  <2>6. \A f \in Decisions(case, Records) : f \in Decisions(case', Records')
    <3>1. \A f \in decisions : f.basis \in Nat
      BY DEF ReviewInv, TypeOK, Decision
    <3> QED BY <2>2, <3>1, TheCase DEF Decisions, Records
  <2>7. d \in Decisions(case', Records')
    <3>1. Sound(history', d) /\ Len(history') = case'.revision
      BY CaseStored, <2>2, TheCase DEF ReviewInv, DecisionInv, Stored
    <3> QED BY <3>1, TheCase DEF Sound, Decisions, Records
  <2>8. e \in ProducingDecisions(case', Records', r, m)
    BY <2>5, <2>6 DEF ProducingDecisions
  <2>9. CoversCurrentRevision(case', Records', r, CoveredThrough(e))
    <3> SUFFICES ASSUME NEW revision \in (CoveredThrough(e) + 1)..case'.revision
                 PROVE  \E f \in Decisions(case', Records') :
                          /\ f.action = Attest /\ f.requirement # r
                          /\ f.resulting = revision
      BY DEF CoversCurrentRevision
    <3>1. CoveredThrough(e) \in Nat /\ case.revision \in Nat
      BY <2>5, TheCase DEF CoveredThrough, ProducingDecisions, Decisions, Records,
                           ReviewInv, TypeOK, Decision
    <3>2. CASE revision = case'.revision
      BY <2>4, <2>7, <3>2
    <3>3. CASE revision # case'.revision
      <4>1. revision \in (CoveredThrough(e) + 1)..case.revision
        BY <3>1, <3>3
      <4> QED BY <2>5, <2>6, <4>1 DEF CoversCurrentRevision
    <3> QED BY <3>2, <3>3
  <2>10. m \in MaterialsFor(case', r, "Attestation")
    BY <2>4 DEF CurrentAttestations, MaterialsFor
  <2>11. m \in CurrentAttestations(case', Records', r)
    BY <2>8, <2>9, <2>10 DEF CurrentAttestations
  <2> QED BY <2>11 DEF CurrentIds
<1>2. OtherAttestationKeepsCurrency <=> [][Keeps]_vars
  BY PTL DEF OtherAttestationKeepsCurrency
<1> QED BY <1>1, <1>2, ReviewInvariant, PTL DEF Spec

=============================================================================
