------------------------- MODULE ProfessionalReview --------------------------
(***************************************************************************)
(* Professional review of one case: review requests, the asynchronous      *)
(* signing of an attestation, and the decisions that readiness later reads. *)
(*                                                                         *)
(* recordProfessionalReviewDecision works on the copy of the case its       *)
(* caller loaded, awaits the signer, and returns a decision and (when it    *)
(* attests with an artifact) the next case.  The package stores neither:    *)
(* two independent repositories hold them, and the composition layer        *)
(* commits to both.  CommitOrder names how it does: in one transaction,     *)
(* the case first, or the decision first, with a failure possible between.  *)
(***************************************************************************)
EXTENDS Readiness, Sequences

CONSTANTS
  Sessions,      \* concurrent requests of the composition layer
  RequestIds,    \* identifiers of review requests
  Positions,     \* actions professionals take without asking for an artifact
  ChangeKinds,   \* kinds of the material other writers add or associate
  ChangeTargets, \* requirements they add or associate it to
  CommitOrder,   \* "Atomic", "CaseFirst" or "DecisionFirst"
  MaxRevision,   \* bound: no session starts a change past this revision
  NoDecision

ASSUME ReviewAssumption ==
  /\ CommitOrder \in {"Atomic", "CaseFirst", "DecisionFirst"}
  /\ MaxRevision \in Nat
  /\ Positions \subseteq Actions
  /\ "Attestation" \in Kinds
  /\ ChangeKinds \subseteq Kinds
  /\ ChangeTargets \subseteq Requirements

VARIABLES
  case,       \* the stored case
  requests,   \* the stored review requests
  decisions,  \* the stored review decisions
  session,    \* what each session still has to sign or to store
  history     \* every case the repository ever stored, oldest first

vars == <<case, requests, decisions, session, history>>

Request == [id: RequestIds, requirement: Requirements, basis: Nat]

\* resulting is 0, and materialId NoArtifact, where the decision has none.
Decision ==
  [request: RequestIds, requirement: Requirements, action: Actions,
   basis: Nat, resulting: Nat, materialId: MaterialIds \cup {NoArtifact},
   ref: Refs \cup {NoArtifact}]

\* A session without a decision is told from one with any.
ASSUME DecisionAssumption == NoDecision \notin Decision

\* snapshot: the copy a session handed to the signer and awaits on;
\* next and decision: computed, not yet stored.
Idle == [snapshot |-> NoCase, next |-> NoCase, decision |-> NoDecision]

Records == [decisions |-> decisions, requests |-> requests, results |-> {}]

AttestationRequirements ==
  {r \in ProfileRequirements[case.profile] : RequirementKind[r] = "Attestation"}

-----------------------------------------------------------------------------
\* A case in which the applicant has already made one declaration.
DeclaredCases(created) ==
  {WithMaterial(created, m) :
     m \in {n \in Material : /\ n.kind = "Declaration"
                             /\ \A r \in n.requirementIds :
                                  RequirementKind[r] = "Declaration"
                             /\ CanAddMaterial(created, created.tenantId, n)}}

Init ==
  /\ \E t \in Tenants, id \in CaseIds, p \in Profiles :
       LET created == CreatedCase(t, id, p, 1) IN
       \E declared \in DeclaredCases(created) :
         /\ case = declared
         /\ history = <<created, declared>>
  /\ requests = {}
  /\ decisions = {}
  /\ session = [s \in Sessions |-> Idle]

\* createProfessionalReviewRequest, stored at once: a request stored late is
\* one the case has already moved past.
CreateRequest(id, r) ==
  /\ case.state # Cancelled
  /\ r \in AttestationRequirements
  /\ \A q \in requests : q.id # id
  /\ requests' = requests \cup {[id |-> id, requirement |-> r, basis |-> case.revision]}
  /\ UNCHANGED <<case, decisions, session, history>>

\* Mutation: the request's basis is not compared with the loaded case.
MayDecideOnAnyRevision(s, q) ==
  /\ session[s] = Idle
  /\ q \in requests
  /\ case.state # Cancelled
  /\ q.requirement \in AttestationRequirements

\* The part of recordProfessionalReviewDecision every action shares, on the
\* case as it is loaded now.
MayDecide(s, q) ==
  /\ session[s] = Idle
  /\ q \in requests
  /\ case.revision = q.basis
  /\ case.state # Cancelled
  /\ q.requirement \in AttestationRequirements

DecisionOn(q, action, materialId, ref) ==
  [request |-> q.id, requirement |-> q.requirement, action |-> action,
   basis |-> q.basis, resulting |-> 0, materialId |-> materialId, ref |-> ref]

\* A decision that asks for no artifact is complete at once: the case is
\* untouched and nothing is awaited.
Decide(s, q, action) ==
  /\ MayDecide(s, q)
  /\ session' = [session EXCEPT ![s].decision =
                   DecisionOn(q, action, NoArtifact, NoArtifact)]
  /\ UNCHANGED <<case, requests, decisions, history>>

\* An Attest that asks for an artifact about a claim of the case reaches the
\* signer, holding the case it was given.
AwaitSignature(s, q, materialId, ref) ==
  /\ MayDecide(s, q)
  /\ \E m \in case.materials : m.kind = "Declaration"
  /\ session' = [session EXCEPT ![s] =
                   [snapshot |-> case, next |-> NoCase,
                    decision |-> DecisionOn(q, Attest, materialId, ref)]]
  /\ UNCHANGED <<case, requests, decisions, history>>

\* Mutation: the decision does not name the material it produced.
SignedUnnamed(s, now) ==
  LET d == session[s].decision
      c == session[s].snapshot
      m == [materialId |-> d.materialId, kind |-> "Attestation", ref |-> d.ref,
            requirementIds |-> {d.requirement}, addedAt |-> now]
  IN
  /\ c # NoCase
  /\ CanAddMaterial(c, c.tenantId, m)
  /\ session' = [session EXCEPT ![s] =
                   [snapshot |-> NoCase, next |-> WithMaterial(c, m),
                    decision |-> [d EXCEPT !.resulting = c.revision + 1,
                                           !.materialId = NoArtifact]]]
  /\ UNCHANGED <<case, requests, decisions, history>>

\* The signer answers: the attestation becomes material of the awaited copy.
\* A signer that fails, or a copy that refuses the material, leaves the
\* session to Abandon: no decision, no attestation.
Signed(s, now) ==
  LET d == session[s].decision
      c == session[s].snapshot
      m == [materialId |-> d.materialId, kind |-> "Attestation", ref |-> d.ref,
            requirementIds |-> {d.requirement}, addedAt |-> now]
  IN
  /\ c # NoCase
  /\ CanAddMaterial(c, c.tenantId, m)
  /\ session' = [session EXCEPT ![s] =
                   [snapshot |-> NoCase, next |-> WithMaterial(c, m),
                    decision |-> [d EXCEPT !.resulting = c.revision + 1]]]
  /\ UNCHANGED <<case, requests, decisions, history>>

\* Every other writer of the case.
Prepare(s, c) ==
  /\ session' = [session EXCEPT ![s].next = c]
  /\ UNCHANGED <<case, requests, decisions, history>>

Change(s, now) ==
  /\ session[s] = Idle
  /\ case.revision < MaxRevision
  /\ \/ CanActivate(case, case.tenantId, now) /\ Prepare(s, ActivatedCase(case, now))
     \/ CanCancel(case, case.tenantId, now) /\ Prepare(s, CancelledCase(case, now))
     \/ \E m \in Material :
          /\ m.kind \in ChangeKinds
          /\ m.requirementIds \subseteq ChangeTargets
          /\ m.addedAt = now
          /\ CanAddMaterial(case, case.tenantId, m)
          /\ Prepare(s, WithMaterial(case, m))
     \/ \E m \in case.materials, rs \in SUBSET ChangeTargets :
          /\ m.kind \in ChangeKinds
          /\ CanAssociate(case, case.tenantId, m, rs, now)
          /\ Prepare(s, WithAssociation(case, m, rs, now))

-----------------------------------------------------------------------------
\* The commits

Unsigned(s) == session[s].snapshot # NoCase

\* The decision repository holds one decision per request.
DecisionAccepted(d) == \A e \in decisions : e.request # d.request

StoreCase(c) ==
  /\ SaveAccepted(case, c)
  /\ case' = c
  /\ history' = Append(history, c)

StoreDecision(d) ==
  /\ DecisionAccepted(d)
  /\ decisions' = decisions \cup {d}

\* A change of the case alone, or the case half of an attestation.
SaveCase(s) ==
  /\ session[s].next # NoCase
  /\ session[s].decision # NoDecision => CommitOrder = "CaseFirst"
  /\ StoreCase(session[s].next)
  /\ session' = [session EXCEPT ![s].next = NoCase]
  /\ UNCHANGED <<requests, decisions>>

\* A decision without an artifact, or the decision half of an attestation.
SaveDecision(s) ==
  /\ session[s].decision # NoDecision
  /\ ~Unsigned(s)
  /\ session[s].next # NoCase => CommitOrder = "DecisionFirst"
  /\ StoreDecision(session[s].decision)
  /\ session' = [session EXCEPT ![s].decision = NoDecision]
  /\ UNCHANGED <<case, requests, history>>

SaveBoth(s) ==
  /\ CommitOrder = "Atomic"
  /\ session[s].next # NoCase
  /\ session[s].decision # NoDecision
  /\ StoreCase(session[s].next)
  /\ StoreDecision(session[s].decision)
  /\ session' = [session EXCEPT ![s] = Idle]
  /\ UNCHANGED requests

\* A refused save, a signer that failed, a crash of the request: what it had
\* not stored yet is lost.
Abandon(s) ==
  /\ session[s] # Idle
  /\ session' = [session EXCEPT ![s] = Idle]
  /\ UNCHANGED <<case, requests, decisions, history>>

SessionStep(s) ==
  \/ \E q \in requests, action \in Positions : Decide(s, q, action)
  \/ \E q \in requests, id \in MaterialIds, ref \in Refs : AwaitSignature(s, q, id, ref)
  \/ \E now \in Times : Signed(s, now) \/ Change(s, now)
  \/ SaveCase(s)
  \/ SaveDecision(s)
  \/ SaveBoth(s)
  \/ Abandon(s)

Next ==
  \/ \E id \in RequestIds, r \in Requirements : CreateRequest(id, r)
  \/ \E s \in Sessions : SessionStep(s)

Spec == Init /\ [][Next]_vars

-----------------------------------------------------------------------------
(* Properties *)

\* The repositories and the sessions hold records of the shapes the code gives
\* them, and every session is in one of its phases.
TypeOK ==
  /\ case \in Case
  /\ requests \subseteq Request
  /\ decisions \subseteq Decision
  /\ session \in [Sessions -> [snapshot: Case \cup {NoCase}, next: Case \cup {NoCase},
                               decision: Decision \cup {NoDecision}]]
  /\ history \in Seq(Case)

\* What a professional who answers r is accountable for having seen: the
\* lifecycle state and all material but other requirements' attestations.
DossierFor(c, r) ==
  [state |-> c.state,
   materials |-> {m \in c.materials : m.kind # "Attestation" \/ r \in m.requirementIds}]

\* An attestation that readiness counts as current was given on the dossier
\* the case still has: whatever happened since, the professional saw all of
\* it but other professionals' own attestations.
CurrentAttestationSawDossier ==
  \A r \in AttestationRequirements :
    \A m \in CurrentAttestations(case, Records, r) :
      \E d \in ProducingDecisions(case, Records, r, m) :
        LET seen == DossierFor(history[d.basis], r) IN
        DossierFor(case, r) = [seen EXCEPT !.materials = @ \cup {m}]

\* A stored decision that names an artifact names one the case really took:
\* the revision it claims exists, and is its basis with that attestation.
DecisionsHappened ==
  \A d \in decisions : d.resulting # 0 =>
    /\ d.resulting = d.basis + 1
    /\ d.resulting \in DOMAIN history
    /\ \E m \in history[d.resulting].materials :
         /\ Produced(d, d.requirement, m)
         /\ history[d.resulting].materials = history[d.basis].materials \cup {m}

\* No attestation is left in the case without the decision that justifies
\* it.  One that is can never be justified later, and blocks readiness for
\* good: an aggregate operation never takes material out of a case.
AttestationsDecided ==
  \A r \in AttestationRequirements :
    \A m \in MaterialsFor(case, r, "Attestation") :
      ProducingDecisions(case, Records, r, m) # {}

\* Readiness never outvotes a professional: whoever did not attest a required
\* attestation was followed by an attestation given on a later case.
ObjectionsAnswered ==
  ReadinessState(case, Records) = Ready =>
    \A d \in decisions : d.action # Attest /\ Obligation[d.requirement] = "Required" =>
      \E e \in decisions : /\ e.requirement = d.requirement
                           /\ e.action = Attest
                           /\ e.basis > d.basis

CurrentIds(c, inp, r) == {m.materialId : m \in CurrentAttestations(c, inp, r)}

\* Once readiness has called an attestation stale, nothing recorded later
\* makes the same attestation current again.
StaleNeverRevives ==
  [][\A r \in AttestationRequirements :
       \A m \in MaterialsFor(case, r, "Attestation") :
         m.materialId \notin CurrentIds(case, Records, r) =>
         m.materialId \notin CurrentIds(case', Records', r)]_vars

\* One professional's attestation never makes another requirement's stale, so
\* a profile with several attestation requirements can be satisfied.
OtherAttestationKeepsCurrency ==
  [][\A r, other \in AttestationRequirements :
       \A d \in decisions' \ decisions :
         (d.requirement = other /\ r # other /\ d.resulting = case'.revision
          /\ case'.revision = case.revision + 1) =>
         CurrentIds(case, Records, r) \subseteq CurrentIds(case', Records', r)]_vars

\* Where attestations fall short of the minimum because some are stale, a
\* further review on the newest basis settles it: after an attestation of r,
\* a requirement with enough distinct attestations is not held up by currency.
FurtherReviewSettlesCurrency ==
  \A r \in AttestationRequirements :
    LET produced == {m \in MaterialsFor(case, r, "Attestation") :
                       ProducingDecisions(case, Records, r, m) # {}}
    IN (/\ \E d \in decisions : d.requirement = r /\ d.resulting = case.revision
        /\ Cardinality(DistinctRefs(produced)) >= MinimumCount[r])
       => "attestation.currency.unresolved" \notin AttestationBlockers(case, Records, r)

=============================================================================
