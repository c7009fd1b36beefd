------------------------------ MODULE Readiness ------------------------------
(***************************************************************************)
(* evaluateProtocolizationReadiness as an operator: from one case and the  *)
(* records the caller collected about it, the reasons that keep it from    *)
(* being protocolized, and the state they derive.                          *)
(*                                                                         *)
(* inp is the caller's collection: inp.decisions and inp.requests, the     *)
(* professional review records, and inp.results, the verification results. *)
(* The caller collects them from independent stores at its own pace; what  *)
(* it may miss or see early is the business of the modules that use this.  *)
(***************************************************************************)
EXTENDS CaseAggregate

CONSTANTS
  RequirementKind,   \* requirement -> the kind of answer it asks for
  Obligation,        \* requirement -> how strongly the profile asks for it
  MinimumCount,      \* requirement -> how many distinct references it demands
  CheckIds,          \* verification checks
  ChecksOf,          \* requirement -> the checks it declares
  AnyCheckSuffices,  \* verification requirements satisfied by any one check
  NoArtifact         \* a decision that produced no attestation material

Attest              == "Attest"
Reject              == "Reject"
RequestMoreEvidence == "RequestMoreEvidence"
Abstain             == "Abstain"
Actions == {Attest, Reject, RequestMoreEvidence, Abstain}

Outcomes == {"Pass", "Warning", "Fail", "ManualReview", "Unavailable"}

ASSUME ReadinessAssumption ==
  /\ RequirementKind \in
       [Requirements -> {"Declaration", "Evidence", "Verification", "Attestation"}]
  /\ Obligation \in
       [Requirements -> {"Required", "Optional", "Conditional", "NotRequired"}]
  /\ MinimumCount \in [Requirements -> Nat \ {0}]
  /\ ChecksOf \in [Requirements -> SUBSET CheckIds]
  /\ \A r \in Requirements : RequirementKind[r] = "Verification" => ChecksOf[r] # {}
  /\ AnyCheckSuffices \subseteq Requirements
  /\ NoArtifact \notin MaterialIds

When(condition, reason) == IF condition THEN {reason} ELSE {}

MaterialsFor(c, r, kind) ==
  {m \in c.materials : m.kind = kind /\ r \in m.requirementIds}

DistinctRefs(materials) == {m.ref : m \in materials}

-----------------------------------------------------------------------------
\* Declarations and evidence: distinct references against the minimum.

CountedBlockers(c, r) ==
  LET present == Cardinality(DistinctRefs(MaterialsFor(c, r, RequirementKind[r]))) IN
  When(present = 0, "requirement.material.missing") \cup
  When(present \in 1..(MinimumCount[r] - 1), "requirement.material.insufficient")

-----------------------------------------------------------------------------
\* Verification: only a result for exactly the evaluated revision counts.

ResultsFor(c, inp, r, check) ==
  {v \in inp.results : /\ v.requirement = r /\ v.check = check
                       /\ v.revision <= c.revision}

\* Mutation: a result for an earlier revision still counts.
ResultsAtAnyRevision(c, inp, r, check) == ResultsFor(c, inp, r, check)

CurrentResults(c, inp, r, check) ==
  {v \in ResultsFor(c, inp, r, check) : v.revision = c.revision}

\* The order of results: by instant, then by execution identifier.
Precedes(v, w) ==
  \/ v.executedAt < w.executedAt
  \/ v.executedAt = w.executedAt /\ v.executionId < w.executionId

Latest(results) ==
  {v \in results : \A w \in results : w = v \/ Precedes(w, v)}

CheckSatisfied(c, inp, r, check) ==
  \E v \in Latest(CurrentResults(c, inp, r, check)) :
    v.outcome \in {"Pass", "Warning"}

CheckBlockers(c, inp, r, check) ==
  LET current == CurrentResults(c, inp, r, check) IN
  When(ResultsFor(c, inp, r, check) = {}, "verification.missing") \cup
  When(current = {} /\ ResultsFor(c, inp, r, check) # {}, "verification.stale") \cup
  UNION {When(v.outcome = "Fail", "verification.fail") \cup
         When(v.outcome = "ManualReview", "verification.manual-review") \cup
         When(v.outcome = "Unavailable", "verification.unavailable")
           : v \in Latest(current)}

VerificationBlockers(c, inp, r) ==
  LET satisfied == {k \in ChecksOf[r] : CheckSatisfied(c, inp, r, k)} IN
  IF \/ satisfied = ChecksOf[r]
     \/ r \in AnyCheckSuffices /\ satisfied # {}
  THEN {}
  ELSE UNION {CheckBlockers(c, inp, r, k) : k \in ChecksOf[r] \ satisfied}

-----------------------------------------------------------------------------
\* Attestation: legitimate artifacts, each covering the evaluated revision.

Decisions(c, inp) == {d \in inp.decisions : d.basis <= c.revision}

\* The Attest decision that produced this very material for this requirement.
\* (find takes the first such decision in the caller's order: any of them.)
Produced(d, r, m) ==
  /\ d.action = Attest
  /\ d.requirement = r
  /\ d.materialId = m.materialId
  /\ d.ref = m.ref

CoveredThrough(d) == IF d.resulting # 0 THEN d.resulting ELSE d.basis

\* Mutation: currency is not checked at all.
CoversAnyRevision(c, inp, r, through) == TRUE

\* Mutation: only the newest revision has to be accounted for.
CoversNewestRevision(c, inp, r, through) ==
  \/ through >= c.revision
  \/ \E d \in Decisions(c, inp) :
       d.action = Attest /\ d.requirement # r /\ d.resulting = c.revision

\* Mutation: no carve-out for another requirement's attestation.
CoversItsOwnRevision(c, inp, r, through) == through >= c.revision

\* Every later revision is another requirement's attestation.
CoversCurrentRevision(c, inp, r, through) ==
  \A revision \in (through + 1)..c.revision :
    \E d \in Decisions(c, inp) :
      /\ d.action = Attest
      /\ d.requirement # r
      /\ d.resulting = revision

ProducingDecisions(c, inp, r, m) ==
  {d \in Decisions(c, inp) : Produced(d, r, m)}

CurrentAttestations(c, inp, r) ==
  {m \in MaterialsFor(c, r, "Attestation") :
     \E d \in ProducingDecisions(c, inp, r, m) :
       CoversCurrentRevision(c, inp, r, CoveredThrough(d))}

\* The positions taken on the latest basis anybody decided on.
CurrentPositions(c, inp, r) ==
  LET mine == {d \in Decisions(c, inp) : d.requirement = r} IN
  {d.action : d \in {e \in mine : \A f \in mine : f.basis <= e.basis}}

\* Mutation: one attestation settles what others objected to.
PositionBlockersFavourable(positions) ==
  IF Attest \in positions THEN {}
  ELSE When(positions = {Reject}, "review.rejected") \cup
       When(positions = {RequestMoreEvidence}, "review.more-evidence-required") \cup
       When(positions = {Abstain}, "review.pending")

PositionBlockers(positions) ==
  IF Cardinality(positions) > 1 THEN {"review.conflicting"}
  ELSE When(positions = {Reject}, "review.rejected") \cup
       When(positions = {RequestMoreEvidence}, "review.more-evidence-required") \cup
       When(positions = {Abstain}, "review.pending")

Undecided(c, inp, r) ==
  {q \in inp.requests : /\ q.requirement = r
                        /\ q.basis <= c.revision
                        /\ \A d \in Decisions(c, inp) : d.request # q.id}

AttestationBlockers(c, inp, r) ==
  LET materials  == MaterialsFor(c, r, "Attestation")
      unfounded  == {m \in materials : ProducingDecisions(c, inp, r, m) = {}}
      current    == CurrentAttestations(c, inp, r)
      enough     == Cardinality(DistinctRefs(current)) >= MinimumCount[r]
  IN
  When(unfounded # {}, "attestation.decision.missing") \cup
  When(~enough /\ (materials \ unfounded) \ current # {},
       "attestation.currency.unresolved") \cup
  When(~enough /\ (materials = {} \/ current # {}), "attestation.missing") \cup
  When(~enough /\ Undecided(c, inp, r) # {}, "review.pending") \cup
  PositionBlockers(CurrentPositions(c, inp, r))

-----------------------------------------------------------------------------
\* The evaluation

FindingsOf(c, inp, r) ==
  CASE RequirementKind[r] \in {"Declaration", "Evidence"} -> CountedBlockers(c, r)
    [] RequirementKind[r] = "Verification" -> VerificationBlockers(c, inp, r)
    [] RequirementKind[r] = "Attestation" -> AttestationBlockers(c, inp, r)

\* Only a Required finding blocks; a condition nobody resolved always does.
RequirementBlockers(c, inp, r) ==
  CASE Obligation[r] = "Required" -> FindingsOf(c, inp, r)
    [] Obligation[r] = "Conditional" -> {"requirement.condition.unresolved"}
    [] OTHER -> {}

Blockers(c, inp) ==
  When(c.state = Cancelled, "lifecycle.cancelled") \cup
  UNION {RequirementBlockers(c, inp, r) : r \in ProfileRequirements[c.profile]}

\* READINESS_STATE_PRECEDENCE: the first row a blocker falls in names the state.
Precedence == <<
  [state |-> "Ineligible", reasons |-> {"lifecycle.cancelled"}],
  [state |-> "Rejected", reasons |-> {"review.rejected"}],
  [state |-> "Blocked", reasons |-> {"review.conflicting"}],
  [state |-> "MoreEvidenceRequired", reasons |-> {"review.more-evidence-required"}],
  [state |-> "EvidencePending",
   reasons |-> {"requirement.material.missing", "requirement.material.insufficient",
                "requirement.condition.unresolved"}],
  [state |-> "VerificationPending",
   reasons |-> {"verification.missing", "verification.fail",
                "verification.stale", "verification.unavailable"}],
  [state |-> "ReviewPending",
   reasons |-> {"verification.manual-review", "attestation.missing",
                "attestation.decision.missing",
                "attestation.currency.unresolved", "review.pending"}] >>

Ready == "Ready"

ReadinessState(c, inp) ==
  LET rows == {i \in DOMAIN Precedence :
                 Precedence[i].reasons \cap Blockers(c, inp) # {}}
  IN IF rows = {} THEN Ready
     ELSE Precedence[CHOOSE i \in rows : \A j \in rows : i <= j].state

=============================================================================
