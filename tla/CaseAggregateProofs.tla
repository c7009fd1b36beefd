------------------------ MODULE CaseAggregateProofs -------------------------
(***************************************************************************)
(* Facts about the aggregate's pure operations, for every profile, every   *)
(* set of requirements and materials and every clock: an operation whose   *)
(* preconditions hold maps cases to cases, and well-formed cases to        *)
(* well-formed cases.                                                      *)
(***************************************************************************)
EXTENDS CaseAggregate, TLAPS

\* The fields of a case after each operation.
LEMMA ActivatedFields ==
  ASSUME NEW c \in Case, NEW now
  PROVE  LET d == ActivatedCase(c, now) IN
         /\ d.tenantId = c.tenantId /\ d.caseId = c.caseId
         /\ d.profile = c.profile /\ d.state = Active
         /\ d.revision = c.revision + 1
         /\ d.materials = c.materials /\ d.requirementStates = c.requirementStates
         /\ d.createdAt = c.createdAt /\ d.updatedAt = now
         /\ d.activatedAt = now /\ d.cancelledAt = c.cancelledAt
BY DEF ActivatedCase, Case

\* (cancelProtocolizationCase)
LEMMA CancelledFields ==
  ASSUME NEW c \in Case, NEW now
  PROVE  LET d == CancelledCase(c, now) IN
         /\ d.tenantId = c.tenantId /\ d.caseId = c.caseId
         /\ d.profile = c.profile /\ d.state = Cancelled
         /\ d.revision = c.revision + 1
         /\ d.materials = c.materials /\ d.requirementStates = c.requirementStates
         /\ d.createdAt = c.createdAt /\ d.updatedAt = now
         /\ d.activatedAt = c.activatedAt /\ d.cancelledAt = now
BY DEF CancelledCase, Case

\* (addProtocolizationCaseMaterial)
LEMMA WithMaterialFields ==
  ASSUME NEW c \in Case, NEW m 
  PROVE  LET d == WithMaterial(c, m) IN
         /\ d.tenantId = c.tenantId /\ d.caseId = c.caseId
         /\ d.profile = c.profile /\ d.state = c.state
         /\ d.revision = c.revision + 1
         /\ d.materials = c.materials \cup {m}
         /\ d.requirementStates =
              Correlate(c.requirementStates, m.requirementIds, m.materialId, m.addedAt)
         /\ d.createdAt = c.createdAt /\ d.updatedAt = m.addedAt
         /\ d.activatedAt = c.activatedAt /\ d.cancelledAt = c.cancelledAt
BY DEF WithMaterial, Case

\* (associateProtocolizationCaseMaterial)
LEMMA WithAssociationFields ==
  ASSUME NEW c \in Case, NEW m, NEW rs, NEW now
  PROVE  LET d == WithAssociation(c, m, rs, now) IN
         /\ d.tenantId = c.tenantId /\ d.caseId = c.caseId
         /\ d.profile = c.profile /\ d.state = c.state
         /\ d.revision = c.revision + 1
         /\ d.materials =
              (c.materials \ {m}) \cup {[m EXCEPT !.requirementIds = @ \cup rs]}
         /\ d.requirementStates = Correlate(c.requirementStates, rs, m.materialId, now)
         /\ d.createdAt = c.createdAt /\ d.updatedAt = now
         /\ d.activatedAt = c.activatedAt /\ d.cancelledAt = c.cancelledAt
BY DEF WithAssociation, Case

\* Associating more requirements leaves the rest of a material alone.
LEMMA AssociatedMaterialFields ==
  ASSUME NEW m \in Material, NEW rs
  PROVE  LET n == [m EXCEPT !.requirementIds = @ \cup rs] IN
         /\ n.materialId = m.materialId /\ n.kind = m.kind /\ n.ref = m.ref
         /\ n.addedAt = m.addedAt
         /\ n.requirementIds = m.requirementIds \cup rs
BY DEF Material

\* correlate() changes the targeted requirement states and no other.
LEMMA CorrelateAt ==
  ASSUME NEW states, NEW rs, NEW id, NEW now, NEW r \in Requirements
  PROVE  /\ r \notin rs => Correlate(states, rs, id, now)[r] = states[r]
         /\ r \in rs =>
              LET s == Correlate(states, rs, id, now)[r] IN
              /\ s.materialStatus = MaterialPresent
              /\ s.materialIds = states[r].materialIds \cup {id}
              /\ s.firstMaterialAt = IF states[r].firstMaterialAt = NoTime
                               THEN now ELSE states[r].firstMaterialAt
              /\ s.updatedAt = now
BY DEF Correlate

-----------------------------------------------------------------------------
(* Types *)

\* A new case is a case.
LEMMA CreatedCaseType ==
  ASSUME NEW t \in Tenants, NEW id \in CaseIds, NEW p \in Profiles, NEW now \in Times
  PROVE  CreatedCase(t, id, p, now) \in Case
BY DEF CreatedCase, Case, CaseStates, RequirementState, Draft, Pending, NoTime

\* An activated case is a case.
LEMMA ActivatedCaseType ==
  ASSUME NEW c \in Case, NEW now \in Times
  PROVE  ActivatedCase(c, now) \in Case
<1>1. c.revision + 1 \in Nat \ {0}
  BY DEF Case
<1>2. Active \in CaseStates
  BY DEF CaseStates
<1> QED BY <1>1, <1>2 DEF ActivatedCase, Case

\* A cancelled case is a case.
LEMMA CancelledCaseType ==
  ASSUME NEW c \in Case, NEW now \in Times
  PROVE  CancelledCase(c, now) \in Case
<1>1. c.revision + 1 \in Nat \ {0}
  BY DEF Case
<1>2. Cancelled \in CaseStates
  BY DEF CaseStates
<1> QED BY <1>1, <1>2 DEF CancelledCase, Case

\* The requirements an operation targets are projected, so each has a state.
LEMMA KnownRequirementsHaveStates ==
  ASSUME NEW c \in Case, NEW rs, KnownRequirements(c, rs)
  PROVE  /\ rs \in SUBSET Requirements
         /\ \A r \in rs : c.requirementStates[r] \in RequirementState
BY DEF KnownRequirements, Projected, Case

\* A correlated requirement state is a requirement state.
LEMMA CorrelatedStateType ==
  ASSUME NEW states, NEW rs \in SUBSET Requirements, NEW id \in MaterialIds,
         NEW now \in Times, NEW r \in rs, states[r] \in RequirementState
  PROVE  Correlate(states, rs, id, now)[r] \in RequirementState
BY DEF Correlate, RequirementState, MaterialPresent

\* Correlating keeps the type of the requirement states.
LEMMA CorrelateType ==
  ASSUME NEW states \in [Requirements -> RequirementState \cup {NotProjected}],
         NEW rs \in SUBSET Requirements, NEW id \in MaterialIds, NEW now \in Times,
         \A r \in rs : states[r] \in RequirementState
  PROVE  Correlate(states, rs, id, now)
           \in [Requirements -> RequirementState \cup {NotProjected}]
BY DEF Correlate, RequirementState, MaterialPresent

\* A case with one more material is a case.
LEMMA WithMaterialType ==
  ASSUME NEW c \in Case, NEW m \in Material, KnownRequirements(c, m.requirementIds)
  PROVE  WithMaterial(c, m) \in Case
<1>1. Correlate(c.requirementStates, m.requirementIds, m.materialId, m.addedAt)
        \in [Requirements -> RequirementState \cup {NotProjected}]
  <2>1. c.requirementStates \in [Requirements -> RequirementState \cup {NotProjected}]
    BY DEF Case
  <2>2. m.materialId \in MaterialIds /\ m.addedAt \in Times
    BY DEF Material
  <2>3. /\ m.requirementIds \in SUBSET Requirements
        /\ \A r \in m.requirementIds : c.requirementStates[r] \in RequirementState
    BY KnownRequirementsHaveStates
  <2> QED BY <2>1, <2>2, <2>3, CorrelateType
<1>2. m.addedAt \in Times 
  BY DEF Material
<1>3. c.materials \cup {m} \in SUBSET Material
  BY DEF Case
<1>4. c.revision + 1 \in Nat \ {0}
  BY DEF Case
<1> QED BY <1>1, <1>2, <1>3, <1>4 DEF WithMaterial, Case

\* A case with one more association is a case.
LEMMA WithAssociationType ==
  ASSUME NEW c \in Case, NEW m \in c.materials, NEW rs, NEW now \in Times,
         KnownRequirements(c, rs)
  PROVE  WithAssociation(c, m, rs, now) \in Case
<1>1. m \in Material
  BY DEF Case
<1>2. [m EXCEPT !.requirementIds = @ \cup rs] \in Material
  <2>1. m.requirementIds \cup rs \in SUBSET Requirements
    BY <1>1, KnownRequirementsHaveStates DEF Material
  <2> QED BY <1>1, <2>1 DEF Material
<1>3. Correlate(c.requirementStates, rs, m.materialId, now)
        \in [Requirements -> RequirementState \cup {NotProjected}]
  <2>1. c.requirementStates \in [Requirements -> RequirementState \cup {NotProjected}]
    BY DEF Case
  <2>2. m.materialId \in MaterialIds 
    BY <1>1 DEF Material
  <2> QED BY <2>1, <2>2, CorrelateType, KnownRequirementsHaveStates
<1>4. (c.materials \ {m}) \cup {[m EXCEPT !.requirementIds = @ \cup rs]} \in SUBSET Material
  BY <1>2 DEF Case
<1>5. c.revision + 1 \in Nat \ {0}
  BY DEF Case
<1> QED BY <1>2, <1>3, <1>4, <1>5 DEF WithAssociation, Case

-----------------------------------------------------------------------------
(* The validator accepts what the operations produce *)

\* Correlating known requirements projects no requirement and drops none.
LEMMA CorrelateProjected ==
  ASSUME NEW c \in Case, NEW rs, KnownRequirements(c, rs), NEW id \in MaterialIds,
         NEW now \in Times, NEW d,
         d.requirementStates = Correlate(c.requirementStates, rs, id, now)
  PROVE  Projected(d) = Projected(c)
<1>1. ASSUME NEW r \in Requirements
      PROVE  d.requirementStates[r] # NotProjected <=> c.requirementStates[r] # NotProjected
  <2>1. CASE r \notin rs
    BY <2>1, CorrelateAt
  <2>2. CASE r \in rs
    <3>1. c.requirementStates[r] \in RequirementState
      BY <2>2, KnownRequirementsHaveStates
    <3>2. d.requirementStates[r] \in RequirementState
      BY <2>2, <3>1, KnownRequirementsHaveStates, CorrelatedStateType
    <3> QED BY <3>1, <3>2, SentinelAssumption
  <2> QED BY <2>1, <2>2
<1> QED BY <1>1 DEF Projected

\* Correlating keeps the status and first-material projections in step.
LEMMA CorrelateConsistent ==
  ASSUME NEW c \in Case, NEW rs, KnownRequirements(c, rs), NEW id \in MaterialIds,
         NEW now \in Times, NEW d, RequirementStatesConsistent(c),
         d.requirementStates = Correlate(c.requirementStates, rs, id, now)
  PROVE  RequirementStatesConsistent(d)
<1> SUFFICES ASSUME NEW r \in Projected(d)
             PROVE  LET s == d.requirementStates[r] IN
                    /\ (s.materialStatus = Pending) <=> (s.materialIds = {})
                    /\ (s.firstMaterialAt = NoTime) <=> (s.materialIds = {})
  BY DEF RequirementStatesConsistent
<1>1. r \in Requirements /\ r \in Projected(c)
  BY CorrelateProjected DEF Projected
<1>2. CASE r \notin rs
  BY <1>1, <1>2, CorrelateAt DEF RequirementStatesConsistent
<1>3. CASE r \in rs
  <2>1. /\ d.requirementStates[r].materialStatus = MaterialPresent
        /\ d.requirementStates[r].materialIds # {}
        /\ d.requirementStates[r].firstMaterialAt # NoTime
    BY <1>1, <1>3, CorrelateAt DEF Times, NoTime
  <2> QED BY <2>1 DEF MaterialPresent, Pending
<1> QED BY <1>2, <1>3

\* createProtocolizationCase returns a case its validator accepts.
LEMMA CreatedCaseWellFormed ==
  ASSUME NEW t, NEW id, NEW p, NEW now \in Times
  PROVE  WellFormed(CreatedCase(t, id, p, now))
<1> DEFINE c == CreatedCase(t, id, p, now)
<1>1. /\ c.state = Draft /\ c.materials = {} /\ c.createdAt = now
      /\ c.updatedAt = now /\ c.activatedAt = NoTime /\ c.cancelledAt = NoTime
  BY DEF CreatedCase
<1>2. now \in Nat
  BY DEF Times
<1>3. TimestampsConsistent(c)
  BY <1>1, <1>2 DEF TimestampsConsistent, Draft, Active, Cancelled
<1>4. MaterialIdsUnique(c)
  BY <1>1 DEF MaterialIdsUnique
<1>5. ASSUME NEW r \in Projected(c)
      PROVE  /\ c.requirementStates[r].materialStatus = Pending
             /\ c.requirementStates[r].materialIds = {}
             /\ c.requirementStates[r].firstMaterialAt = NoTime
  BY DEF Projected, CreatedCase
<1>6. RequirementStatesConsistent(c) /\ Correlated(c)
  BY <1>1, <1>5 DEF RequirementStatesConsistent, Correlated
<1> QED BY <1>3, <1>4, <1>6 DEF WellFormed

\* activateProtocolizationCase returns a case its validator accepts.
LEMMA ActivatedCaseWellFormed ==
  ASSUME NEW c \in Case, NEW t, NEW now \in Times, CanActivate(c, t, now)
  PROVE  WellFormed(ActivatedCase(c, now))
<1> DEFINE d == ActivatedCase(c, now)
<1>1. /\ d.state = Active /\ d.materials = c.materials
      /\ d.requirementStates = c.requirementStates
      /\ d.createdAt = c.createdAt /\ d.updatedAt = now
      /\ d.activatedAt = now /\ d.cancelledAt = c.cancelledAt
  BY ActivatedFields
<1>2. /\ WellFormed(c) /\ c.updatedAt <= now
      /\ <<c.state, Active>> \in AllowedTransitions
  BY DEF CanActivate, Operable, ClockNotBefore
<1>3. /\ c.createdAt \in Nat /\ c.updatedAt \in Nat /\ now \in Nat /\ now # NoTime
  BY DEF Case, Times, NoTime
<1>4. c.state # Cancelled
  BY <1>2 DEF AllowedTransitions, Draft, Active, Cancelled
<1>5. TimestampsConsistent(d)
  BY <1>1, <1>2, <1>3, <1>4 DEF TimestampsConsistent, WellFormed, Draft, Active, Cancelled
<1>6. Projected(d) = Projected(c)
  BY <1>1 DEF Projected
<1>7. MaterialIdsUnique(d) /\ RequirementStatesConsistent(d) /\ Correlated(d)
  BY <1>1, <1>2, <1>6
     DEF WellFormed, MaterialIdsUnique, RequirementStatesConsistent, Correlated
<1> QED BY <1>5, <1>7 DEF WellFormed

\* cancelProtocolizationCase returns a case its validator accepts.
LEMMA CancelledCaseWellFormed ==
  ASSUME NEW c \in Case, NEW t, NEW now \in Times, CanCancel(c, t, now)
  PROVE  WellFormed(CancelledCase(c, now))
<1> DEFINE d == CancelledCase(c, now)
<1>1. /\ d.state = Cancelled /\ d.materials = c.materials
      /\ d.requirementStates = c.requirementStates
      /\ d.createdAt = c.createdAt /\ d.updatedAt = now
      /\ d.activatedAt = c.activatedAt /\ d.cancelledAt = now
  BY CancelledFields
<1>2. /\ WellFormed(c) /\ c.updatedAt <= now
      /\ <<c.state, Cancelled>> \in AllowedTransitions
  BY DEF CanCancel, Operable, ClockNotBefore
<1>3. /\ c.createdAt \in Nat /\ c.updatedAt \in Nat /\ now \in Nat /\ now # NoTime
  BY DEF Case, Times, NoTime
<1>4. c.state # Cancelled
  BY <1>2 DEF AllowedTransitions, Draft, Active, Cancelled
<1>5. TimestampsConsistent(d)
  BY <1>1, <1>2, <1>3, <1>4 DEF TimestampsConsistent, WellFormed, Draft, Active, Cancelled
<1>6. Projected(d) = Projected(c)
  BY <1>1 DEF Projected
<1>7. MaterialIdsUnique(d) /\ RequirementStatesConsistent(d) /\ Correlated(d)
  BY <1>1, <1>2, <1>6
     DEF WellFormed, MaterialIdsUnique, RequirementStatesConsistent, Correlated
<1> QED BY <1>5, <1>7 DEF WellFormed

\* addProtocolizationCaseMaterial returns a case its validator accepts.
LEMMA WithMaterialWellFormed ==
  ASSUME NEW c \in Case, NEW t, NEW m \in Material, CanAddMaterial(c, t, m)
  PROVE  WellFormed(WithMaterial(c, m))
<1> DEFINE d == WithMaterial(c, m)
           rs == m.requirementIds
<1> USE DEF MaterialIdsOf
<1>1. /\ d.state = c.state /\ d.materials = c.materials \cup {m}
      /\ d.requirementStates = Correlate(c.requirementStates, rs, m.materialId, m.addedAt)
      /\ d.createdAt = c.createdAt /\ d.updatedAt = m.addedAt
      /\ d.activatedAt = c.activatedAt /\ d.cancelledAt = c.cancelledAt
  BY WithMaterialFields
<1>2. /\ WellFormed(c) /\ c.updatedAt <= m.addedAt
      /\ m.materialId \notin MaterialIdsOf(c) /\ KnownRequirements(c, rs)
  BY DEF CanAddMaterial, Operable, ClockNotBefore
<1>3. /\ c.createdAt \in Nat /\ c.updatedAt \in Nat /\ m.addedAt \in Nat /\ m.addedAt \in Times
      /\ c.materials \subseteq Material
      /\ m.requirementIds \subseteq Requirements /\ m.materialId \in MaterialIds
  BY DEF Case, Material, Times
<1>4. \A r \in rs : r \in Requirements /\ c.requirementStates[r] # NotProjected /\ r \in Projected(c)
  BY <1>2 DEF KnownRequirements, Projected
<1>5. Projected(d) = Projected(c)
  BY <1>1, <1>2, <1>3, CorrelateProjected
<1>6. TimestampsConsistent(d)
  BY <1>1, <1>2, <1>3 DEF TimestampsConsistent, WellFormed
<1>7. MaterialIdsUnique(d)
  BY <1>1, <1>2 DEF MaterialIdsUnique, WellFormed
<1>8. RequirementStatesConsistent(d)
  BY <1>1, <1>2, <1>3, CorrelateConsistent DEF WellFormed
<1>9. Correlated(d)
  <2>1. \A n \in d.materials : n.requirementIds # {} /\ n.requirementIds \subseteq Projected(d)
    BY <1>1, <1>2, <1>4, <1>5 DEF WellFormed, Correlated, KnownRequirements
  <2>2. ASSUME NEW n \in d.materials, NEW r \in n.requirementIds
        PROVE  n.materialId \in d.requirementStates[r].materialIds
    <3>1. r \in Requirements
      BY <2>2, <1>1, <1>3 DEF Material
    <3>2. CASE n = m
      BY <3>1, <3>2, <2>2, <1>1, CorrelateAt
    <3>3. CASE n \in c.materials
      <4>1. n.materialId \in c.requirementStates[r].materialIds
        BY <3>3, <1>2, <2>2 DEF WellFormed, Correlated
      <4> QED BY <4>1, <3>1, <1>1, CorrelateAt
    <3> QED BY <3>2, <3>3, <2>2, <1>1
  <2>3. ASSUME NEW r \in Projected(d), NEW id \in d.requirementStates[r].materialIds
        PROVE  \E n \in d.materials : n.materialId = id /\ r \in n.requirementIds
    <3>1. r \in Requirements /\ r \in Projected(c)
      BY <1>5 DEF Projected
    <3>2. CASE id \in c.requirementStates[r].materialIds
      BY <3>1, <3>2, <1>1, <1>2 DEF WellFormed, Correlated
    <3>3. CASE id \notin c.requirementStates[r].materialIds
      <4>1. r \in rs /\ id = m.materialId
        BY <3>1, <3>3, <2>3, <1>1, CorrelateAt
      <4> QED BY <4>1, <1>1
    <3> QED BY <3>2, <3>3
  <2> QED BY <2>1, <2>2, <2>3 DEF Correlated
<1> QED BY <1>6, <1>7, <1>8, <1>9 DEF WellFormed

\* associateProtocolizationCaseMaterial returns a case its validator accepts.
LEMMA WithAssociationWellFormed ==
  ASSUME NEW c \in Case, NEW t, NEW m \in Material, NEW rs, NEW now \in Times,
         CanAssociate(c, t, m, rs, now)
  PROVE  WellFormed(WithAssociation(c, m, rs, now))
<1> DEFINE d == WithAssociation(c, m, rs, now)
           n == [m EXCEPT !.requirementIds = @ \cup rs]
<1>1. /\ d.state = c.state /\ d.materials = (c.materials \ {m}) \cup {n}
      /\ d.requirementStates = Correlate(c.requirementStates, rs, m.materialId, now)
      /\ d.createdAt = c.createdAt /\ d.updatedAt = now
      /\ d.activatedAt = c.activatedAt /\ d.cancelledAt = c.cancelledAt
  BY WithAssociationFields
<1>2. /\ WellFormed(c) /\ c.updatedAt <= now /\ m \in c.materials
      /\ KnownRequirements(c, rs)
  BY DEF CanAssociate, Operable, ClockNotBefore
<1>3. /\ c.createdAt \in Nat /\ c.updatedAt \in Nat /\ now \in Nat
      /\ c.materials \subseteq Material /\ m.materialId \in MaterialIds
  BY DEF Case, Material, Times
<1>4. /\ n.materialId = m.materialId /\ n.addedAt = m.addedAt
      /\ n.requirementIds = m.requirementIds \cup rs
  BY AssociatedMaterialFields
<1> HIDE DEF n
<1>5. Projected(d) = Projected(c)
  BY <1>1, <1>2, <1>3, CorrelateProjected
<1>6. TimestampsConsistent(d)
  BY <1>1, <1>2, <1>3, <1>4 DEF TimestampsConsistent, WellFormed
<1>7. MaterialIdsUnique(d)
  BY <1>1, <1>2, <1>4 DEF MaterialIdsUnique, WellFormed
<1>8. RequirementStatesConsistent(d)
  BY <1>1, <1>2, <1>3, CorrelateConsistent DEF WellFormed
<1>9. Correlated(d)
  <2>1. \A o \in d.materials : o.requirementIds # {} /\ o.requirementIds \subseteq Projected(d)
    BY <1>1, <1>2, <1>4, <1>5 DEF WellFormed, Correlated, KnownRequirements
  <2>2. ASSUME NEW o \in d.materials, NEW r \in o.requirementIds
        PROVE  o.materialId \in d.requirementStates[r].materialIds
    <3>1. r \in Requirements
      BY <2>1, <2>2 DEF Projected
    <3>2. CASE r \in rs /\ o = n
      BY <3>1, <3>2, <1>1, <1>4, CorrelateAt
    <3>3. CASE ~(r \in rs /\ o = n)
      <4>1. o.materialId \in c.requirementStates[r].materialIds
        BY <3>3, <1>1, <1>2, <1>4, <2>2 DEF WellFormed, Correlated
      <4> QED BY <4>1, <3>1, <1>1, CorrelateAt
    <3> QED BY <3>2, <3>3
  <2>3. ASSUME NEW r \in Projected(d), NEW id \in d.requirementStates[r].materialIds
        PROVE  \E o \in d.materials : o.materialId = id /\ r \in o.requirementIds
    <3>1. r \in Requirements /\ r \in Projected(c)
      BY <1>5 DEF Projected
    <3>2. CASE id \in c.requirementStates[r].materialIds
      <4>1. PICK o \in c.materials : o.materialId = id /\ r \in o.requirementIds
        BY <3>1, <3>2, <1>2 DEF WellFormed, Correlated
      <4>2. CASE o = m
        BY <4>1, <4>2, <1>1, <1>4
      <4>3. CASE o # m
        BY <4>1, <4>3, <1>1
      <4> QED BY <4>2, <4>3
    <3>3. CASE id \notin c.requirementStates[r].materialIds
      <4>1. r \in rs /\ id = m.materialId
        BY <3>1, <3>3, <2>3, <1>1, CorrelateAt
      <4> QED BY <4>1, <1>1, <1>4
    <3> QED BY <3>2, <3>3
  <2> QED BY <2>1, <2>2, <2>3 DEF Correlated
<1> QED BY <1>6, <1>7, <1>8, <1>9 DEF WellFormed

=============================================================================
