--------------------- MODULE ProtocolizationCaseProofs ----------------------
(***************************************************************************)
(* Proofs about the case repository and its writers, for any number of     *)
(* writers, tenants, cases and materials and any clocks.                   *)
(***************************************************************************)
EXTENDS ProtocolizationCase, CaseAggregateProofs

-----------------------------------------------------------------------------
(* The instants a case records *)

\* A new case is timely.
LEMMA CreatedTimely ==
  ASSUME NEW t, NEW id, NEW p, NEW now \in Times
  PROVE  Timely(CreatedCase(t, id, p, now))
<1> DEFINE c == CreatedCase(t, id, p, now)
<1>1. /\ c.materials = {} /\ c.createdAt = now /\ c.updatedAt = now
      /\ c.activatedAt = NoTime /\ c.cancelledAt = NoTime
  BY DEF CreatedCase
<1>2. ASSUME NEW r \in Projected(c)
      PROVE  /\ c.requirementStates[r].materialIds = {}
             /\ c.requirementStates[r].updatedAt = now
  BY DEF Projected, CreatedCase
<1>3. now \in now..now
  BY DEF Times
<1> QED BY <1>1, <1>2, <1>3 DEF Timely

\* A later change of the lifecycle leaves a timely case timely.
LEMMA LifecycleTimely ==
  ASSUME NEW c \in Case, WellFormed(c), Timely(c), NEW now \in Times,
         c.updatedAt <= now, NEW d,
         d.materials = c.materials, d.requirementStates = c.requirementStates,
         d.createdAt = c.createdAt, d.updatedAt = now,
         d.activatedAt \in {c.activatedAt, now},
         d.cancelledAt # NoTime => d.cancelledAt = now
  PROVE  Timely(d)
<1>1. /\ c.createdAt \in Nat /\ c.updatedAt \in Nat /\ now \in Nat
      /\ c.createdAt <= c.updatedAt
  BY DEF Case, Times, WellFormed, TimestampsConsistent
<1>2. \A i \in c.createdAt..c.updatedAt : i \in d.createdAt..d.updatedAt
  BY <1>1
<1>3. d.activatedAt # NoTime => d.activatedAt \in d.createdAt..d.updatedAt
  BY <1>1, <1>2 DEF Timely
<1>4. Projected(d) = Projected(c)
  BY DEF Projected
<1> QED BY <1>2, <1>3, <1>4 DEF Timely

\* What correlate() leaves timely: a case that gains, at instant now, the
\* association of material id with known requirements keeps its requirement
\* states in order, when every old material is still there under its own
\* identifier and instant, and material id is.
LEMMA CorrelateTimely ==
  ASSUME NEW c \in Case, WellFormed(c), Timely(c), NEW now \in Times,
         c.updatedAt <= now, NEW rs, KnownRequirements(c, rs),
         NEW id \in MaterialIds, NEW d,
         d.requirementStates = Correlate(c.requirementStates, rs, id, now),
         d.createdAt = c.createdAt, d.updatedAt = now,
         \A m \in c.materials : \E n \in d.materials :
           n.materialId = m.materialId /\ n.addedAt = m.addedAt,
         \E n \in d.materials : n.materialId = id /\ n.addedAt <= now,
         NEW r \in Projected(d)
  PROVE  LET s == d.requirementStates[r] IN
         /\ s.updatedAt \in d.createdAt..d.updatedAt
         /\ s.materialIds # {} =>
              /\ s.firstMaterialAt <= s.updatedAt
              /\ \E m \in d.materials : /\ m.materialId \in s.materialIds
                                       /\ m.addedAt <= s.firstMaterialAt
<1> DEFINE s == d.requirementStates[r]
           o == c.requirementStates[r]
<1>1. /\ c.createdAt \in Nat /\ c.updatedAt \in Nat /\ now \in Nat
      /\ c.createdAt <= c.updatedAt
  BY DEF Case, Times, WellFormed, TimestampsConsistent
<1>2. r \in Requirements /\ r \in Projected(c)
  BY CorrelateProjected DEF Projected
<1>3. o \in RequirementState
  BY <1>2 DEF Projected, Case
<1>4. /\ o.updatedAt \in c.createdAt..c.updatedAt
      /\ o.materialIds # {} =>
           /\ o.firstMaterialAt <= o.updatedAt
           /\ \E m \in c.materials : /\ m.materialId \in o.materialIds
                                    /\ m.addedAt <= o.firstMaterialAt
      /\ (o.firstMaterialAt = NoTime) <=> (o.materialIds = {})
  BY <1>2 DEF Timely, WellFormed, RequirementStatesConsistent
<1>5. CASE r \notin rs
  <2>1. s = o
    BY <1>2, <1>5, CorrelateAt
  <2> QED BY <2>1, <1>1, <1>4
<1>6. CASE r \in rs
  <2>1. /\ s.updatedAt = now /\ s.materialIds = o.materialIds \cup {id}
        /\ s.firstMaterialAt = IF o.firstMaterialAt = NoTime
                               THEN now ELSE o.firstMaterialAt
    BY <1>2, <1>6, CorrelateAt
  <2>2. s.updatedAt \in d.createdAt..d.updatedAt
    BY <2>1, <1>1
  <2>3. CASE o.firstMaterialAt = NoTime
    BY <2>1, <2>2, <2>3, <1>1
  <2>4. CASE o.firstMaterialAt # NoTime
    <3>1. PICK m \in c.materials : /\ m.materialId \in o.materialIds
                                   /\ m.addedAt <= o.firstMaterialAt
      BY <2>4, <1>4
    <3>2. s.firstMaterialAt = o.firstMaterialAt /\ o.firstMaterialAt <= o.updatedAt
      BY <2>1, <2>4, <1>4
    <3>3. o.firstMaterialAt <= now
      BY <3>2, <1>1, <1>3, <1>4 DEF RequirementState, Times, NoTime
    <3> QED BY <3>1, <3>2, <3>3, <2>1, <2>2
  <2> QED BY <2>3, <2>4
<1> QED BY <1>5, <1>6

\* A case that gains a material or an association stays timely.
LEMMA MaterialTimely ==
  ASSUME NEW c \in Case, WellFormed(c), Timely(c), NEW now \in Times,
         c.updatedAt <= now, c.state # Cancelled,
         NEW rs, KnownRequirements(c, rs), NEW id \in MaterialIds, NEW d,
         d.requirementStates = Correlate(c.requirementStates, rs, id, now),
         d.createdAt = c.createdAt, d.updatedAt = now,
         d.activatedAt = c.activatedAt, d.cancelledAt = c.cancelledAt,
         \A n \in d.materials :
           n.addedAt = now \/ \E m \in c.materials : n.addedAt = m.addedAt,
         \A m \in c.materials : \E n \in d.materials :
           n.materialId = m.materialId /\ n.addedAt = m.addedAt,
         \E n \in d.materials : n.materialId = id
  PROVE  Timely(d)
<1>1. /\ c.createdAt \in Nat /\ c.updatedAt \in Nat /\ now \in Nat
      /\ c.createdAt <= c.updatedAt /\ c.cancelledAt = NoTime
  BY DEF Case, Times, WellFormed, TimestampsConsistent
<1>2. \A i \in c.createdAt..c.updatedAt : i \in d.createdAt..d.updatedAt /\ i <= now
  BY <1>1
<1>3. \A n \in d.materials : n.addedAt \in d.createdAt..d.updatedAt
  BY <1>1, <1>2 DEF Timely
<1>4. d.activatedAt # NoTime => d.activatedAt \in d.createdAt..d.updatedAt
  BY <1>2 DEF Timely
<1>5. \E n \in d.materials : n.materialId = id /\ n.addedAt <= now
  BY <1>1, <1>3
<1>6. \A r \in Projected(d) :
        LET s == d.requirementStates[r] IN
        /\ s.updatedAt \in d.createdAt..d.updatedAt
        /\ s.materialIds # {} =>
             /\ s.firstMaterialAt <= s.updatedAt
             /\ \E m \in d.materials : /\ m.materialId \in s.materialIds
                                      /\ m.addedAt <= s.firstMaterialAt
  BY <1>5, CorrelateTimely
<1> QED BY <1>1, <1>3, <1>4, <1>6 DEF Timely

-----------------------------------------------------------------------------
(* The ledger's view of one operation *)

Associations(c) == UNION {{m.materialId} \X m.requirementIds : m \in c.materials}

\* An entry after one more operation.
Recorded(e, state, associations) ==
  [profile |-> e.profile, state |-> state, revision |-> e.revision + 1,
   associations |-> e.associations \cup associations]

\* Entry f follows entry e by one of the ledger's operations.
OneOperation(e, f) ==
  \/ e.state = Draft /\ f = Recorded(e, Active, {})
  \/ e.state # Cancelled /\ f = Recorded(e, Cancelled, {})
  \/ /\ e.state # Cancelled
     /\ \E id \in MaterialIds, rs \in SUBSET Requirements :
          /\ rs # {}
          /\ \A r \in rs : <<id, r>> \notin e.associations
          /\ f = Recorded(e, e.state, {id} \X rs)

\* A stored case is an open entry of the ledger.
LEMMA LedgerOfCase ==
  ASSUME NEW c \in Case
  PROVE  /\ LedgerOf(c) = [profile |-> c.profile, state |-> c.state,
                           revision |-> c.revision, associations |-> Associations(c)]
         /\ LedgerOf(c) \in Ledger!Entry
         /\ LedgerOf(c) # NoCase
<1>1. c # NoCase
  BY SentinelAssumption
<1>2. LedgerOf(c) = [profile |-> c.profile, state |-> c.state,
                     revision |-> c.revision, associations |-> Associations(c)]
  BY <1>1 DEF LedgerOf, Associations
<1>3. Associations(c) \in SUBSET (MaterialIds \X Requirements)
  <2>1. ASSUME NEW x \in Associations(c)
        PROVE  x \in MaterialIds \X Requirements
    <3>1. PICK m \in c.materials : x \in {m.materialId} \X m.requirementIds
      BY <2>1 DEF Associations
    <3>2. m.materialId \in MaterialIds /\ m.requirementIds \subseteq Requirements
      BY DEF Case, Material
    <3> QED BY <3>1, <3>2
  <2> QED BY <2>1
<1>4. c.profile \in Profiles /\ c.state \in CaseStates /\ c.revision \in Nat \ {0}
  BY DEF Case
<1>5. LedgerOf(c) \in Ledger!Entry
  BY <1>2, <1>3, <1>4 DEF Ledger!Entry, CaseStates, Draft, Active, Cancelled,
                          Ledger!Draft, Ledger!Active, Ledger!Cancelled
<1> QED BY <1>2, <1>5, ClosedAssumption

\* A case one revision later, with some more associations, is the entry
\* with one more operation recorded.
LEMMA LedgerRecords ==
  ASSUME NEW c \in Case, NEW d \in Case, NEW as,
         d.profile = c.profile, d.revision = c.revision + 1,
         Associations(d) = Associations(c) \cup as
  PROVE  LedgerOf(d) = Recorded(LedgerOf(c), d.state, as)
<1>1. LedgerOf(c) = [profile |-> c.profile, state |-> c.state,
                     revision |-> c.revision, associations |-> Associations(c)]
  BY LedgerOfCase
<1>2. LedgerOf(d) = [profile |-> c.profile, state |-> d.state,
                     revision |-> c.revision + 1,
                     associations |-> Associations(c) \cup as]
  BY LedgerOfCase
<1> QED BY <1>1, <1>2 DEF Recorded

\* A new material brings its own associations.
LEMMA AssociationsWithMaterial ==
  ASSUME NEW c, NEW m, NEW d, d.materials = c.materials \cup {m}
  PROVE  Associations(d) = Associations(c) \cup ({m.materialId} \X m.requirementIds)
BY DEF Associations

\* Associating a material adds its new associations and keeps the old ones.
LEMMA AssociationsWithAssociation ==
  ASSUME NEW c \in Case, NEW m \in Material, m \in c.materials, NEW rs, NEW now
  PROVE  Associations(WithAssociation(c, m, rs, now))
           = Associations(c) \cup ({m.materialId} \X rs)
<1> DEFINE d == WithAssociation(c, m, rs, now)
           n == [m EXCEPT !.requirementIds = @ \cup rs]
<1>0. /\ d.materials = (c.materials \ {m}) \cup {n}
      /\ n.materialId = m.materialId /\ n.requirementIds = m.requirementIds \cup rs
  BY WithAssociationFields, AssociatedMaterialFields
<1> HIDE DEF d, n
<1>1. ASSUME NEW x \in Associations(d)
      PROVE  x \in Associations(c) \cup ({m.materialId} \X rs)
  BY <1>0, <1>1 DEF Associations
<1>2. ASSUME NEW x \in Associations(c) \cup ({m.materialId} \X rs)
      PROVE  x \in Associations(d)
  <2>1. CASE x \in {n.materialId} \X n.requirementIds
    BY <1>0, <2>1 DEF Associations
  <2>2. CASE \E o \in c.materials : o # m /\ x \in {o.materialId} \X o.requirementIds
    BY <1>0, <2>2 DEF Associations
  <2> QED BY <1>0, <1>2, <2>1, <2>2 DEF Associations
<1> QED BY <1>1, <1>2 DEF d

-----------------------------------------------------------------------------
(* One step of one writer, as a change of the copy it holds *)

\* A copy the aggregate's operations make from another: one revision later,
\* still of the same key, accepted by the validator, timely if the other was,
\* not made from a cancelled case, and to the ledger one operation further.
Follows(c, d) ==
  /\ d \in Case
  /\ WellFormed(d)
  /\ d.revision = c.revision + 1
  /\ StorageKey(d) = StorageKey(c)
  /\ d.tenantId = c.tenantId
  /\ c.state # Cancelled
  /\ Preserves(c, d)
  /\ Timely(c) => Timely(d)
  /\ OneOperation(LedgerOf(c), LedgerOf(d))

\* activateProtocolizationCase makes such a copy.
LEMMA ActivatedFollows ==
  ASSUME NEW c \in Case, NEW t, NEW now \in Times, CanActivate(c, t, now)
  PROVE  Follows(c, ActivatedCase(c, now))
<1> DEFINE d == ActivatedCase(c, now)
<1>1. /\ d.tenantId = c.tenantId /\ d.caseId = c.caseId /\ d.profile = c.profile
      /\ d.revision = c.revision + 1 /\ d.materials = c.materials
      /\ d.createdAt = c.createdAt /\ d.updatedAt = now /\ d.activatedAt = now
      /\ d.cancelledAt = c.cancelledAt /\ d.state = Active
      /\ d.requirementStates = c.requirementStates
  BY ActivatedFields
<1>2. d \in Case /\ WellFormed(d)
  BY ActivatedCaseType, ActivatedCaseWellFormed
<1>3. /\ c.updatedAt <= now /\ c.activatedAt = NoTime /\ c.cancelledAt = NoTime
      /\ c.state = Draft /\ c.state # Cancelled /\ WellFormed(c)
  <2>1. WellFormed(c) /\ <<c.state, Active>> \in AllowedTransitions /\ c.updatedAt <= now
    BY DEF CanActivate, Operable, ClockNotBefore
  <2>2. c.state = Draft
    BY <2>1 DEF AllowedTransitions, Draft, Active, Cancelled
  <2> QED BY <2>1, <2>2 DEF WellFormed, TimestampsConsistent, Draft, Cancelled
<1>4. Preserves(c, d)
  BY <1>1, <1>3 DEF Preserves
<1> HIDE DEF d
<1>5. Timely(c) => Timely(d)
  BY <1>1, <1>3, LifecycleTimely
<1>6. OneOperation(LedgerOf(c), LedgerOf(d))
  <2>1. Associations(d) = Associations(c) \cup {}
    BY <1>1 DEF Associations
  <2>2. LedgerOf(d) = Recorded(LedgerOf(c), Active, {})
    BY <1>1, <1>2, <2>1, LedgerRecords
  <2> QED BY <1>3, <2>2, LedgerOfCase DEF OneOperation
<1> QED BY <1>1, <1>2, <1>3, <1>4, <1>5, <1>6 DEF d, Follows, StorageKey

\* cancelProtocolizationCase makes such a copy.
LEMMA CancelledFollows ==
  ASSUME NEW c \in Case, NEW t, NEW now \in Times, CanCancel(c, t, now)
  PROVE  Follows(c, CancelledCase(c, now))
<1> DEFINE d == CancelledCase(c, now)
<1>1. /\ d.tenantId = c.tenantId /\ d.caseId = c.caseId /\ d.profile = c.profile
      /\ d.revision = c.revision + 1 /\ d.materials = c.materials
      /\ d.createdAt = c.createdAt /\ d.updatedAt = now
      /\ d.activatedAt = c.activatedAt /\ d.cancelledAt = now /\ d.state = Cancelled
      /\ d.requirementStates = c.requirementStates
  BY CancelledFields
<1>2. d \in Case /\ WellFormed(d)
  BY CancelledCaseType, CancelledCaseWellFormed
<1>3. Preserves(c, d)
  BY <1>1 DEF Preserves, CanCancel, ClockNotBefore
<1>4. c.state # Cancelled /\ c.updatedAt <= now /\ WellFormed(c)
  BY DEF CanCancel, Operable, ClockNotBefore, AllowedTransitions,
         Draft, Active, Cancelled
<1> HIDE DEF d
<1>5. Timely(c) => Timely(d)
  BY <1>1, <1>4, LifecycleTimely
<1>6. OneOperation(LedgerOf(c), LedgerOf(d))
  <2>1. Associations(d) = Associations(c) \cup {}
    BY <1>1 DEF Associations
  <2>2. LedgerOf(d) = Recorded(LedgerOf(c), Cancelled, {})
    BY <1>1, <1>2, <2>1, LedgerRecords
  <2> QED BY <1>4, <2>2, LedgerOfCase DEF OneOperation
<1> QED BY <1>1, <1>2, <1>3, <1>4, <1>5, <1>6 DEF d, Follows, StorageKey

\* addProtocolizationCaseMaterial makes such a copy.
LEMMA WithMaterialFollows ==
  ASSUME NEW c \in Case, NEW t, NEW m \in Material, CanAddMaterial(c, t, m)
  PROVE  Follows(c, WithMaterial(c, m))
<1> DEFINE d == WithMaterial(c, m)
<1>1. /\ d.tenantId = c.tenantId /\ d.caseId = c.caseId /\ d.profile = c.profile
      /\ d.revision = c.revision + 1 /\ d.materials = c.materials \cup {m}
      /\ d.createdAt = c.createdAt /\ d.updatedAt = m.addedAt
      /\ d.activatedAt = c.activatedAt /\ d.cancelledAt = c.cancelledAt
      /\ d.state = c.state
      /\ d.requirementStates = Correlate(c.requirementStates, m.requirementIds,
                                         m.materialId, m.addedAt)
  BY WithMaterialFields
<1>2. /\ KnownRequirements(c, m.requirementIds) /\ c.updatedAt <= m.addedAt
      /\ c.state # Cancelled /\ WellFormed(c) /\ m.materialId \notin MaterialIdsOf(c)
  BY DEF CanAddMaterial, Operable, ClockNotBefore, AcceptsMaterial,
         Draft, Active, Cancelled
<1>3. d \in Case /\ WellFormed(d)
  BY <1>2, WithMaterialType, WithMaterialWellFormed
<1>4. Preserves(c, d)
  BY <1>1, <1>2 DEF Preserves
<1> HIDE DEF d
<1>5. ASSUME Timely(c)
      PROVE  Timely(d)
  <2>1. m.addedAt \in Times /\ m.materialId \in MaterialIds
    BY DEF Material
  <2> QED BY <1>1, <1>2, <1>5, <2>1, MaterialTimely
<1>6. OneOperation(LedgerOf(c), LedgerOf(d))
  <2>1. Associations(d) = Associations(c) \cup ({m.materialId} \X m.requirementIds)
    BY <1>1, AssociationsWithMaterial
  <2>2. LedgerOf(d) = Recorded(LedgerOf(c), c.state, {m.materialId} \X m.requirementIds)
    BY <1>1, <1>3, <2>1, LedgerRecords
  <2>3. \A r \in m.requirementIds : <<m.materialId, r>> \notin Associations(c)
    BY <1>2 DEF Associations, MaterialIdsOf
  <2>4. m.materialId \in MaterialIds /\ m.requirementIds \in SUBSET Requirements
        /\ m.requirementIds # {}
    BY <1>2 DEF Material, KnownRequirements
  <2>5. /\ LedgerOf(c).state = c.state
        /\ LedgerOf(c).associations = Associations(c)
    BY LedgerOfCase
  <2>6. c.state # Cancelled
    BY <1>2
  <2> DEFINE e == LedgerOf(c)
  <2>7. /\ e.state # Cancelled
        /\ \A r \in m.requirementIds : <<m.materialId, r>> \notin e.associations
        /\ LedgerOf(d) = Recorded(e, e.state, {m.materialId} \X m.requirementIds)
    BY <2>2, <2>3, <2>5, <2>6
  <2> HIDE DEF e
  <2> QED BY <2>4, <2>7 DEF e, OneOperation
<1> QED BY <1>1, <1>2, <1>3, <1>4, <1>5, <1>6 DEF d, Follows, StorageKey

\* associateProtocolizationCaseMaterial makes such a copy.
LEMMA WithAssociationFollows ==
  ASSUME NEW c \in Case, NEW t, NEW m \in Material, NEW rs, NEW now \in Times,
         CanAssociate(c, t, m, rs, now)
  PROVE  Follows(c, WithAssociation(c, m, rs, now))
<1> DEFINE d == WithAssociation(c, m, rs, now)
           n == [m EXCEPT !.requirementIds = @ \cup rs]
<1>1. /\ d.tenantId = c.tenantId /\ d.caseId = c.caseId /\ d.profile = c.profile
      /\ d.revision = c.revision + 1 /\ d.materials = (c.materials \ {m}) \cup {n}
      /\ d.createdAt = c.createdAt /\ d.updatedAt = now
      /\ d.activatedAt = c.activatedAt /\ d.cancelledAt = c.cancelledAt
      /\ d.state = c.state
      /\ d.requirementStates = Correlate(c.requirementStates, rs, m.materialId, now)
  BY WithAssociationFields
<1>2. /\ n.materialId = m.materialId /\ n.kind = m.kind /\ n.ref = m.ref
      /\ n.addedAt = m.addedAt /\ n.requirementIds = m.requirementIds \cup rs
  BY AssociatedMaterialFields
<1>3. /\ m \in c.materials /\ KnownRequirements(c, rs) /\ c.updatedAt <= now
      /\ c.state # Cancelled /\ WellFormed(c) /\ rs \cap m.requirementIds = {}
  BY DEF CanAssociate, Operable, ClockNotBefore, AcceptsMaterial,
         Draft, Active, Cancelled
<1>4. d \in Case /\ WellFormed(d)
  BY <1>3, WithAssociationType, WithAssociationWellFormed
<1> HIDE DEF n
<1>5. ASSUME NEW o \in c.materials
      PROVE  \E q \in d.materials :
               /\ q.materialId = o.materialId /\ q.kind = o.kind
               /\ q.ref = o.ref /\ q.addedAt = o.addedAt
               /\ o.requirementIds \subseteq q.requirementIds
  <2>1. CASE o = m
    BY <2>1, <1>1, <1>2
  <2>2. CASE o # m
    BY <2>2, <1>1
  <2> QED BY <2>1, <2>2
<1>6. Preserves(c, d)
  BY <1>1, <1>3, <1>5 DEF Preserves
<1> HIDE DEF d
<1>7. ASSUME Timely(c)
      PROVE  Timely(d)
  <2>1. m.materialId \in MaterialIds
    BY DEF Material
  <2>2. \A q \in d.materials : \E o \in c.materials : q.addedAt = o.addedAt
    BY <1>1, <1>2, <1>3
  <2>3. \E q \in d.materials : q.materialId = m.materialId
    BY <1>1, <1>2
  <2> QED BY <1>1, <1>3, <1>5, <1>7, <2>1, <2>2, <2>3, MaterialTimely
<1>8. OneOperation(LedgerOf(c), LedgerOf(d))
  <2>1. Associations(d) = Associations(c) \cup ({m.materialId} \X rs)
    BY <1>3, AssociationsWithAssociation DEF d
  <2>2. LedgerOf(d) = Recorded(LedgerOf(c), c.state, {m.materialId} \X rs)
    BY <1>1, <1>4, <2>1, LedgerRecords
  <2>3. ASSUME NEW r \in rs
        PROVE  <<m.materialId, r>> \notin Associations(c)
    <3>1. \A o \in c.materials : o.materialId = m.materialId => o = m
      BY <1>3 DEF WellFormed, MaterialIdsUnique
    <3>2. r \notin m.requirementIds
      BY <1>3
    <3> QED BY <3>1, <3>2 DEF Associations
  <2>4. m.materialId \in MaterialIds /\ rs \in SUBSET Requirements /\ rs # {}
    BY <1>3, KnownRequirementsHaveStates DEF Material, KnownRequirements
  <2>5. /\ LedgerOf(c).state = c.state
        /\ LedgerOf(c).associations = Associations(c)
    BY LedgerOfCase
  <2> QED BY <1>3, <2>2, <2>3, <2>4, <2>5 DEF OneOperation
<1> QED BY <1>1, <1>3, <1>4, <1>6, <1>7, <1>8 DEF d, Follows, StorageKey

\* The four operations on a held copy, seen as one: the copy is replaced by
\* one that follows it.
Operate(w) ==
  /\ MayOperate(w)
  /\ \E d \in Case : Follows(held[w], d) /\ Produce(w, d)

\* Each aggregate operation on a writer's copy is such a replacement.
LEMMA OperationsReplace ==
  ASSUME TypeOK, NEW w \in Writers,
         \/ \E now \in Times : Activate(w, now) \/ Cancel(w, now)
         \/ \E m \in Material : AddMaterial(w, m)
         \/ \E id \in MaterialIds, rs \in SUBSET Requirements, now \in Times :
              Associate(w, id, rs, now)
  PROVE  Operate(w)
<1>1. held[w] # NoCase => held[w] \in Case
  BY DEF TypeOK
<1>2. ASSUME NEW now \in Times, Activate(w, now)
      PROVE  Operate(w)
  BY <1>1, <1>2, ActivatedFollows DEF Activate, Operate, MayOperate, Follows
<1>3. ASSUME NEW m \in Material, AddMaterial(w, m)
      PROVE  Operate(w)
  BY <1>1, <1>3, WithMaterialFollows DEF AddMaterial, Operate, MayOperate, Follows
<1>4. ASSUME NEW id \in MaterialIds, NEW rs \in SUBSET Requirements, NEW now \in Times,
             Associate(w, id, rs, now)
      PROVE  Operate(w)
  <2>1. PICK m \in held[w].materials :
          /\ CanAssociate(held[w], TenantOf[w], m, rs, now)
          /\ Produce(w, WithAssociation(held[w], m, rs, now))
    BY <1>4 DEF Associate
  <2>2. MayOperate(w) /\ held[w] \in Case /\ m \in Material
    BY <1>1, <1>4 DEF Associate, MayOperate, Case
  <2> QED BY <2>1, <2>2, WithAssociationFollows DEF Operate, Follows
<1>5. ASSUME NEW now \in Times, Cancel(w, now)
      PROVE  Operate(w)
  BY <1>1, <1>5, CancelledFollows DEF Cancel, Operate, MayOperate, Follows
<1> QED BY <1>2, <1>3, <1>4, <1>5

\* Every step of a writer is a load, a creation, one aggregate operation on
\* its copy, a save or giving up; the five operations differ in nothing else
\* that the invariants can see.
LEMMA OperationsOperate ==
  ASSUME TypeOK, NEW w \in Writers, WriterStep(w)
  PROVE  \/ \E id \in CaseIds : Load(w, id)
         \/ \E id \in CaseIds, p \in Profiles, now \in Times : Create(w, id, p, now)
         \/ Operate(w)
         \/ Save(w)
         \/ Abandon(w)
BY OperationsReplace DEF WriterStep

-----------------------------------------------------------------------------
(* What holds however many operations a writer applies before it saves *)

StoreInv == TypeOK /\ SealNeverRefuses /\ TenantsSeparate

\* The empty repository satisfies the first invariant.
LEMMA StoreInvInit == Init => StoreInv
BY DEF Init, StoreInv, TypeOK, SealNeverRefuses, TenantsSeparate

\* The first invariant is inductive: operations make well-formed cases of
\* the writer's own tenant, and a save stores one under its own key.
LEMMA StoreInvNext == StoreInv /\ [Next]_vars => StoreInv'
<1> SUFFICES ASSUME StoreInv, [Next]_vars
             PROVE  StoreInv'
  OBVIOUS
<1> USE DEF StoreInv
<1>0. CASE UNCHANGED vars
  BY <1>0 DEF vars, TypeOK, SealNeverRefuses, TenantsSeparate
<1>1. ASSUME NEW w \in Writers, NEW id \in CaseIds, Load(w, id)
      PROVE  StoreInv'
  <2>1. TypeOK'
    BY <1>1, WriterAssumption DEF Load, TypeOK, Keys
  <2>2. SealNeverRefuses'
    BY <1>1, WriterAssumption DEF Load, TypeOK, SealNeverRefuses, Keys
  <2>3. TenantsSeparate'
    BY <1>1, WriterAssumption DEF Load, TypeOK, TenantsSeparate, Keys, StorageKey
  <2> QED BY <2>1, <2>2, <2>3
<1>2. ASSUME NEW w \in Writers, NEW id \in CaseIds, NEW p \in Profiles, NEW now \in Times,
             Create(w, id, p, now)
      PROVE  StoreInv'
  <2> DEFINE c == CreatedCase(TenantOf[w], id, p, now)
  <2>1. c \in Case /\ WellFormed(c) /\ c.tenantId = TenantOf[w]
    BY WriterAssumption, CreatedCaseType, CreatedCaseWellFormed DEF CreatedCase
  <2>2. held' = [held EXCEPT ![w] = c] /\ UNCHANGED <<cases, base>>
    BY <1>2 DEF Create, Produce
  <2> HIDE DEF c
  <2>3. TypeOK'
    BY <2>1, <2>2 DEF TypeOK
  <2>4. SealNeverRefuses'
    BY <2>1, <2>2 DEF TypeOK, SealNeverRefuses
  <2>5. TenantsSeparate'
    BY <2>1, <2>2 DEF TypeOK, TenantsSeparate
  <2> QED BY <2>3, <2>4, <2>5
<1>3. ASSUME NEW w \in Writers, Operate(w)
      PROVE  StoreInv'
  <2>1. PICK d \in Case : Follows(held[w], d) /\ Produce(w, d)
    BY <1>3 DEF Operate
  <2>2. held' = [held EXCEPT ![w] = d] /\ UNCHANGED <<cases, base>> /\ held[w] # NoCase
    BY <2>1, <1>3 DEF Produce, Operate, MayOperate
  <2>3. WellFormed(d) /\ d.tenantId = held[w].tenantId
    BY <2>1 DEF Follows
  <2>4. TypeOK'
    BY <2>2 DEF TypeOK
  <2>5. SealNeverRefuses'
    BY <2>2, <2>3 DEF TypeOK, SealNeverRefuses
  <2>6. TenantsSeparate'
    BY <2>2, <2>3 DEF TypeOK, TenantsSeparate
  <2> QED BY <2>4, <2>5, <2>6
<1>4. ASSUME NEW w \in Writers, Save(w)
      PROVE  StoreInv'
  <2> DEFINE k == StorageKey(held[w])
  <2>1. /\ held[w] # NoCase /\ held[w] \in Case /\ WellFormed(held[w])
        /\ cases' = [cases EXCEPT ![k] = held[w]]
        /\ base' = [base EXCEPT ![w] = held[w]] /\ held' = held
    BY <1>4 DEF Save, SaveAccepted, TypeOK
  <2>2. k \in Keys
    BY <2>1 DEF StorageKey, Keys, Case
  <2>3. TypeOK'
    BY <2>1 DEF TypeOK
  <2>4. SealNeverRefuses'
    BY <2>1, <2>2 DEF TypeOK, SealNeverRefuses
  <2>5. TenantsSeparate'
    BY <2>1, <2>2 DEF TypeOK, TenantsSeparate
  <2> QED BY <2>3, <2>4, <2>5
<1>5. ASSUME NEW w \in Writers, Abandon(w)
      PROVE  StoreInv'
  BY <1>5 DEF Abandon, TypeOK, SealNeverRefuses, TenantsSeparate
<1> QED BY <1>0, <1>1, <1>2, <1>3, <1>4, <1>5, OperationsOperate DEF Next

\* Every stored case, base and held copy is a case, in every reachable state.
THEOREM TypeCorrect == Spec => []TypeOK
<1>1. StoreInv => TypeOK
  BY DEF StoreInv
<1> QED BY <1>1, StoreInvInit, StoreInvNext, PTL DEF Spec

\* sealed() never refuses what an operation made, and the repository never
\* holds a case its own validator would refuse.
THEOREM OperationsSeal == Spec => []SealNeverRefuses
<1>1. StoreInv => SealNeverRefuses
  BY DEF StoreInv
<1> QED BY <1>1, StoreInvInit, StoreInvNext, PTL DEF Spec

\* Cases are stored under their own tenant's keys only, and a writer holds
\* its own tenant's cases only.
THEOREM TenantIsolation == Spec => []TenantsSeparate
<1>1. StoreInv => TenantsSeparate
  BY DEF StoreInv
<1> QED BY <1>1, StoreInvInit, StoreInvNext, PTL DEF Spec

\* Timeliness needs no revision rule: whatever an operation or a save starts
\* from is timely, and so is what it makes.
TimelyInv ==
  /\ StoreInv
  /\ TimelineOrdered
  /\ \A w \in Writers : held[w] # NoCase => Timely(held[w])

\* Every step keeps the cases of the store and of the writers timely.
LEMMA TimelyInvNext == TimelyInv /\ [Next]_vars => TimelyInv'
<1> SUFFICES ASSUME TimelyInv, [Next]_vars
             PROVE  TimelyInv'
  OBVIOUS
<1> USE DEF TimelyInv, TimelineOrdered
<1>0. StoreInv' /\ TypeOK
  BY StoreInvNext DEF StoreInv
<1>1. CASE UNCHANGED vars
  BY <1>0, <1>1 DEF vars
<1>2. ASSUME NEW w \in Writers, NEW id \in CaseIds, Load(w, id)
      PROVE  TimelyInv'
  BY <1>0, <1>2, WriterAssumption DEF Load, TypeOK, Keys
<1>3. ASSUME NEW w \in Writers, NEW id \in CaseIds, NEW p \in Profiles, NEW now \in Times,
             Create(w, id, p, now)
      PROVE  TimelyInv'
  BY <1>0, <1>3, CreatedTimely DEF Create, Produce, TypeOK
<1>4. ASSUME NEW w \in Writers, Operate(w)
      PROVE  TimelyInv'
  <2>1. PICK d \in Case : Follows(held[w], d) /\ Produce(w, d)
    BY <1>4 DEF Operate
  <2>2. Timely(d)
    BY <2>1, <1>4 DEF Follows, Operate, MayOperate
  <2> QED BY <2>1, <2>2, <1>0 DEF Produce, TypeOK
<1>5. ASSUME NEW w \in Writers, Save(w)
      PROVE  TimelyInv'
  BY <1>0, <1>5 DEF Save, TypeOK
<1>6. ASSUME NEW w \in Writers, Abandon(w)
      PROVE  TimelyInv'
  BY <1>0, <1>6 DEF Abandon, TypeOK
<1> QED BY <1>0, <1>1, <1>2, <1>3, <1>4, <1>5, <1>6, OperationsOperate DEF Next

\* The instants every stored case records are in the order things happened,
\* however many operations of however many writers made it.
THEOREM TimelinesOrdered == Spec => []TimelineOrdered
<1>1. Init => TimelyInv
  BY StoreInvInit DEF Init, TimelyInv, TimelineOrdered
<1>2. TimelyInv => TimelineOrdered
  BY DEF TimelyInv
<1> QED BY <1>1, <1>2, TimelyInvNext, PTL DEF Spec

-----------------------------------------------------------------------------
(* What holds when a writer saves after every operation *)

CopyInv == StoreInv /\ SnapshotAgreement /\ HeldFromBase

\* The empty repository satisfies the second invariant.
LEMMA CopyInvInit == Init => CopyInv
BY StoreInvInit DEF CopyInv, Init, SnapshotAgreement, HeldFromBase

\* The facts a writer's accepted save rests on: with one operation per save
\* the copy was made from the very case it replaces.
LEMMA SaveReplacesBase ==
  ASSUME CopyInv, NEW w \in Writers, Save(w)
  PROVE  LET k == StorageKey(held[w]) IN
         /\ k \in Keys /\ held[w] \in Case
         /\ held[w].revision = RevisionOf(cases[k]) + 1
         /\ cases[k] # NoCase => /\ cases[k].state # Cancelled
                                 /\ Preserves(cases[k], held[w])
<1> DEFINE k == StorageKey(held[w])
<1>1. /\ held[w] # NoCase /\ held[w] # base[w] /\ held[w] \in Case
      /\ base[w] \in Case \cup {NoCase}
      /\ held[w].revision = RevisionOf(cases[k]) + 1
  BY DEF Save, SaveAccepted, CopyInv, StoreInv, TypeOK
<1>2. k \in Keys /\ cases[k] \in Case \cup {NoCase}
  BY <1>1 DEF StorageKey, Keys, Case, CopyInv, StoreInv, TypeOK
<1>3. cases[k] # NoCase => RevisionOf(cases[k]) \in Nat \ {0}
  BY <1>2 DEF RevisionOf, Case
<1>4. CASE base[w] = NoCase
  <2>1. held[w].revision = 1
    BY <1>1, <1>4 DEF CopyInv, HeldFromBase
  <2> QED BY <2>1, <1>1, <1>2, <1>3
<1>5. CASE base[w] # NoCase
  <2>1. /\ held[w].revision = base[w].revision + 1
        /\ k = StorageKey(base[w]) /\ base[w].state # Cancelled
        /\ Preserves(base[w], held[w])
    BY <1>1, <1>5 DEF CopyInv, HeldFromBase
  <2>2. base[w].revision \in Nat /\ RevisionOf(cases[k]) \in Nat
    BY <1>1, <1>2, <1>5 DEF Case, RevisionOf
  <2>3. base[w].revision = RevisionOf(cases[k])
    BY <2>1, <2>2, <1>1
  <2>4. base[w] = cases[k]
    BY <2>1, <2>3, <1>5 DEF CopyInv, SnapshotAgreement
  <2> QED BY <2>1, <2>4, <1>1, <1>2
<1> QED BY <1>4, <1>5

\* The second invariant is inductive when a writer saves after every
\* operation: a save replaces the very case the copy was made from.
LEMMA CopyInvNext ==
  ASSUME MaxPending = 1, CopyInv, [Next]_vars
  PROVE  CopyInv'
<1>1. StoreInv'
  BY StoreInvNext DEF CopyInv
<1> USE DEF CopyInv, StoreInv
<1>2. CASE UNCHANGED vars
  BY <1>1, <1>2 DEF vars, SnapshotAgreement, HeldFromBase
<1>3. ASSUME NEW w \in Writers, NEW id \in CaseIds, Load(w, id)
      PROVE  SnapshotAgreement' /\ HeldFromBase'
  <2> DEFINE k == <<TenantOf[w], id>>
  <2>1. /\ k \in Keys /\ cases[k] # NoCase /\ cases[k] \in Case
        /\ base' = [base EXCEPT ![w] = cases[k]]
        /\ held' = [held EXCEPT ![w] = cases[k]] /\ cases' = cases
    BY <1>3, WriterAssumption DEF Load, Keys, TypeOK
  <2>2. StorageKey(cases[k]) = k /\ cases[k].revision \in Nat
    BY <2>1 DEF TenantsSeparate, Case
  <2> HIDE DEF k
  <2>3. SnapshotAgreement'
    BY <2>1, <2>2 DEF SnapshotAgreement, TypeOK, RevisionOf
  <2>4. HeldFromBase'
    BY <2>1 DEF HeldFromBase, TypeOK
  <2> QED BY <2>3, <2>4
<1>4. ASSUME NEW w \in Writers, NEW id \in CaseIds, NEW p \in Profiles, NEW now \in Times,
             Create(w, id, p, now)
      PROVE  SnapshotAgreement' /\ HeldFromBase'
  <2> DEFINE c == CreatedCase(TenantOf[w], id, p, now)
  <2>1. /\ held[w] = NoCase /\ held' = [held EXCEPT ![w] = c]
        /\ cases' = cases /\ base' = base
    BY <1>4 DEF Create, Produce
  <2>2. c \in Case /\ c.revision = 1
    BY WriterAssumption, CreatedCaseType DEF CreatedCase
  <2> HIDE DEF c
  <2>3. SnapshotAgreement'
    BY <2>1 DEF SnapshotAgreement
  <2>4. base[w] = NoCase /\ c # NoCase
    BY <2>1, <2>2, SentinelAssumption DEF HeldFromBase
  <2>5. HeldFromBase'
    BY <2>1, <2>2, <2>4 DEF HeldFromBase, TypeOK
  <2> QED BY <2>3, <2>5
<1>5. ASSUME NEW w \in Writers, Operate(w)
      PROVE  SnapshotAgreement' /\ HeldFromBase'
  <2>1. PICK d \in Case : Follows(held[w], d) /\ Produce(w, d)
    BY <1>5 DEF Operate
  <2>2. /\ held' = [held EXCEPT ![w] = d] /\ cases' = cases /\ base' = base
        /\ held[w] # NoCase /\ held[w] \in Case
        /\ held[w].revision < RevisionOf(base[w]) + 1
    BY <2>1, <1>5 DEF Produce, Operate, MayOperate, TypeOK
  <2>3. base[w] # NoCase /\ held[w] = base[w]
    <3>1. held[w].revision \in Nat \ {0} /\ base[w] \in Case \cup {NoCase}
      BY <2>2 DEF Case, TypeOK
    <3>2. CASE base[w] = NoCase
      BY <3>1, <3>2, <2>2 DEF RevisionOf
    <3>3. CASE base[w] # NoCase
      <4>1. base[w].revision \in Nat
        BY <3>1, <3>3 DEF Case
      <4> QED BY <4>1, <3>1, <3>3, <2>2 DEF RevisionOf, HeldFromBase
    <3> QED BY <3>2, <3>3
  <2>4. SnapshotAgreement'
    BY <2>2 DEF SnapshotAgreement
  <2>5. /\ d.revision = base[w].revision + 1 /\ StorageKey(d) = StorageKey(base[w])
        /\ base[w].state # Cancelled /\ Preserves(base[w], d) /\ d # NoCase
    BY <2>1, <2>3, SentinelAssumption DEF Follows
  <2>6. HeldFromBase'
    BY <2>2, <2>3, <2>5 DEF HeldFromBase, TypeOK
  <2> QED BY <2>4, <2>6
<1>6. ASSUME NEW w \in Writers, Save(w)
      PROVE  SnapshotAgreement' /\ HeldFromBase'
  <2> DEFINE k == StorageKey(held[w])
  <2>1. /\ k \in Keys /\ held[w] \in Case /\ held[w] # NoCase
        /\ held[w].revision = RevisionOf(cases[k]) + 1
        /\ cases' = [cases EXCEPT ![k] = held[w]]
        /\ base' = [base EXCEPT ![w] = held[w]] /\ held' = held
    BY <1>6, SaveReplacesBase, SentinelAssumption DEF Save
  <2>2. HeldFromBase'
    BY <2>1 DEF HeldFromBase, TypeOK
  <2>3. ASSUME NEW v \in Writers, base'[v] # NoCase
        PROVE  LET stored == cases'[StorageKey(base'[v])] IN
               /\ base'[v].revision <= RevisionOf(stored)
               /\ base'[v].revision = RevisionOf(stored) => base'[v] = stored
    <3>1. cases'[k] = held[w] /\ RevisionOf(held[w]) = held[w].revision
      BY <2>1 DEF TypeOK, RevisionOf
    <3>2. held[w].revision \in Nat
      BY <2>1 DEF Case
    <3>3. CASE v = w
      BY <3>1, <3>2, <3>3, <2>1 DEF TypeOK
    <3>4. CASE v # w
      <4>1. base'[v] = base[v] /\ base[v] \in Case
        BY <2>1, <2>3, <3>4 DEF TypeOK
      <4> DEFINE j == StorageKey(base[v])
      <4>2. /\ base[v].revision <= RevisionOf(cases[j])
            /\ base[v].revision = RevisionOf(cases[j]) => base[v] = cases[j]
        BY <4>1, <2>3 DEF SnapshotAgreement
      <4>3. j \in Keys /\ base[v].revision \in Nat /\ RevisionOf(cases[k]) \in Nat
        BY <4>1, <2>1 DEF StorageKey, Keys, Case, RevisionOf, TypeOK
      <4>4. CASE j # k
        <5>1. cases'[j] = cases[j]
          BY <4>3, <4>4, <2>1 DEF TypeOK
        <5> QED BY <5>1, <4>1, <4>2
      <4>5. CASE j = k
        <5>1. cases'[j] = held[w] /\ RevisionOf(cases'[j]) = RevisionOf(cases[k]) + 1
          BY <3>1, <4>5, <2>1
        <5>2. base[v].revision < RevisionOf(cases'[j])
          BY <5>1, <4>2, <4>3, <4>5
        <5> QED BY <5>2, <4>1, <4>3, <5>1
      <4> QED BY <4>4, <4>5
    <3> QED BY <3>3, <3>4
  <2>4. SnapshotAgreement'
    BY <2>3 DEF SnapshotAgreement
  <2> QED BY <2>2, <2>4
<1>7. ASSUME NEW w \in Writers, Abandon(w)
      PROVE  SnapshotAgreement' /\ HeldFromBase'
  BY <1>7 DEF Abandon, SnapshotAgreement, HeldFromBase, TypeOK
<1> QED BY <1>1, <1>2, <1>3, <1>4, <1>5, <1>6, <1>7, OperationsOperate DEF Next

\* Two copies of a case at one revision are the same case, and no copy runs
\* ahead of the store, for writers that save after every operation.
THEOREM SnapshotsAgree ==
  ASSUME MaxPending = 1
  PROVE  Spec => []SnapshotAgreement
<1>1. CopyInv /\ [Next]_vars => CopyInv'
  BY CopyInvNext
<1>2. CopyInv => SnapshotAgreement
  BY DEF CopyInv
<1> QED BY <1>1, <1>2, CopyInvInit, PTL DEF Spec

\* What one step does to the store: at most one key changes, and then from
\* the writer's base to the copy it made of it.
LEMMA StoreStep ==
  ASSUME MaxPending = 1, CopyInv, [Next]_vars, NEW k \in Keys, cases[k] # NoCase
  PROVE  \/ cases'[k] = cases[k]
         \/ /\ cases'[k] # NoCase
            /\ cases[k].state # Cancelled
            /\ Preserves(cases[k], cases'[k])
<1>1. CASE cases' = cases
  BY <1>1
<1>2. ASSUME NEW w \in Writers, Save(w)
      PROVE  \/ cases'[k] = cases[k]
             \/ /\ cases'[k] # NoCase
                /\ cases[k].state # Cancelled
                /\ Preserves(cases[k], cases'[k])
  <2> DEFINE j == StorageKey(held[w])
  <2>1. /\ j \in Keys /\ held[w] # NoCase /\ cases' = [cases EXCEPT ![j] = held[w]]
        /\ cases[j] # NoCase => cases[j].state # Cancelled /\ Preserves(cases[j], held[w])
    BY <1>2, SaveReplacesBase DEF Save
  <2> HIDE DEF j
  <2> QED BY <2>1 DEF CopyInv, StoreInv, TypeOK
<1>3. (\E w \in Writers : Save(w)) \/ cases' = cases
  <2>1. ASSUME NEW w \in Writers, WriterStep(w)
        PROVE  Save(w) \/ cases' = cases
    BY <2>1 DEF WriterStep, Load, Create, Activate, AddMaterial, Associate, Cancel,
                Abandon, Produce
  <2> QED BY <2>1 DEF Next, vars
<1> QED BY <1>1, <1>2, <1>3

\* No accepted save discards anything another writer stored.
THEOREM LostUpdatesPrevented ==
  ASSUME MaxPending = 1
  PROVE  Spec => NoLostUpdate
<1>1. CopyInv /\ [Next]_vars => CopyInv'
  BY CopyInvNext
<1>2. CopyInv /\ [Next]_vars =>
        [\A k \in Keys : cases[k] # NoCase =>
           cases'[k] # NoCase /\ Preserves(cases[k], cases'[k])]_vars
  <2> SUFFICES ASSUME CopyInv, [Next]_vars, NEW k \in Keys, cases[k] # NoCase
               PROVE  cases'[k] # NoCase /\ Preserves(cases[k], cases'[k])
    OBVIOUS
  <2>1. cases[k] \in Case
    BY DEF CopyInv, StoreInv, TypeOK
  <2>2. Preserves(cases[k], cases[k])
    BY <2>1 DEF Preserves, Case, Times
  <2> QED BY <2>2, StoreStep
<1> QED BY <1>1, <1>2, CopyInvInit, PTL DEF Spec, NoLostUpdate

\* A cancelled case stays exactly as it was cancelled, whatever copies of it
\* other writers still hold.
THEOREM CancellationIsFinal ==
  ASSUME MaxPending = 1
  PROVE  Spec => CancelledIsFinal
<1>1. CopyInv /\ [Next]_vars => CopyInv'
  BY CopyInvNext
<1>2. CopyInv /\ [Next]_vars =>
        [\A k \in Keys : cases[k] # NoCase =>
           (cases[k].state = Cancelled => cases'[k] = cases[k])]_vars
  BY StoreStep
<1> QED BY <1>1, <1>2, CopyInvInit, PTL DEF Spec, CancelledIsFinal

-----------------------------------------------------------------------------
(* The store implements the ledger *)

\* What a writer's copy is to the ledger: a copy without a base is a case
\* just opened, any other is its base or one ledger operation further.
HeldOneOperation ==
  \A w \in Writers : held[w] # NoCase =>
    /\ base[w] = NoCase => held[w].state = Draft /\ held[w].materials = {}
    /\ base[w] # NoCase /\ held[w] # base[w] =>
         OneOperation(LedgerOf(base[w]), LedgerOf(held[w]))

LedgerInv == CopyInv /\ HeldOneOperation

\* The empty repository satisfies the invariant the refinement rests on.
LEMMA LedgerInvInit == Init => LedgerInv
BY CopyInvInit DEF LedgerInv, Init, HeldOneOperation

\* A writer operates on its base itself when it saves after every operation.
LEMMA OperatesOnBase ==
  ASSUME MaxPending = 1, CopyInv, NEW w \in Writers, MayOperate(w)
  PROVE  held[w] \in Case /\ base[w] # NoCase /\ held[w] = base[w]
<1>1. held[w] \in Case /\ base[w] \in Case \cup {NoCase}
  BY DEF MayOperate, CopyInv, StoreInv, TypeOK
<1>2. held[w] # NoCase /\ held[w].revision < RevisionOf(base[w]) + 1
  BY DEF MayOperate
<1>3. held[w].revision \in Nat \ {0} /\ HeldFromBase
  BY <1>1 DEF Case, CopyInv
<1>4. CASE base[w] = NoCase
  BY <1>2, <1>3, <1>4 DEF RevisionOf
<1>5. CASE base[w] # NoCase
  <2>1. base[w].revision \in Nat
    BY <1>1, <1>5 DEF Case
  <2> QED BY <2>1, <1>1, <1>2, <1>3, <1>5 DEF RevisionOf, HeldFromBase
<1> QED BY <1>4, <1>5

\* Every step keeps the copies one ledger operation from their bases.
LEMMA LedgerInvNext ==
  ASSUME MaxPending = 1, LedgerInv, [Next]_vars
  PROVE  LedgerInv'
<1> USE DEF LedgerInv, HeldOneOperation
<1>0. CopyInv' /\ TypeOK
  BY CopyInvNext DEF CopyInv, StoreInv
<1>1. CASE UNCHANGED vars
  BY <1>0, <1>1 DEF vars
<1>2. ASSUME NEW w \in Writers, NEW id \in CaseIds, Load(w, id)
      PROVE  LedgerInv'
  BY <1>0, <1>2 DEF Load, TypeOK
<1>3. ASSUME NEW w \in Writers, NEW id \in CaseIds, NEW p \in Profiles, NEW now \in Times,
             Create(w, id, p, now)
      PROVE  LedgerInv'
  <2> DEFINE c == CreatedCase(TenantOf[w], id, p, now)
  <2>1. /\ held' = [held EXCEPT ![w] = c] /\ base' = base /\ held[w] = NoCase
        /\ c.state = Draft /\ c.materials = {}
    BY <1>3 DEF Create, Produce, CreatedCase
  <2>2. base[w] = NoCase
    BY <2>1 DEF CopyInv, HeldFromBase
  <2> HIDE DEF c
  <2> QED BY <2>1, <2>2, <1>0 DEF TypeOK
<1>4. ASSUME NEW w \in Writers, Operate(w)
      PROVE  LedgerInv'
  <2>1. PICK d \in Case : Follows(held[w], d) /\ Produce(w, d)
    BY <1>4 DEF Operate
  <2>2. base[w] # NoCase /\ OneOperation(LedgerOf(base[w]), LedgerOf(d))
    BY <2>1, <1>4, OperatesOnBase DEF Follows, Operate
  <2> QED BY <2>1, <2>2, <1>0 DEF Produce, TypeOK
<1>5. ASSUME NEW w \in Writers, Save(w)
      PROVE  LedgerInv'
  BY <1>0, <1>5 DEF Save, TypeOK
<1>6. ASSUME NEW w \in Writers, Abandon(w)
      PROVE  LedgerInv'
  BY <1>0, <1>6 DEF Abandon, TypeOK
<1> QED BY <1>0, <1>1, <1>2, <1>3, <1>4, <1>5, <1>6, OperationsOperate DEF Next

\* One operation on an entry of the ledger is a step of the ledger.
LEMMA OneOperationIsLedgerStep ==
  ASSUME TypeOK, NEW k \in Keys, NEW c \in Case, NEW d \in Case, cases[k] = c,
         cases' = [cases EXCEPT ![k] = d], OneOperation(LedgerOf(c), LedgerOf(d))
  PROVE  Ledger!Next
<1> DEFINE L == [j \in Keys |-> LedgerOf(cases[j])]
           e == LedgerOf(c)
<1>1. /\ e \in Ledger!Entry /\ e # NoCase /\ L[k] = e
  BY LedgerOfCase
<1>2. L' = [L EXCEPT ![k] = LedgerOf(d)]
  BY DEF TypeOK
<1>3. ASSUME NEW st, NEW as, LedgerOf(d) = Recorded(e, st, as)
      PROVE  Ledger!Advance(k, st, as)
  <2> HIDE DEF L, e
  <2> QED BY <1>1, <1>2, <1>3 DEF L, Ledger!Advance, Recorded
<1> HIDE DEF e
<1>4. CASE e.state = Draft /\ LedgerOf(d) = Recorded(e, Active, {})
  <2>1. Ledger!Activate(k)
    BY <1>1, <1>3, <1>4 DEF Ledger!Activate, Ledger!Draft, Draft, Ledger!Active, Active
  <2> QED BY <2>1 DEF Ledger!Next
<1>5. CASE e.state # Cancelled /\ LedgerOf(d) = Recorded(e, Cancelled, {})
  <2>1. Ledger!Cancel(k)
    BY <1>1, <1>3, <1>5 DEF Ledger!Cancel, Ledger!Cancelled, Cancelled
  <2> QED BY <2>1 DEF Ledger!Next
<1>6. ASSUME e.state # Cancelled, NEW id \in MaterialIds, NEW rs \in SUBSET Requirements,
             rs # {}, \A r \in rs : <<id, r>> \notin e.associations,
             LedgerOf(d) = Recorded(e, e.state, {id} \X rs)
      PROVE  Ledger!Next
  <2>1. Ledger!Associate(k, id, rs)
    BY <1>1, <1>3, <1>6 DEF Ledger!Associate, Ledger!Cancelled, Cancelled
  <2> QED BY <2>1 DEF Ledger!Next
<1> QED BY <1>4, <1>5, <1>6 DEF e, OneOperation

\* An accepted save is a step of the ledger.
LEMMA SaveIsLedgerStep ==
  ASSUME LedgerInv, NEW w \in Writers, Save(w)
  PROVE  Ledger!Next
<1> DEFINE k == StorageKey(held[w])
           c == held[w]
<1>1. /\ k \in Keys /\ c \in Case /\ c # NoCase /\ c # base[w]
      /\ c.revision = RevisionOf(cases[k]) + 1 /\ cases' = [cases EXCEPT ![k] = c]
      /\ TypeOK /\ base[w] \in Case \cup {NoCase}
      /\ cases[k] \in Case \cup {NoCase}
  BY SaveReplacesBase DEF Save, LedgerInv, CopyInv, StoreInv, TypeOK
<1>2. base[w] # NoCase =>
        /\ c.revision = base[w].revision + 1 /\ base[w].revision \in Nat \ {0}
        /\ k = StorageKey(base[w]) /\ OneOperation(LedgerOf(base[w]), LedgerOf(c))
  BY <1>1 DEF LedgerInv, CopyInv, HeldFromBase, HeldOneOperation, Case
<1>3. CASE cases[k] = NoCase
  <2>1. c.revision = 1 /\ base[w] = NoCase
    BY <1>1, <1>2, <1>3 DEF RevisionOf
  <2>2. /\ c.state = Draft /\ c.materials = {} /\ c.profile \in Profiles
        /\ Associations(c) = {}
    BY <1>1, <2>1 DEF LedgerInv, HeldOneOperation, Case, Associations
  <2>3. LedgerOf(c) = [profile |-> c.profile, state |-> Draft, revision |-> 1,
                       associations |-> {}]
    BY <1>1, <2>1, <2>2, LedgerOfCase
  <2>4. LedgerOf(cases[k]) = NoCase
    BY <1>3 DEF LedgerOf
  <2> HIDE DEF k, c
  <2>5. Ledger!Open(k, c.profile)
    BY <1>1, <2>3, <2>4 DEF Ledger!Open, Ledger!Draft, Draft, TypeOK
  <2> QED BY <1>1, <2>2, <2>5 DEF Ledger!Next
<1>4. CASE cases[k] # NoCase
  <2>1. cases[k] \in Case /\ RevisionOf(cases[k]) \in Nat \ {0}
    BY <1>1, <1>4 DEF RevisionOf, Case
  <2>2. base[w] # NoCase
    BY <1>1, <2>1 DEF LedgerInv, CopyInv, HeldFromBase
  <2>3. base[w] = cases[k]
    BY <1>1, <1>2, <2>1, <2>2 DEF LedgerInv, CopyInv, SnapshotAgreement
  <2> HIDE DEF k
  <2> QED BY <1>1, <1>2, <2>1, <2>2, <2>3, OneOperationIsLedgerStep
<1> QED BY <1>3, <1>4

\* The store implements the ledger: whatever the interleaving of the
\* writers, every accepted save is exactly one ledger operation, and no
\* other step shows in the ledger.
THEOREM StoreImplementsLedger ==
  ASSUME MaxPending = 1
  PROVE  Spec => ImplementsLedger
<1>1. Init => Ledger!Init
  BY DEF Init, Ledger!Init, LedgerOf
<1>2. LedgerInv /\ [Next]_vars => LedgerInv'
  BY LedgerInvNext
<1>3. LedgerInv /\ [Next]_vars => [Ledger!Next]_[k \in Keys |-> LedgerOf(cases[k])]
  <2> SUFFICES ASSUME LedgerInv, [Next]_vars
               PROVE  Ledger!Next \/ cases' = cases
    OBVIOUS
  <2>1. ASSUME NEW w \in Writers, WriterStep(w)
        PROVE  Save(w) \/ cases' = cases
    BY <2>1 DEF WriterStep, Load, Create, Activate, AddMaterial, Associate, Cancel,
                Abandon, Produce
  <2> QED BY <2>1, SaveIsLedgerStep DEF Next, vars
<1> QED BY <1>1, <1>2, <1>3, LedgerInvInit, PTL DEF Spec, ImplementsLedger, Ledger!Spec

=============================================================================
