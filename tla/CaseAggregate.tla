--------------------------- MODULE CaseAggregate ----------------------------
(***************************************************************************)
(* The ProtocolizationCase aggregate: its data, its validator and its five *)
(* operations, as pure operators.  Every operation of the package is a     *)
(* function from an immutable case to a new immutable case that either     *)
(* refuses (its Can... predicate is FALSE) or returns a case one revision  *)
(* later.  Nothing here is stored: ProtocolizationCase composes these      *)
(* operators with the repository and its concurrent writers.               *)
(***************************************************************************)
EXTENDS Naturals, FiniteSets

CONSTANTS
  Tenants,              \* tenant identifiers
  CaseIds,              \* identifiers a tenant may mint for a case
  Profiles,             \* the catalogued (profileId, profileVersion) pairs
  Requirements,         \* requirement identifiers
  ProfileRequirements,  \* the requirements each catalogued profile declares
  MaterialIds,          \* identifiers of materials within a case
  Kinds,                \* material kinds (Evidence, Declaration, ...)
  Refs,                 \* what a material points at (evidence, claim, ...)
  MaxTime,              \* bound: clock readings are 1..MaxTime
  NoCase,               \* "undefined": no such case
  NotProjected          \* a requirement the pinned profile does not declare

ASSUME AggregateAssumption ==
  /\ ProfileRequirements \in [Profiles -> SUBSET Requirements]
  /\ MaxTime \in Nat \ {0}

Times  == 1..MaxTime
NoTime == 0                          \* an absent optional timestamp

Draft     == "Draft"
Active    == "Active"
Cancelled == "Cancelled"
CaseStates == {Draft, Active, Cancelled}

Pending         == "Pending"
MaterialPresent == "MaterialPresent"

Material ==
  [materialId: MaterialIds, kind: Kinds, ref: Refs,
   requirementIds: SUBSET Requirements, addedAt: Times]

RequirementState ==
  [materialStatus: {Pending, MaterialPresent}, materialIds: SUBSET MaterialIds,
   firstMaterialAt: Times \cup {NoTime}, updatedAt: Times]

Case ==
  [tenantId: Tenants, caseId: CaseIds, profile: Profiles, state: CaseStates,
   revision: Nat \ {0},
   requirementStates: [Requirements -> RequirementState \cup {NotProjected}],
   materials: SUBSET Material,
   createdAt: Times, updatedAt: Times,
   activatedAt: Times \cup {NoTime}, cancelledAt: Times \cup {NoTime}]

\* A sentinel is none of the values it stands apart from.
ASSUME SentinelAssumption ==
  /\ NoCase \notin Case
  /\ NotProjected \notin RequirementState

-----------------------------------------------------------------------------
\* Lifecycle

AllowedTransitions ==
  {<<Draft, Active>>, <<Draft, Cancelled>>, <<Active, Cancelled>>}

\* Mutation: the lifecycle check before a material is dropped.
AcceptsMaterialAlways(c) == TRUE

AcceptsMaterial(c) == c.state \in {Draft, Active}

-----------------------------------------------------------------------------
\* The validator every operation, and the repository, runs on a whole case.

Projected(c)  == {r \in Requirements : c.requirementStates[r] # NotProjected}
MaterialIdsOf(c) == {m.materialId : m \in c.materials}

TimestampsConsistent(c) ==
  /\ c.createdAt <= c.updatedAt
  /\ c.activatedAt # NoTime => c.createdAt <= c.activatedAt
  /\ c.state = Active => c.activatedAt # NoTime
  /\ c.state = Draft  => c.activatedAt = NoTime
  /\ (c.state = Cancelled) <=> (c.cancelledAt # NoTime)
  /\ c.cancelledAt # NoTime => c.createdAt <= c.cancelledAt
  /\ \A m \in c.materials : c.createdAt <= m.addedAt

MaterialIdsUnique(c) ==
  \A m, n \in c.materials : m.materialId = n.materialId => m = n

RequirementStatesConsistent(c) ==
  \A r \in Projected(c) :
    LET s == c.requirementStates[r] IN
    /\ (s.materialStatus = Pending) <=> (s.materialIds = {})
    /\ (s.firstMaterialAt = NoTime) <=> (s.materialIds = {})

\* Materials and requirement states each store the association; the two
\* copies agree in both directions.
Correlated(c) ==
  /\ \A m \in c.materials : m.requirementIds # {} /\ m.requirementIds \subseteq Projected(c)
  /\ \A m \in c.materials : \A r \in m.requirementIds :
       m.materialId \in c.requirementStates[r].materialIds
  /\ \A r \in Projected(c) : \A id \in c.requirementStates[r].materialIds :
       \E m \in c.materials : m.materialId = id /\ r \in m.requirementIds

WellFormed(c) ==
  /\ TimestampsConsistent(c)
  /\ MaterialIdsUnique(c)
  /\ RequirementStatesConsistent(c)
  /\ Correlated(c)

-----------------------------------------------------------------------------
\* Preconditions shared by the operations

Operable(c, tenant) == WellFormed(c) /\ c.tenantId = tenant

\* Mutation: the clock is not compared with the case.
ClockUnchecked(c, now) == TRUE

\* An injected clock that reads earlier than the case's last change is refused.
ClockNotBefore(c, now) == c.updatedAt <= now

KnownRequirements(c, rs) ==
  /\ rs # {}
  /\ rs \subseteq ProfileRequirements[c.profile]
  /\ rs \subseteq Projected(c)

-----------------------------------------------------------------------------
\* createProtocolizationCase

CreatedCase(tenant, id, p, now) ==
  [tenantId |-> tenant, caseId |-> id, profile |-> p, state |-> Draft,
   revision |-> 1,
   requirementStates |->
     [r \in Requirements |->
        IF r \in ProfileRequirements[p]
        THEN [materialStatus |-> Pending, materialIds |-> {},
              firstMaterialAt |-> NoTime, updatedAt |-> now]
        ELSE NotProjected],
   materials |-> {},
   createdAt |-> now, updatedAt |-> now,
   activatedAt |-> NoTime, cancelledAt |-> NoTime]

-----------------------------------------------------------------------------
\* activateProtocolizationCase

CanActivate(c, tenant, now) ==
  /\ Operable(c, tenant)
  /\ <<c.state, Active>> \in AllowedTransitions
  /\ ClockNotBefore(c, now)

\* Mutation: a revision counter that restarts with the lifecycle.
ActivatedFromZero(c, now) ==
  [c EXCEPT !.state = Active, !.revision = 0,
            !.updatedAt = now, !.activatedAt = now]

ActivatedCase(c, now) ==
  [c EXCEPT !.state = Active, !.revision = @ + 1,
            !.updatedAt = now, !.activatedAt = now]

-----------------------------------------------------------------------------
\* addProtocolizationCaseMaterial and associateProtocolizationCaseMaterial

\* The requirement states after material id is associated with rs.
Correlate(states, rs, id, now) ==
  [r \in Requirements |->
     IF r \in rs
     THEN [materialStatus  |-> MaterialPresent,
           materialIds     |-> states[r].materialIds \cup {id},
           firstMaterialAt |-> IF states[r].firstMaterialAt = NoTime
                               THEN now ELSE states[r].firstMaterialAt,
           updatedAt       |-> now]
     ELSE states[r]]

CanAddMaterial(c, tenant, m) ==
  /\ Operable(c, tenant)
  /\ AcceptsMaterial(c)
  /\ m.materialId \notin MaterialIdsOf(c)
  /\ KnownRequirements(c, m.requirementIds)
  /\ ClockNotBefore(c, m.addedAt)

WithMaterial(c, m) ==
  [c EXCEPT !.revision = @ + 1, !.updatedAt = m.addedAt,
            !.materials = @ \cup {m},
            !.requirementStates =
               Correlate(@, m.requirementIds, m.materialId, m.addedAt)]

\* Mutation: an association the material already has is accepted again.
CanAssociateAgain(c, tenant, m, rs, now) ==
  /\ Operable(c, tenant)
  /\ AcceptsMaterial(c)
  /\ m \in c.materials
  /\ KnownRequirements(c, rs)
  /\ ClockNotBefore(c, now)

CanAssociate(c, tenant, m, rs, now) ==
  /\ Operable(c, tenant)
  /\ AcceptsMaterial(c)
  /\ m \in c.materials
  /\ KnownRequirements(c, rs)
  /\ rs \cap m.requirementIds = {}
  /\ ClockNotBefore(c, now)

\* Mutation: the material records the association, the requirement states do not.
WithOneSidedAssociation(c, m, rs, now) ==
  [c EXCEPT !.revision = @ + 1, !.updatedAt = now,
            !.materials =
               (@ \ {m}) \cup {[m EXCEPT !.requirementIds = @ \cup rs]}]

\* Mutation: the new requirements replace the material's earlier ones.
WithReplacedAssociation(c, m, rs, now) ==
  [c EXCEPT !.revision = @ + 1, !.updatedAt = now,
            !.materials = (@ \ {m}) \cup {[m EXCEPT !.requirementIds = rs]},
            !.requirementStates = Correlate(@, rs, m.materialId, now)]

WithAssociation(c, m, rs, now) ==
  [c EXCEPT !.revision = @ + 1, !.updatedAt = now,
            !.materials =
               (@ \ {m}) \cup {[m EXCEPT !.requirementIds = @ \cup rs]},
            !.requirementStates = Correlate(@, rs, m.materialId, now)]

-----------------------------------------------------------------------------
\* cancelProtocolizationCase

CanCancel(c, tenant, now) ==
  /\ Operable(c, tenant)
  /\ <<c.state, Cancelled>> \in AllowedTransitions
  /\ ClockNotBefore(c, now)

CancelledCase(c, now) ==
  [c EXCEPT !.state = Cancelled, !.revision = @ + 1,
            !.updatedAt = now, !.cancelledAt = now]

-----------------------------------------------------------------------------
\* What the repository accepts

RevisionOf(c) == IF c = NoCase THEN 0 ELSE c.revision

\* Mutation: the revision is not compared with the stored one.
SaveUnchecked(stored, c) == WellFormed(c)

\* Mutation: a save at the stored revision is taken for a retry of it.
SaveAcceptedAgain(stored, c) ==
  /\ WellFormed(c)
  /\ c.revision \in {RevisionOf(stored), RevisionOf(stored) + 1}

\* The repository's rule: revision 1 creates, revision n replaces n - 1.
SaveAccepted(stored, c) ==
  /\ WellFormed(c)
  /\ c.revision = RevisionOf(stored) + 1

=============================================================================
