------------------------- MODULE MaterialIntakeProofs -------------------------
(***************************************************************************)
(* Intake and declarations implement the case writers, so what is proved of *)
(* those holds of them; and when callers save after every operation, the    *)
(* records are an exact account of what entered each case, for any number   *)
(* of writers, tenants and submissions.                                     *)
(***************************************************************************)
EXTENDS MaterialIntake, ProtocolizationCaseProofs

\* What an intake adds to the writer's copy is a material.
LEMMA MaterialOfType ==
  ASSUME NEW s \in EvidenceSubmissions \cup DeclarationSubmissions,
         NEW kind \in RecordKinds, NEW now \in Times
  PROVE  MaterialOf(kind, s, now) \in Material
BY IntakeAssumption DEF MaterialOf, Material, Submission

\* The record an intake returns is a record, of the case it returns.
LEMMA RecordOfType ==
  ASSUME NEW s \in EvidenceSubmissions \cup DeclarationSubmissions,
         NEW kind \in RecordKinds, NEW c \in Case
  PROVE  LET d == RecordOf(kind, s, c) IN
         /\ d \in Record /\ d # NoRecord
         /\ d.tenantId = c.tenantId /\ d.caseId = c.caseId
         /\ d.caseRevision = c.revision /\ d.links = s.links
<1>1. /\ c.tenantId \in Tenants /\ c.caseId \in CaseIds
      /\ c.revision \in Nat /\ c.updatedAt \in Times
  BY DEF Case
<1>2. s \in Submission
  BY IntakeAssumption
<1> QED BY <1>1, <1>2, IntakeAssumption DEF Record, RecordOf, Submission

\* Every step of an intake writer is a step of a case writer.
LEMMA IntakeSteps ==
  ASSUME NEW w \in Writers, IntakeStep(w)
  PROVE  WriterStep(w)
<1>1. ASSUME NEW s \in EvidenceSubmissions, NEW now \in Times, IntakeEvidence(w, s, now)
      PROVE  WriterStep(w)
  <2>1. MaterialOf("Evidence", s, now) \in Material
    BY MaterialOfType DEF RecordKinds
  <2>. QED
    BY <1>1, <2>1 DEF IntakeEvidence, TakeIn, WriterStep
<1>2. ASSUME NEW s \in DeclarationSubmissions, NEW now \in Times, RecordDeclaration(w, s, now)
      PROVE  WriterStep(w)
  <2>1. MaterialOf("Declaration", s, now) \in Material
    BY MaterialOfType DEF RecordKinds
  <2>. QED
    BY <1>2, <2>1 DEF RecordDeclaration, TakeIn, WriterStep
<1>3. CASE Proceed(w)
  BY <1>3 DEF Proceed, WriterStep
<1>4. CASE CommitCase(w) \/ CommitBoth(w) \/ GiveUp(w)
  BY <1>4 DEF CommitCase, CommitBoth, GiveUp, WriterStep
<1>. QED
  BY <1>1, <1>2, <1>3, <1>4 DEF IntakeStep

\* Intake implements the case writers.
THEOREM IntakeImplementsWriters == IntakeSpec => Spec
<1>1. IntakeInit => Init
  BY DEF IntakeInit
<1>2. [IntakeNext]_intakeVars => [Next]_vars
  BY IntakeSteps DEF IntakeNext, Next, intakeVars
<1>. QED
  BY <1>1, <1>2, PTL DEF IntakeSpec, Spec

\* So tenants that mint the same identifiers never reach each other's case ...
THEOREM IntakeTenantIsolation == IntakeSpec => []TenantsSeparate
BY IntakeImplementsWriters, TenantIsolation, PTL

\* ... and no intake discards what another stored.
THEOREM IntakeLosesNoUpdate ==
  ASSUME MaxPending = 1
  PROVE  IntakeSpec => NoLostUpdate
BY IntakeImplementsWriters, LostUpdatesPrevented, PTL

\* To the ledger of the case an intake is one operation like any other.
THEOREM IntakeImplementsLedger ==
  ASSUME MaxPending = 1
  PROVE  IntakeSpec => ImplementsLedger
BY IntakeImplementsWriters, StoreImplementsLedger, PTL

-----------------------------------------------------------------------------
(* What a writer's copy has that its base had not *)

\* The same material, perhaps offered for more requirements.
Grown(m, n) ==
  /\ n.materialId = m.materialId /\ n.kind = m.kind /\ n.ref = m.ref
  /\ n.addedAt = m.addedAt /\ m.requirementIds \subseteq n.requirementIds

SameMaterials(c, d) ==
  /\ \A m \in c.materials : \E n \in d.materials : Grown(m, n)
  /\ \A n \in d.materials : \E m \in c.materials : Grown(m, n)

\* A copy without a record has no new material; one with a record has one
\* more, which the record is about and whose like its base does not hold.
CopyAccounted(w) ==
  IF pending[w] = NoRecord
  THEN held[w] # NoCase =>
         IF base[w] = NoCase THEN held[w].materials = {} ELSE SameMaterials(base[w], held[w])
  ELSE /\ held[w] # NoCase /\ base[w] # NoCase
       /\ pending[w] \in Record
       /\ <<pending[w].tenantId, pending[w].caseId>> = StorageKey(held[w])
       /\ NotInCase(base[w], pending[w].kind, pending[w])
       /\ \E m : held[w].materials = base[w].materials \cup {m} /\ Records(pending[w], m)

RecordsTyped ==
  /\ records \in [RecordKeys -> Record \cup {NoRecord}]
  /\ \A k \in RecordKeys : records[k] # NoRecord => RecordKey(records[k]) = k

IntakeInv ==
  /\ CopyInv
  /\ RecordsTyped
  /\ pending \in [Writers -> Record \cup {NoRecord}]
  /\ \A w \in Writers : CopyAccounted(w)
  /\ RecordsAccountForCase

\* The empty repositories satisfy the invariant.
LEMMA IntakeInvInit == IntakeInit => IntakeInv
<1>. SUFFICES ASSUME IntakeInit PROVE IntakeInv
  OBVIOUS
<1>1. CopyInv
  BY CopyInvInit DEF IntakeInit
<1>2. RecordsTyped /\ pending \in [Writers -> Record \cup {NoRecord}]
  BY DEF IntakeInit, RecordsTyped
<1>3. \A w \in Writers : CopyAccounted(w)
  BY DEF IntakeInit, Init, CopyAccounted
<1>4. Stored = {}
  BY DEF IntakeInit, Stored
<1>5. RecordsAccountForCase
  BY <1>4 DEF RecordsAccountForCase, RecordsOf, IntakeInit, Init
<1>. QED
  BY <1>1, <1>2, <1>3, <1>5 DEF IntakeInv

\* A writer that may operate has just loaded or saved, so no record waits.
LEMMA OperatingCopyIsBase ==
  ASSUME MaxPending = 1, IntakeInv, NEW w \in Writers, MayOperate(w)
  PROVE  /\ held[w] = base[w] /\ held[w] \in Case
         /\ pending[w] = NoRecord
<1>1. held[w] # NoCase /\ held[w] \in Case /\ held[w].revision < RevisionOf(base[w]) + 1
  BY DEF MayOperate, IntakeInv, CopyInv, StoreInv, TypeOK
<1>2. held[w].revision \in Nat /\ RevisionOf(base[w]) \in Nat
  BY <1>1 DEF RevisionOf, Case, IntakeInv, CopyInv, StoreInv, TypeOK
<1>3. base[w] # NoCase
  BY <1>1, <1>2 DEF IntakeInv, CopyInv, HeldFromBase, RevisionOf
<1>4. held[w] = base[w]
  BY <1>1, <1>2, <1>3 DEF IntakeInv, CopyInv, HeldFromBase, RevisionOf
<1>5. ASSUME pending[w] # NoRecord PROVE FALSE
  <2>1. CopyAccounted(w)
    BY DEF IntakeInv
  <2>2. PICK m : /\ held[w].materials = base[w].materials \cup {m}
                 /\ Records(pending[w], m)
    BY <1>5, <2>1 DEF CopyAccounted
  <2>3. NotInCase(base[w], pending[w].kind, pending[w])
    BY <1>5, <2>1 DEF CopyAccounted
  <2>4. m \in base[w].materials
    BY <1>4, <2>2
  <2>. QED
    BY <2>2, <2>3, <2>4 DEF NotInCase, Records
<1>. QED
  BY <1>1, <1>4, <1>5

\* A case has the same materials as itself.
LEMMA SameMaterialsReflexive ==
  ASSUME NEW c
  PROVE  SameMaterials(c, c)
BY DEF SameMaterials, Grown

\* Associating adds no material and drops none.
LEMMA AssociationAddsNoMaterial ==
  ASSUME NEW c \in Case, NEW m \in c.materials, NEW rs, NEW now
  PROVE  SameMaterials(c, WithAssociation(c, m, rs, now))
<1> DEFINE n == [m EXCEPT !.requirementIds = @ \cup rs]
           d == WithAssociation(c, m, rs, now)
<1>1. d.materials = (c.materials \ {m}) \cup {n}
  BY WithAssociationFields
<1>2. Grown(m, n)
  BY AssociatedMaterialFields DEF Grown, Case
<1>. HIDE DEF n, d
<1>3. \A o \in c.materials : Grown(o, o)
  BY DEF Grown
<1>4. SameMaterials(c, d)
  BY <1>1, <1>2, <1>3 DEF SameMaterials
<1>. QED
  BY <1>4 DEF d

\* An intake adds one material, which its record is about.
LEMMA TakeInAccounts ==
  ASSUME MaxPending = 1, IntakeInv, NEW w \in Writers, MayOperate(w),
         NEW kind \in RecordKinds, NEW now \in Times,
         NEW s \in EvidenceSubmissions \cup DeclarationSubmissions,
         TakeIn(w, kind, s, now)
  PROVE  /\ CopyAccounted(w)' /\ pending'[w] \in Record
         /\ \A v \in Writers \ {w} : held'[v] = held[v] /\ pending'[v] = pending[v]
         /\ UNCHANGED <<cases, base, records>>
<1> DEFINE m == MaterialOf(kind, s, now)
           c == WithMaterial(held[w], m)
           d == RecordOf(kind, s, c)
<1>1. held[w] = base[w] /\ held[w] \in Case /\ pending[w] = NoRecord
  BY OperatingCopyIsBase
<1>2. m \in Material /\ m.kind = kind /\ m.materialId = s.materialId /\ m.ref = s.ref
      /\ m.requirementIds = s.requirementIds /\ m.addedAt = now
  BY MaterialOfType DEF MaterialOf
<1>3. /\ c.materials = held[w].materials \cup {m} /\ c.updatedAt = now
      /\ c.tenantId = held[w].tenantId /\ c.caseId = held[w].caseId
      /\ c.revision = held[w].revision + 1
  BY <1>1, <1>2, WithMaterialFields
<1>4. /\ UNCHANGED <<cases, base, records>> /\ NotInCase(held[w], kind, s)
      /\ held' = [held EXCEPT ![w] = c] /\ pending' = [pending EXCEPT ![w] = d]
  BY DEF TakeIn, AddMaterial, Produce
<1>5. d \in Record
  <2>1. held[w].tenantId \in Tenants /\ held[w].caseId \in CaseIds /\ held[w].revision + 1 \in Nat
    BY <1>1 DEF Case
  <2>2. s \in Submission
    BY IntakeAssumption
  <2>. QED
    BY <1>3, <2>1, <2>2 DEF Record, RecordOf, Submission
<1>6. Records(d, m) /\ d.kind = kind /\ d.ref = s.ref
      /\ <<d.tenantId, d.caseId>> = StorageKey(c)
  BY <1>2, <1>3 DEF Records, RecordOf, StorageKey
<1>7. NotInCase(base[w], d.kind, d)
  BY <1>1, <1>4, <1>6 DEF NotInCase
<1>8. c \in Case
  BY <1>1, <1>2, <1>4, WithMaterialFollows DEF TakeIn, AddMaterial, Follows
<1>. HIDE DEF m, c, d
<1>9. held'[w] = c /\ pending'[w] = d /\ d # NoRecord /\ c # NoCase /\ base'[w] = held[w]
  BY <1>1, <1>4, <1>5, <1>8, IntakeAssumption, SentinelAssumption
     DEF IntakeInv, CopyInv, StoreInv, TypeOK
<1>10. held[w] # NoCase
  BY <1>1, SentinelAssumption
<1>11. CopyAccounted(w)'
  BY <1>1, <1>3, <1>5, <1>6, <1>7, <1>9, <1>10, <1>4 DEF CopyAccounted
<1>. QED
  BY <1>4, <1>5, <1>9, <1>11 DEF IntakeInv, CopyInv, StoreInv, TypeOK

\* The other operations add no material.
LEMMA ProceedAccounts ==
  ASSUME MaxPending = 1, IntakeInv, NEW w \in Writers, Proceed(w)
  PROVE  CopyAccounted(w)'
<1> USE DEF IntakeInv, CopyInv, StoreInv, TypeOK
<1>1. pending'[w] = pending[w]
  BY DEF Proceed
<1>2. ASSUME held[w] = NoCase PROVE pending[w] = NoRecord
  BY <1>2 DEF CopyAccounted
<1>3. ASSUME NEW id \in CaseIds, Load(w, id) PROVE CopyAccounted(w)'
  BY <1>1, <1>2, <1>3, SameMaterialsReflexive DEF Load, CopyAccounted
<1>4. ASSUME NEW id \in CaseIds, NEW p \in Profiles, NEW now \in Times, Create(w, id, p, now)
      PROVE  CopyAccounted(w)'
  <2>1. base[w] = NoCase
    BY <1>4 DEF Create, HeldFromBase
  <2> DEFINE c == CreatedCase(TenantOf[w], id, p, now)
  <2>2. c.materials = {}
    BY DEF CreatedCase
  <2>3. held' = [held EXCEPT ![w] = c] /\ UNCHANGED base /\ held[w] = NoCase
    BY <1>4 DEF Create, Produce
  <2>. HIDE DEF c
  <2>4. held'[w] = c
    BY <2>3
  <2>. QED
    BY <1>1, <1>2, <2>1, <2>2, <2>3, <2>4 DEF CopyAccounted
<1>5. ASSUME MayOperate(w), NEW c \in Case, SameMaterials(held[w], c), Produce(w, c)
      PROVE  CopyAccounted(w)'
  <2>1. held[w] = base[w] /\ held[w] \in Case /\ pending[w] = NoRecord
    BY <1>5, OperatingCopyIsBase
  <2>2. held'[w] = c /\ base'[w] = base[w] /\ base[w] # NoCase
    BY <1>5, <2>1, SentinelAssumption DEF Produce
  <2>. QED
    BY <1>1, <1>5, <2>1, <2>2 DEF CopyAccounted
<1>6. ASSUME NEW now \in Times, Activate(w, now) \/ Cancel(w, now) PROVE CopyAccounted(w)'
  <2>1. MayOperate(w)
    BY <1>6 DEF Activate, Cancel
  <2>2. held[w] \in Case
    BY <2>1, OperatingCopyIsBase
  <2>3. CASE Activate(w, now)
    <3>1. ActivatedCase(held[w], now) \in Case /\ Produce(w, ActivatedCase(held[w], now))
      BY <2>2, <2>3, ActivatedCaseType DEF Activate
    <3>2. SameMaterials(held[w], ActivatedCase(held[w], now))
      BY <2>2, ActivatedFields DEF SameMaterials, Grown
    <3>. QED
      BY <1>5, <2>1, <3>1, <3>2
  <2>4. CASE Cancel(w, now)
    <3>1. CancelledCase(held[w], now) \in Case /\ Produce(w, CancelledCase(held[w], now))
      BY <2>2, <2>4, CancelledCaseType DEF Cancel
    <3>2. SameMaterials(held[w], CancelledCase(held[w], now))
      BY <2>2, CancelledFields DEF SameMaterials, Grown
    <3>. QED
      BY <1>5, <2>1, <3>1, <3>2
  <2>. QED
    BY <1>6, <2>3, <2>4
<1>7. ASSUME NEW id \in MaterialIds, NEW rs \in SUBSET Requirements, NEW now \in Times,
             Associate(w, id, rs, now)
      PROVE  CopyAccounted(w)'
  <2>1. MayOperate(w)
    BY <1>7 DEF Associate
  <2>2. held[w] \in Case
    BY <2>1, OperatingCopyIsBase
  <2>3. PICK m \in held[w].materials :
          /\ CanAssociate(held[w], TenantOf[w], m, rs, now)
          /\ Produce(w, WithAssociation(held[w], m, rs, now))
    BY <1>7 DEF Associate
  <2>4. m \in Material
    BY <2>2, <2>3 DEF Case
  <2>5. WithAssociation(held[w], m, rs, now) \in Case
    BY <2>2, <2>3, <2>4, WithAssociationFollows DEF Follows
  <2>6. SameMaterials(held[w], WithAssociation(held[w], m, rs, now))
    BY <2>2, <2>3, AssociationAddsNoMaterial
  <2>. QED
    BY <1>5, <2>1, <2>3, <2>5, <2>6
<1>. QED
  BY <1>3, <1>4, <1>6, <1>7 DEF Proceed

\* A save stores the copy under its key, over the base it was made from, and
\* the copy becomes its own base.
LEMMA SaveStores ==
  ASSUME IntakeInv, NEW w \in Writers, Save(w)
  PROVE  LET k == StorageKey(held[w]) IN
         /\ k \in Keys /\ held[w] # NoCase /\ cases[k] = base[w]
         /\ cases'[k] = held[w] /\ \A j \in Keys \ {k} : cases'[j] = cases[j]
         /\ held' = held /\ base'[w] = held[w]
         /\ \A v \in Writers \ {w} : base'[v] = base[v]
<1> DEFINE k == StorageKey(held[w])
<1>1. k \in Keys /\ held[w] \in Case /\ held[w].revision = RevisionOf(cases[k]) + 1
  BY SaveReplacesBase DEF IntakeInv
<1>2. cases[k] = base[w]
  <2> USE DEF IntakeInv, CopyInv, StoreInv, TypeOK
  <2>1. held[w] # NoCase /\ held[w] # base[w] /\ held[w].revision \in Nat
    BY <1>1 DEF Save, Case
  <2>2. cases[k] \in Case \cup {NoCase}
    BY <1>1
  <2>3. RevisionOf(cases[k]) \in Nat /\ (cases[k] # NoCase => RevisionOf(cases[k]) # 0)
    BY <2>2 DEF RevisionOf, Case
  <2>4. CASE base[w] = NoCase
    BY <1>1, <2>1, <2>3, <2>4 DEF HeldFromBase
  <2>5. CASE base[w] # NoCase
    <3>1. base[w].revision \in Nat /\ held[w].revision = base[w].revision + 1 /\ k = StorageKey(base[w])
      BY <2>1, <2>5 DEF HeldFromBase, Case
    <3>2. base[w].revision = RevisionOf(cases[k])
      BY <1>1, <2>3, <3>1
    <3>. QED
      BY <2>5, <3>1, <3>2 DEF SnapshotAgreement
  <2>. QED
    BY <2>4, <2>5
<1>. QED
  BY <1>1, <1>2 DEF Save, IntakeInv, CopyInv, StoreInv, TypeOK

-----------------------------------------------------------------------------
(* The records of one case account for its materials *)

Accounts(recs, materials) ==
  /\ \A m \in materials : \E d \in recs : Records(d, m)
  /\ \A d \in recs : \E m \in materials : Records(d, m)
  /\ \A d, e \in recs : (d.kind = e.kind /\ d.ref = e.ref) => d = e

MaterialsAt(k) == IF cases[k] = NoCase THEN {} ELSE cases[k].materials

\* The account, case by case.
LEMMA AccountsPerCase ==
  RecordsAccountForCase <=> \A k \in Keys : Accounts(RecordsOf(k), MaterialsAt(k))
BY DEF RecordsAccountForCase, Accounts, MaterialsAt

\* Records stay true of material that is offered for more requirements.
LEMMA AccountsGrow ==
  ASSUME NEW recs, NEW c, NEW d, SameMaterials(c, d), Accounts(recs, c.materials)
  PROVE  Accounts(recs, d.materials)
<1>1. \A r, m, n : Records(r, m) /\ Grown(m, n) => Records(r, n)
  BY DEF Records, Grown
<1>. QED
  BY <1>1 DEF Accounts, SameMaterials

\* One new material and its record, of evidence or a claim the case lacked.
LEMMA AccountsExtend ==
  ASSUME NEW recs, NEW materials, NEW d, NEW m, Accounts(recs, materials), Records(d, m),
         \A o \in materials : ~(o.kind = d.kind /\ o.ref = d.ref)
  PROVE  Accounts(recs \cup {d}, materials \cup {m})
<1>1. \A e \in recs : ~(e.kind = d.kind /\ e.ref = d.ref)
  BY DEF Accounts, Records
<1>. QED
  BY <1>1 DEF Accounts

\* Committing a case without a record keeps the account of that case.
LEMMA CommitCaseKeeps ==
  ASSUME IntakeInv, NEW w \in Writers, CommitCase(w)
  PROVE  CopyAccounted(w)' /\ RecordsAccountForCase'
<1> DEFINE k == StorageKey(held[w])
<1>1. /\ k \in Keys /\ held[w] # NoCase /\ cases[k] = base[w]
      /\ cases'[k] = held[w] /\ \A j \in Keys \ {k} : cases'[j] = cases[j]
      /\ held' = held /\ base'[w] = held[w]
  BY SaveStores DEF CommitCase
<1>2. pending[w] = NoRecord /\ pending' = pending /\ records' = records
  BY DEF CommitCase
<1>3. CopyAccounted(w)'
  BY <1>1, <1>2, SameMaterialsReflexive DEF CopyAccounted
<1>4. \A j \in Keys : RecordsOf(j)' = RecordsOf(j)
  BY <1>2 DEF RecordsOf, Stored
<1>5. Accounts(RecordsOf(k), held[w].materials)
  <2>1. Accounts(RecordsOf(k), MaterialsAt(k))
    BY <1>1, AccountsPerCase DEF IntakeInv
  <2>2. CASE base[w] = NoCase
    BY <1>1, <1>2, <2>1, <2>2 DEF IntakeInv, CopyAccounted, MaterialsAt
  <2>3. CASE base[w] # NoCase
    BY <1>1, <1>2, <2>1, <2>3, AccountsGrow DEF IntakeInv, CopyAccounted, MaterialsAt
  <2>. QED
    BY <2>2, <2>3
<1>6. ASSUME NEW j \in Keys PROVE Accounts(RecordsOf(j), MaterialsAt(j))'
  <2>1. CASE j = k
    BY <1>1, <1>4, <1>5, <2>1 DEF MaterialsAt, Accounts, Records
  <2>2. CASE j # k
    <3>1. Accounts(RecordsOf(j), MaterialsAt(j))
      BY AccountsPerCase DEF IntakeInv
    <3>. QED
      BY <1>1, <1>4, <2>2, <3>1 DEF MaterialsAt, Accounts, Records
  <2>. QED
    BY <2>1, <2>2
<1>7. RecordsAccountForCase'
  BY <1>6 DEF RecordsAccountForCase, Accounts, MaterialsAt
<1>. QED
  BY <1>3, <1>7

\* Committing an intake adds its record to the records of its case, and to
\* no other case's.
LEMMA CommitBothStores ==
  ASSUME IntakeInv, NEW w \in Writers, CommitBoth(w)
  PROVE  LET k == StorageKey(held[w])
             d == pending[w]
         IN  /\ d # NoRecord /\ d \in Record /\ <<d.tenantId, d.caseId>> = k
             /\ RecordsTyped'
             /\ \A j \in Keys :
                  /\ j = k => RecordsOf(j)' = RecordsOf(j) \cup {d}
                  /\ j # k => RecordsOf(j)' = RecordsOf(j)
<1> DEFINE k == StorageKey(held[w])
<1>1. PICK d : d = pending[w]
  OBVIOUS
<1>2. k \in Keys
  BY SaveStores DEF CommitBoth
<1>3. /\ d # NoRecord /\ d \in Record /\ records[RecordKey(d)] = NoRecord
      /\ records' = [records EXCEPT ![RecordKey(d)] = d]
  BY <1>1 DEF CommitBoth, RecordAccepted, IntakeInv
<1>4. RecordKey(d) \in RecordKeys
  BY <1>3 DEF Record, RecordKey, RecordKeys
<1>5. RecordsTyped'
  BY <1>3, <1>4 DEF IntakeInv, RecordsTyped
<1>6. Stored' = Stored \cup {d}
  <2>1. ASSUME NEW e \in Stored' PROVE e \in Stored \cup {d}
    BY <1>3, <1>4 DEF Stored, IntakeInv, RecordsTyped
  <2>2. ASSUME NEW e \in Stored PROVE e \in Stored'
    <3>1. PICK j \in RecordKeys : e = records[j] /\ e # NoRecord
      BY DEF Stored
    <3>2. records'[j] = records[j]
      BY <1>3, <3>1
    <3>. QED
      BY <3>1, <3>2 DEF Stored
  <2>3. d \in Stored'
    <3>1. records'[RecordKey(d)] = d
      BY <1>3, <1>4 DEF IntakeInv, RecordsTyped
    <3>. QED
      BY <1>3, <1>4, <3>1 DEF Stored
  <2>. QED
    BY <2>1, <2>2, <2>3
<1>7. <<d.tenantId, d.caseId>> = k
  BY <1>1, <1>3 DEF IntakeInv, CopyAccounted
<1>8. \A j \in Keys : /\ j = k => RecordsOf(j)' = RecordsOf(j) \cup {d}
                      /\ j # k => RecordsOf(j)' = RecordsOf(j)
  BY <1>6, <1>7 DEF RecordsOf
<1>. QED
  BY <1>1, <1>3, <1>5, <1>7, <1>8

\* Committing an intake keeps the account of its case.
LEMMA CommitBothKeeps ==
  ASSUME IntakeInv, NEW w \in Writers, CommitBoth(w)
  PROVE  CopyAccounted(w)' /\ RecordsTyped' /\ RecordsAccountForCase'
<1> DEFINE k == StorageKey(held[w])
<1>1. PICK d : d = pending[w]
  OBVIOUS
<1>2. /\ k \in Keys /\ held[w] # NoCase /\ cases[k] = base[w]
      /\ cases'[k] = held[w] /\ \A j \in Keys \ {k} : cases'[j] = cases[j]
      /\ held' = held /\ base'[w] = held[w]
  BY SaveStores DEF CommitBoth
<1>3. d # NoRecord /\ d \in Record /\ pending'[w] = NoRecord
  BY <1>1 DEF CommitBoth, IntakeInv
<1>4. RecordsTyped'
  BY CommitBothStores
<1>5. base[w] # NoCase /\ NotInCase(base[w], d.kind, d)
  BY <1>1, <1>3 DEF IntakeInv, CopyAccounted
<1>6. PICK m : held[w].materials = base[w].materials \cup {m} /\ Records(d, m)
  BY <1>1, <1>3 DEF IntakeInv, CopyAccounted
<1>7. \A j \in Keys : /\ j = k => RecordsOf(j)' = RecordsOf(j) \cup {d}
                      /\ j # k => RecordsOf(j)' = RecordsOf(j)
  BY <1>1, CommitBothStores
<1>8. Accounts(RecordsOf(k) \cup {d}, held[w].materials)
  <2>1. Accounts(RecordsOf(k), base[w].materials)
    BY <1>2, <1>5, AccountsPerCase DEF IntakeInv, MaterialsAt
  <2>. QED
    BY <1>5, <1>6, <2>1, AccountsExtend DEF NotInCase
<1>9. ASSUME NEW j \in Keys PROVE Accounts(RecordsOf(j), MaterialsAt(j))'
  <2>1. CASE j = k
    BY <1>2, <1>7, <1>8, <2>1 DEF MaterialsAt, Accounts, Records
  <2>2. CASE j # k
    <3>1. Accounts(RecordsOf(j), MaterialsAt(j))
      BY AccountsPerCase DEF IntakeInv
    <3>. QED
      BY <1>2, <1>7, <2>2, <3>1 DEF MaterialsAt, Accounts, Records
  <2>. QED
    BY <2>1, <2>2
<1>10. RecordsAccountForCase'
  BY <1>9 DEF RecordsAccountForCase, Accounts, MaterialsAt
<1>11. CopyAccounted(w)'
  BY <1>2, <1>3, SameMaterialsReflexive DEF CopyAccounted
<1>. QED
  BY <1>4, <1>10, <1>11

\* Giving up leaves nothing to account for.
LEMMA GiveUpKeeps ==
  ASSUME IntakeInv, NEW w \in Writers, GiveUp(w)
  PROVE  CopyAccounted(w)'
BY DEF GiveUp, Abandon, CopyAccounted, IntakeInv, CopyInv, StoreInv, TypeOK

\* A step of one writer leaves the other writers' copies and records alone.
LEMMA OthersUntouched ==
  ASSUME IntakeInv, NEW w \in Writers, IntakeStep(w), NEW v \in Writers, v # w
  PROVE  held'[v] = held[v] /\ base'[v] = base[v] /\ pending'[v] = pending[v]
<1> USE DEF IntakeInv, CopyInv, StoreInv, TypeOK
<1>1. CASE Proceed(w)
  BY <1>1 DEF Proceed, Load, Create, Activate, Cancel, Associate, Produce
<1>2. CASE CommitCase(w) \/ CommitBoth(w)
  BY <1>2 DEF CommitCase, CommitBoth, Save
<1>3. CASE GiveUp(w)
  BY <1>3 DEF GiveUp, Abandon
<1>4. ASSUME NEW s, NEW now, IntakeEvidence(w, s, now) \/ RecordDeclaration(w, s, now)
      PROVE  held'[v] = held[v] /\ base'[v] = base[v] /\ pending'[v] = pending[v]
  BY <1>4 DEF IntakeEvidence, RecordDeclaration, TakeIn, AddMaterial, Produce
<1>. QED
  BY <1>1, <1>2, <1>3, <1>4 DEF IntakeStep

\* Every step keeps the account of the case it stores, and of its writer.
LEMMA StepAccounts ==
  ASSUME MaxPending = 1, IntakeInv, NEW w \in Writers, IntakeStep(w)
  PROVE  /\ pending' \in [Writers -> Record \cup {NoRecord}]
         /\ CopyAccounted(w)' /\ RecordsTyped' /\ RecordsAccountForCase'
<1>1. ASSUME UNCHANGED <<cases, records>> PROVE RecordsTyped' /\ RecordsAccountForCase'
  BY <1>1 DEF IntakeInv, RecordsTyped, RecordsAccountForCase, RecordsOf, Stored
<1>2. ASSUME NEW kind \in RecordKinds, NEW s \in EvidenceSubmissions \cup DeclarationSubmissions,
             NEW now \in Times, MayOperate(w), TakeIn(w, kind, s, now)
      PROVE  /\ pending' \in [Writers -> Record \cup {NoRecord}]
             /\ CopyAccounted(w)' /\ RecordsTyped' /\ RecordsAccountForCase'
  <2>1. /\ CopyAccounted(w)' /\ pending'[w] \in Record
        /\ UNCHANGED <<cases, base, records>>
    BY <1>2, TakeInAccounts
  <2>2. PICK d : pending' = [pending EXCEPT ![w] = d]
    BY <1>2 DEF TakeIn
  <2>. QED
    BY <1>1, <2>1, <2>2 DEF IntakeInv
<1>3. CASE \E s \in EvidenceSubmissions, now \in Times : IntakeEvidence(w, s, now)
  BY <1>2, <1>3 DEF IntakeEvidence, RecordKinds
<1>4. CASE \E s \in DeclarationSubmissions, now \in Times : RecordDeclaration(w, s, now)
  BY <1>2, <1>4 DEF RecordDeclaration, RecordKinds
<1>5. CASE Proceed(w)
  <2>1. UNCHANGED <<cases, records, pending>>
    BY <1>5 DEF Proceed, Load, Create, Activate, Cancel, Associate, Produce
  <2>. QED
    BY <1>1, <1>5, <2>1, ProceedAccounts DEF IntakeInv
<1>6. CASE CommitCase(w)
  <2>1. UNCHANGED <<records, pending>>
    BY <1>6 DEF CommitCase
  <2>. QED
    BY <1>6, <2>1, CommitCaseKeeps DEF IntakeInv, RecordsTyped
<1>7. CASE CommitBoth(w)
  <2>1. pending' \in [Writers -> Record \cup {NoRecord}]
    BY <1>7 DEF CommitBoth, IntakeInv
  <2>. QED
    BY <1>7, <2>1, CommitBothKeeps
<1>8. CASE GiveUp(w)
  <2>1. UNCHANGED <<cases, records>> /\ pending' \in [Writers -> Record \cup {NoRecord}]
    BY <1>8 DEF GiveUp, Abandon, IntakeInv
  <2>. QED
    BY <1>1, <1>8, <2>1, GiveUpKeeps
<1>. QED
  BY <1>3, <1>4, <1>5, <1>6, <1>7, <1>8 DEF IntakeStep

\* The invariant of the account is inductive.
LEMMA IntakeInvNext ==
  ASSUME MaxPending = 1, IntakeInv, [IntakeNext]_intakeVars
  PROVE  IntakeInv'
<1>1. CopyInv'
  <2>1. [Next]_vars
    BY IntakeSteps DEF IntakeNext, Next, intakeVars
  <2>. QED
    BY <2>1, CopyInvNext DEF IntakeInv
<1>2. CASE UNCHANGED intakeVars
  BY <1>1, <1>2 DEF intakeVars, vars, IntakeInv, RecordsTyped, RecordsAccountForCase,
                    RecordsOf, Stored, CopyAccounted
<1>3. ASSUME NEW w \in Writers, IntakeStep(w) PROVE IntakeInv'
  <2>1. /\ pending' \in [Writers -> Record \cup {NoRecord}]
        /\ CopyAccounted(w)' /\ RecordsTyped' /\ RecordsAccountForCase'
    BY <1>3, StepAccounts
  <2>2. ASSUME NEW v \in Writers, v # w PROVE CopyAccounted(v)'
    BY <1>3, <2>2, OthersUntouched DEF IntakeInv, CopyAccounted
  <2>. QED
    BY <1>1, <2>1, <2>2 DEF IntakeInv
<1>. QED
  BY <1>2, <1>3 DEF IntakeNext

\* When callers save after every operation, and both values of an intake
\* together, the receipts and declaration records are the exact account of the
\* evidence and claims in every stored case.
THEOREM RecordsAreTheAccount ==
  ASSUME MaxPending = 1
  PROVE  IntakeSpec => []RecordsAccountForCase
<1>1. IntakeInv /\ [IntakeNext]_intakeVars => IntakeInv'
  BY IntakeInvNext
<1>2. IntakeInv => RecordsAccountForCase
  BY DEF IntakeInv
<1>. QED
  BY <1>1, <1>2, IntakeInvInit, PTL DEF IntakeSpec
-----------------------------------------------------------------------------
(* The shape of the records, however many operations a writer saves at once *)

\* A record waiting to be committed is about the case its writer holds.
PendingTyped(w) ==
  pending[w] # NoRecord =>
    /\ held[w] # NoCase
    /\ pending[w].tenantId = TenantOf[w]
    /\ pending[w].caseId = held[w].caseId
    /\ pending[w].caseRevision \in 1..held[w].revision

IntakeTypeInv ==
  /\ StoreInv
  /\ RecordsTyped
  /\ pending \in [Writers -> Record \cup {NoRecord}]
  /\ \A w \in Writers : PendingTyped(w)

\* An intake leaves a record of its writer's own case, at its new revision.
LEMMA TakeInTyped ==
  ASSUME IntakeTypeInv, NEW w \in Writers, MayOperate(w),
         NEW kind \in RecordKinds, NEW now \in Times,
         NEW s \in EvidenceSubmissions \cup DeclarationSubmissions,
         TakeIn(w, kind, s, now)
  PROVE  PendingTyped(w)' /\ pending'[w] \in Record /\ UNCHANGED <<cases, records>>
<1> DEFINE m == MaterialOf(kind, s, now)
           c == WithMaterial(held[w], m)
           d == RecordOf(kind, s, c)
<1>1. held[w] # NoCase /\ held[w] \in Case /\ held[w].tenantId = TenantOf[w]
  BY DEF MayOperate, IntakeTypeInv, StoreInv, TypeOK, TenantsSeparate
<1>2. /\ UNCHANGED <<cases, records>> /\ CanAddMaterial(held[w], TenantOf[w], m)
      /\ held' = [held EXCEPT ![w] = c] /\ pending' = [pending EXCEPT ![w] = d]
  BY DEF TakeIn, AddMaterial, Produce
<1>3. Follows(held[w], c)
  BY <1>1, <1>2, MaterialOfType, WithMaterialFollows
<1>4. /\ c \in Case /\ c.tenantId = TenantOf[w] /\ c.revision \in 1..c.revision
  BY <1>1, <1>3 DEF Follows, Case
<1>5. /\ d \in Record /\ d.tenantId = c.tenantId /\ d.caseId = c.caseId
      /\ d.caseRevision = c.revision
  BY <1>4, RecordOfType
<1> HIDE DEF m, c, d
<1>6. held'[w] = c /\ pending'[w] = d /\ c # NoCase
  BY <1>2, <1>4, SentinelAssumption DEF IntakeTypeInv, StoreInv, TypeOK
<1> QED BY <1>2, <1>4, <1>5, <1>6 DEF PendingTyped

\* The writer's other operations keep a waiting record about its case, whose
\* revision only grows.
LEMMA ProceedTyped ==
  ASSUME IntakeTypeInv, NEW w \in Writers, Proceed(w)
  PROVE  PendingTyped(w)'
<1>1. pending'[w] = pending[w] /\ TypeOK /\ PendingTyped(w)
  BY DEF Proceed, IntakeTypeInv, StoreInv
<1>2. CASE held[w] = NoCase
  BY <1>1, <1>2 DEF PendingTyped
<1>3. CASE held[w] # NoCase
  <2>1. Operate(w)
    BY <1>1, <1>3, OperationsReplace DEF Proceed, Load, Create
  <2>2. PICK c \in Case : Follows(held[w], c) /\ Produce(w, c)
    BY <2>1 DEF Operate
  <2>3. held'[w] = c /\ c # NoCase
    BY <2>2, <1>1, SentinelAssumption DEF Produce, TypeOK
  <2>4. /\ held[w].revision \in Nat /\ c.revision = held[w].revision + 1
        /\ c.caseId = held[w].caseId
    BY <2>2, <1>1, <1>3 DEF Follows, StorageKey, TypeOK, Case
  <2> QED BY <2>3, <2>4, <1>1, <1>3 DEF PendingTyped
<1> QED BY <1>2, <1>3

\* A record stored under its key keeps the records typed.
LEMMA CommitBothTyped ==
  ASSUME IntakeTypeInv, NEW w \in Writers, CommitBoth(w)
  PROVE  RecordsTyped' /\ PendingTyped(w)' /\ pending' \in [Writers -> Record \cup {NoRecord}]
<1>1. PICK d : d = pending[w]
  OBVIOUS
<1>2. /\ d \in Record /\ records' = [records EXCEPT ![RecordKey(d)] = d]
      /\ pending' = [pending EXCEPT ![w] = NoRecord]
  BY <1>1 DEF CommitBoth, IntakeTypeInv
<1>3. RecordKey(d) \in RecordKeys
  BY <1>2 DEF Record, RecordKey, RecordKeys
<1> QED BY <1>2, <1>3 DEF IntakeTypeInv, RecordsTyped, PendingTyped

\* Every step keeps the shape of the records.
LEMMA IntakeTypeInvNext == IntakeTypeInv /\ [IntakeNext]_intakeVars => IntakeTypeInv'
<1> SUFFICES ASSUME IntakeTypeInv, [IntakeNext]_intakeVars
             PROVE  IntakeTypeInv'
  OBVIOUS
<1>0. StoreInv'
  <2>1. [Next]_vars
    BY IntakeSteps DEF IntakeNext, Next, intakeVars
  <2> QED BY <2>1, StoreInvNext DEF IntakeTypeInv
<1>1. ASSUME UNCHANGED records PROVE RecordsTyped'
  BY <1>1 DEF IntakeTypeInv, RecordsTyped
<1>2. CASE UNCHANGED intakeVars
  BY <1>0, <1>1, <1>2 DEF intakeVars, vars, IntakeTypeInv, PendingTyped
<1>3. ASSUME NEW w \in Writers, IntakeStep(w)
      PROVE  IntakeTypeInv'
  <2> DEFINE Kept == /\ RecordsTyped' /\ PendingTyped(w)'
                     /\ pending' \in [Writers -> Record \cup {NoRecord}]
  <2>1. ASSUME NEW kind \in RecordKinds, MayOperate(w), NEW now \in Times,
               NEW s \in EvidenceSubmissions \cup DeclarationSubmissions,
               TakeIn(w, kind, s, now)
        PROVE  Kept
    <3>1. PICK d : pending' = [pending EXCEPT ![w] = d]
      BY <2>1 DEF TakeIn
    <3> QED BY <1>1, <2>1, <3>1, TakeInTyped DEF IntakeTypeInv
  <2>2. Kept
    <3>1. CASE \E s \in EvidenceSubmissions, now \in Times : IntakeEvidence(w, s, now)
      BY <2>1, <3>1 DEF IntakeEvidence, RecordKinds
    <3>2. CASE \E s \in DeclarationSubmissions, now \in Times : RecordDeclaration(w, s, now)
      BY <2>1, <3>2 DEF RecordDeclaration, RecordKinds
    <3>3. CASE Proceed(w)
      BY <1>1, <3>3, ProceedTyped DEF Proceed, IntakeTypeInv
    <3>4. CASE CommitCase(w)
      BY <1>1, <3>4 DEF CommitCase, Save, IntakeTypeInv, PendingTyped
    <3>5. CASE CommitBoth(w)
      BY <3>5, CommitBothTyped
    <3>6. CASE GiveUp(w)
      BY <1>1, <3>6 DEF GiveUp, IntakeTypeInv, PendingTyped
    <3> QED BY <1>3, <3>1, <3>2, <3>3, <3>4, <3>5, <3>6 DEF IntakeStep
  <2>3. ASSUME NEW v \in Writers, v # w
        PROVE  held'[v] = held[v] /\ pending'[v] = pending[v]
    <3> USE DEF IntakeTypeInv, StoreInv, TypeOK
    <3>1. CASE Proceed(w)
      BY <2>3, <3>1 DEF Proceed, Load, Create, Activate, Cancel, Associate, Produce
    <3>2. CASE CommitCase(w) \/ CommitBoth(w)
      BY <2>3, <3>2 DEF CommitCase, CommitBoth, Save
    <3>3. CASE GiveUp(w)
      BY <2>3, <3>3 DEF GiveUp, Abandon
    <3>4. ASSUME NEW s, NEW now, IntakeEvidence(w, s, now) \/ RecordDeclaration(w, s, now)
          PROVE  held'[v] = held[v] /\ pending'[v] = pending[v]
      BY <2>3, <3>4 DEF IntakeEvidence, RecordDeclaration, TakeIn, AddMaterial, Produce
    <3> QED BY <1>3, <3>1, <3>2, <3>3, <3>4 DEF IntakeStep
  <2>4. ASSUME NEW v \in Writers
        PROVE  PendingTyped(v)'
    <3>1. CASE v = w
      BY <2>2, <3>1
    <3>2. CASE v # w
      BY <2>3, <3>2 DEF IntakeTypeInv, PendingTyped
    <3> QED BY <3>1, <3>2
  <2> QED BY <1>0, <2>2, <2>4 DEF IntakeTypeInv
<1> QED BY <1>2, <1>3 DEF IntakeNext

\* Records are of the shape the code gives them, and a record waiting to be
\* committed is about the case its writer holds, however many operations a
\* writer applies before it saves.
THEOREM IntakeTypeCorrect == IntakeSpec => []IntakeTypeOK
<1>1. IntakeInit => IntakeTypeInv
  BY StoreInvInit DEF IntakeInit, IntakeTypeInv, RecordsTyped, PendingTyped
<1>2. IntakeTypeInv => IntakeTypeOK
  BY DEF IntakeTypeInv, StoreInv, RecordsTyped, PendingTyped, IntakeTypeOK
<1> QED BY <1>1, <1>2, IntakeTypeInvNext, PTL DEF IntakeSpec

-----------------------------------------------------------------------------
(* The records of a case order what entered it *)

\* Records are bounded by the revision of the stored case, and a record
\* waiting to be committed is one beyond it, pointing only at evidence its
\* base holds.
PendingInOrder(w) ==
  pending[w] # NoRecord =>
    /\ pending[w].caseRevision = held[w].revision
    /\ LinksResolve(base[w], pending[w])

OrderInv ==
  /\ IntakeInv
  /\ RecordsInOrder
  /\ \A k \in Keys : \A d \in RecordsOf(k) :
       cases[k] # NoCase /\ d.caseRevision <= cases[k].revision
  /\ \A w \in Writers : PendingInOrder(w)

\* Stored records are records.
LEMMA RecordsOfType ==
  ASSUME RecordsTyped, NEW k \in Keys, NEW d \in RecordsOf(k)
  PROVE  d \in Record
BY DEF RecordsTyped, RecordsOf, Stored

\* An intake leaves a record at its copy's new revision, whose links its base
\* resolves.
LEMMA TakeInInOrder ==
  ASSUME MaxPending = 1, IntakeInv, NEW w \in Writers, MayOperate(w),
         NEW kind \in RecordKinds, NEW now \in Times,
         NEW s \in EvidenceSubmissions \cup DeclarationSubmissions,
         LinksResolve(held[w], s), TakeIn(w, kind, s, now)
  PROVE  PendingInOrder(w)'
<1> DEFINE c == WithMaterial(held[w], MaterialOf(kind, s, now))
           d == RecordOf(kind, s, c)
<1>1. held[w] = base[w] /\ held[w] \in Case
  BY OperatingCopyIsBase
<1>2. /\ held' = [held EXCEPT ![w] = c] /\ pending' = [pending EXCEPT ![w] = d]
      /\ base' = base
  BY DEF TakeIn, AddMaterial, Produce
<1>3. d.caseRevision = c.revision /\ d.links = s.links
  BY DEF RecordOf
<1> HIDE DEF c, d
<1>4. held'[w] = c /\ pending'[w] = d
  BY <1>2 DEF IntakeInv, CopyInv, StoreInv, TypeOK
<1> QED BY <1>1, <1>2, <1>3, <1>4 DEF PendingInOrder, LinksResolve

\* After every other operation no record waits.
LEMMA StepInOrder ==
  ASSUME MaxPending = 1, IntakeInv, NEW w \in Writers, IntakeStep(w)
  PROVE  PendingInOrder(w)'
<1>1. ASSUME NEW s \in EvidenceSubmissions, NEW now \in Times, IntakeEvidence(w, s, now)
      PROVE  PendingInOrder(w)'
  <2>1. LinksResolve(held[w], s)
    BY IntakeAssumption DEF LinksResolve
  <2> QED BY <1>1, <2>1, TakeInInOrder DEF IntakeEvidence, RecordKinds
<1>2. ASSUME NEW s \in DeclarationSubmissions, NEW now \in Times, RecordDeclaration(w, s, now)
      PROVE  PendingInOrder(w)'
  BY <1>2, TakeInInOrder DEF RecordDeclaration, RecordKinds
<1>3. ASSUME pending'[w] = NoRecord
      PROVE  PendingInOrder(w)'
  BY <1>3 DEF PendingInOrder
<1>4. CASE Proceed(w)
  <2>1. held[w] = NoCase \/ MayOperate(w)
    BY <1>4 DEF Proceed, Load, Create, Activate, Cancel, Associate
  <2>2. pending[w] = NoRecord
    BY <2>1, OperatingCopyIsBase DEF IntakeInv, CopyAccounted
  <2> QED BY <1>3, <1>4, <2>2 DEF Proceed
<1>5. CASE CommitCase(w) \/ CommitBoth(w) \/ GiveUp(w)
  BY <1>3, <1>5 DEF CommitCase, CommitBoth, GiveUp, IntakeInv
<1> QED BY <1>1, <1>2, <1>4, <1>5 DEF IntakeStep

\* A save stores the next revision of its case.
LEMMA SaveAdvances ==
  ASSUME IntakeInv, NEW w \in Writers, Save(w)
  PROVE  LET k == StorageKey(held[w]) IN
         /\ k \in Keys /\ held[w].revision \in Nat
         /\ cases[k] = base[w] /\ cases'[k] = held[w] /\ cases'[k] # NoCase
         /\ cases[k] # NoCase => /\ cases[k].revision \in Nat
                                 /\ held[w].revision = cases[k].revision + 1
         /\ \A j \in Keys \ {k} : cases'[j] = cases[j]
<1>1. LET k == StorageKey(held[w]) IN
      /\ k \in Keys /\ held[w] \in Case
      /\ held[w].revision = RevisionOf(cases[k]) + 1
  BY SaveReplacesBase DEF IntakeInv
<1>2. \A k \in Keys : cases[k] # NoCase => cases[k].revision \in Nat
  BY DEF IntakeInv, CopyInv, StoreInv, TypeOK, Case
<1>3. held[w].revision \in Nat
  BY <1>1 DEF Case
<1> QED BY <1>1, <1>2, <1>3, SaveStores DEF RevisionOf

\* A commit keeps the records of every case in order.
LEMMA CommitInOrder ==
  ASSUME OrderInv, NEW w \in Writers, CommitCase(w) \/ CommitBoth(w)
  PROVE  /\ RecordsInOrder'
         /\ \A j \in Keys : \A d \in RecordsOf(j)' :
              cases'[j] # NoCase /\ d.caseRevision <= cases'[j].revision
<1> DEFINE k == StorageKey(held[w])
           Ordered(recs) ==
             \A d \in recs :
               /\ \A e \in recs : d.caseRevision = e.caseRevision => d = e
               /\ \A x \in d.links : \E e \in recs :
                    e.kind = "Evidence" /\ e.ref = x /\ e.caseRevision < d.caseRevision
           Bounded(recs, c) == \A d \in recs : c # NoCase /\ d.caseRevision <= c.revision
<1>1. /\ k \in Keys /\ held[w].revision \in Nat
      /\ cases[k] = base[w] /\ cases'[k] = held[w] /\ cases'[k] # NoCase
      /\ cases[k] # NoCase => /\ cases[k].revision \in Nat
                              /\ held[w].revision = cases[k].revision + 1
      /\ \A j \in Keys \ {k} : cases'[j] = cases[j]
  BY SaveAdvances DEF OrderInv, CommitCase, CommitBoth
<1>2. ASSUME NEW j \in Keys
      PROVE  /\ Ordered(RecordsOf(j)) /\ Bounded(RecordsOf(j), cases[j])
             /\ \A d \in RecordsOf(j) : d.caseRevision \in Nat
  BY RecordsOfType DEF OrderInv, RecordsInOrder, IntakeInv, Record
<1>3. Bounded(RecordsOf(k), held[w])
  BY <1>1, <1>2
<1>4. CASE CommitCase(w)
  <2>1. \A j \in Keys : RecordsOf(j)' = RecordsOf(j)
    BY <1>4 DEF CommitCase, RecordsOf, Stored
  <2>2. ASSUME NEW j \in Keys
        PROVE  Ordered(RecordsOf(j)') /\ Bounded(RecordsOf(j)', cases'[j])
    BY <1>1, <1>2, <1>3, <2>1
  <2> QED BY <2>2 DEF RecordsInOrder
<1>5. CASE CommitBoth(w)
  <2>1. PICK p : p = pending[w]
    OBVIOUS
  <2>2. /\ p # NoRecord /\ p \in Record /\ <<p.tenantId, p.caseId>> = k
        /\ \A j \in Keys : /\ j = k => RecordsOf(j)' = RecordsOf(j) \cup {p}
                           /\ j # k => RecordsOf(j)' = RecordsOf(j)
    BY <1>5, <2>1, CommitBothStores DEF OrderInv
  <2>3. /\ base[w] # NoCase /\ p.caseRevision = held[w].revision
        /\ LinksResolve(base[w], p)
    BY <2>1, <2>2 DEF OrderInv, IntakeInv, CopyAccounted, PendingInOrder
  <2>4. \A d \in RecordsOf(k) : d.caseRevision < p.caseRevision /\ d.caseRevision \in Nat
    BY <1>1, <1>2, <2>3
  <2>5. ASSUME NEW x \in p.links
        PROVE  \E e \in RecordsOf(k) : e.kind = "Evidence" /\ e.ref = x
    <3>1. PICK m \in base[w].materials : m.kind = "Evidence" /\ m.ref = x
      BY <2>3, <2>5 DEF LinksResolve
    <3>2. PICK e \in RecordsOf(k) : Records(e, m)
      BY <1>1, <2>3, <3>1 DEF OrderInv, IntakeInv, RecordsAccountForCase
    <3> QED BY <3>1, <3>2 DEF Records
  <2>6. p.caseRevision \in Nat
    BY <1>1, <2>3
  <2>7. Ordered(RecordsOf(k) \cup {p}) /\ Bounded(RecordsOf(k) \cup {p}, held[w])
    <3>1. Bounded(RecordsOf(k) \cup {p}, held[w])
      BY <1>1, <1>3, <2>3, <2>6
    <3>2. ASSUME NEW d \in RecordsOf(k) \cup {p}
          PROVE  \A e \in RecordsOf(k) \cup {p} : d.caseRevision = e.caseRevision => d = e
      BY <1>1, <1>2, <2>4, <2>6
    <3>3. ASSUME NEW d \in RecordsOf(k) \cup {p}, NEW x \in d.links
          PROVE  \E e \in RecordsOf(k) \cup {p} :
                   e.kind = "Evidence" /\ e.ref = x /\ e.caseRevision < d.caseRevision
      <4>1. CASE d \in RecordsOf(k)
        BY <1>1, <1>2, <3>3, <4>1
      <4>2. CASE d = p
        BY <2>4, <2>5, <3>3, <4>2
      <4> QED BY <4>1, <4>2
    <3> QED BY <3>1, <3>2, <3>3
  <2> HIDE DEF k, Ordered, Bounded
  <2>8. ASSUME NEW j \in Keys
        PROVE  Ordered(RecordsOf(j)') /\ Bounded(RecordsOf(j)', cases'[j])
    <3>1. CASE j = k
      BY <1>1, <2>2, <2>7, <3>1
    <3>2. CASE j # k
      BY <1>1, <1>2, <2>2, <3>2
    <3> QED BY <3>1, <3>2
  <2> QED BY <2>8 DEF RecordsInOrder, Ordered, Bounded
<1> QED BY <1>4, <1>5

\* Every step keeps the records in order.
LEMMA OrderInvNext ==
  ASSUME MaxPending = 1, OrderInv, [IntakeNext]_intakeVars
  PROVE  OrderInv'
<1>1. IntakeInv'
  BY IntakeInvNext DEF OrderInv
<1>2. ASSUME UNCHANGED <<cases, records>>
      PROVE  /\ RecordsInOrder'
             /\ \A j \in Keys : \A d \in RecordsOf(j)' :
                  cases'[j] # NoCase /\ d.caseRevision <= cases'[j].revision
  BY <1>2 DEF OrderInv, RecordsInOrder, RecordsOf, Stored
<1>3. CASE UNCHANGED intakeVars
  BY <1>1, <1>2, <1>3 DEF intakeVars, vars, OrderInv, PendingInOrder
<1>4. ASSUME NEW w \in Writers, IntakeStep(w)
      PROVE  OrderInv'
  <2>1. \A v \in Writers : PendingInOrder(v)'
    <3>1. ASSUME NEW v \in Writers, v # w
          PROVE  PendingInOrder(v)'
      BY <1>4, <3>1, OthersUntouched DEF OrderInv, PendingInOrder
    <3> QED BY <1>4, <3>1, StepInOrder DEF OrderInv
  <2>2. UNCHANGED <<cases, records>> \/ CommitCase(w) \/ CommitBoth(w)
    BY <1>4 DEF IntakeStep, IntakeEvidence, RecordDeclaration, TakeIn, AddMaterial, Produce,
                Proceed, Load, Create, Activate, Cancel, Associate, GiveUp, Abandon
  <2>3. /\ RecordsInOrder'
        /\ \A j \in Keys : \A d \in RecordsOf(j)' :
             cases'[j] # NoCase /\ d.caseRevision <= cases'[j].revision
    BY <1>2, <2>2, CommitInOrder
  <2> QED BY <1>1, <2>1, <2>3 DEF OrderInv
<1> QED BY <1>3, <1>4 DEF IntakeNext

\* When callers save after every operation, the records of one case, of both
\* repositories, are at revisions of their own, and a declaration comes after
\* the evidence it points at.
THEOREM RecordsFollowTheCase ==
  ASSUME MaxPending = 1
  PROVE  IntakeSpec => []RecordsInOrder
<1>1. IntakeInit => OrderInv
  <2>1. IntakeInit => \A k \in Keys : RecordsOf(k) = {}
    BY DEF IntakeInit, RecordsOf, Stored
  <2> QED BY <2>1, IntakeInvInit DEF IntakeInit, OrderInv, RecordsInOrder, PendingInOrder
<1>2. OrderInv /\ [IntakeNext]_intakeVars => OrderInv'
  BY OrderInvNext
<1>3. OrderInv => RecordsInOrder
  BY DEF OrderInv
<1> QED BY <1>1, <1>2, <1>3, PTL DEF IntakeSpec

=============================================================================
