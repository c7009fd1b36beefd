---------------------------- MODULE MaterialIntake ----------------------------
(***************************************************************************)
(* Evidence intake and declarations: the two operations through which       *)
(* evidence and claims enter a case.  Each is a pure function of the copy   *)
(* of the case a writer holds that returns two values, the next case and    *)
(* an immutable record of what entered it, for two repositories.  The       *)
(* writer commits both together or neither, as the package asks of its      *)
(* callers, and the copy each check was made on can be stale by then.       *)
(*                                                                         *)
(* The writers are those of ProtocolizationCase, whose other operations     *)
(* interleave; material of other kinds is left out.                         *)
(***************************************************************************)
EXTENDS ProtocolizationCase

CONSTANTS
  EvidenceSubmissions,     \* [id, caseId, materialId, ref, requirementIds]
  DeclarationSubmissions,  \* the same, with claimType and links
  RecordIds,               \* identifiers tenants mint for intakes, declarations
  ClaimTypes, Answers,     \* by profile: <<requirement, claim type>> asked for
  NoRecord

RecordKinds == {"Evidence", "Declaration"}

Record ==
  [kind: RecordKinds, id: RecordIds, tenantId: Tenants, caseId: CaseIds,
   materialId: MaterialIds, ref: Refs, requirementIds: SUBSET Requirements,
   links: SUBSET Refs, recordedAt: Times, caseRevision: Nat]

Submission ==
  [id: RecordIds, caseId: CaseIds, materialId: MaterialIds, ref: Refs,
   requirementIds: SUBSET Requirements, claimType: ClaimTypes, links: SUBSET Refs]

ASSUME IntakeAssumption ==
  /\ RecordKinds \subseteq Kinds
  /\ EvidenceSubmissions \cup DeclarationSubmissions \subseteq Submission
  /\ \A s \in EvidenceSubmissions : s.links = {}
  /\ Answers \in [Profiles -> SUBSET (Requirements \X ClaimTypes)]
  /\ NoRecord \notin Record

VARIABLES
  records,  \* both repositories' maps: (kind, tenant, id) -> record
  pending   \* writer -> the record returned with the case it holds

intakeVars == <<vars, records, pending>>

RecordKeys == RecordKinds \X Tenants \X RecordIds
RecordKey(d) == <<d.kind, d.tenantId, d.id>>

IntakeInit ==
  /\ Init
  /\ records = [k \in RecordKeys |-> NoRecord]
  /\ pending = [w \in Writers |-> NoRecord]

-----------------------------------------------------------------------------
\* Mutation: a material is recognised by its own identifier.
MutNotInCase(c, kind, s) == \A m \in c.materials : m.materialId # s.materialId

\* One evidence record, one claim, is material of a case at most once.
NotInCase(c, kind, s) == \A m \in c.materials : ~(m.kind = kind /\ m.ref = s.ref)

\* Mutation: whatever the case holds may be linked.
MutLinksResolve(c, s) == s.links \subseteq {m.ref : m \in c.materials}

\* A declaration points only at evidence of this case.
LinksResolve(c, s) ==
  s.links \subseteq {m.ref : m \in {n \in c.materials : n.kind = "Evidence"}}

\* Every requirement a declaration is offered for asks for its type of claim.
\* (One the profile does not declare is refused by addProtocolizationCaseMaterial.)
Compatible(c, s) == \A r \in s.requirementIds : <<r, s.claimType>> \in Answers[c.profile]

MaterialOf(kind, s, now) ==
  [materialId |-> s.materialId, kind |-> kind, ref |-> s.ref,
   requirementIds |-> s.requirementIds, addedAt |-> now]

\* c: the case after the operation.
RecordOf(kind, s, c) ==
  [kind |-> kind, id |-> s.id, tenantId |-> c.tenantId, caseId |-> c.caseId,
   materialId |-> s.materialId, ref |-> s.ref, requirementIds |-> s.requirementIds,
   links |-> s.links, recordedAt |-> c.updatedAt, caseRevision |-> c.revision]

\* The case moves through addProtocolizationCaseMaterial; the record is
\* returned with it.  A writer commits one record at a time.
TakeIn(w, kind, s, now) ==
  LET m == MaterialOf(kind, s, now) IN
  /\ pending[w] = NoRecord
  /\ s.caseId = held[w].caseId
  /\ NotInCase(held[w], kind, s)
  /\ AddMaterial(w, m)
  /\ pending' = [pending EXCEPT ![w] = RecordOf(kind, s, WithMaterial(held[w], m))]
  /\ UNCHANGED records

IntakeEvidence(w, s, now) ==
  /\ MayOperate(w)
  /\ TakeIn(w, "Evidence", s, now)

RecordDeclaration(w, s, now) ==
  /\ MayOperate(w)
  /\ LinksResolve(held[w], s)
  /\ Compatible(held[w], s)
  /\ TakeIn(w, "Declaration", s, now)

\* Every other operation of a writer.
Proceed(w) ==
  /\ \/ \E id \in CaseIds : Load(w, id)
     \/ \E id \in CaseIds, p \in Profiles, now \in Times : Create(w, id, p, now)
     \/ \E now \in Times : Activate(w, now) \/ Cancel(w, now)
     \/ \E id \in MaterialIds, rs \in SUBSET Requirements, now \in Times :
          Associate(w, id, rs, now)
  /\ UNCHANGED <<records, pending>>

CommitCase(w) ==
  /\ pending[w] = NoRecord
  /\ Save(w)
  /\ UNCHANGED <<records, pending>>

\* A record is stored once under its tenant and identifier, never replaced.
RecordAccepted(d) == records[RecordKey(d)] = NoRecord

CommitBoth(w) ==
  LET d == pending[w] IN
  /\ d # NoRecord
  /\ Save(w)
  /\ RecordAccepted(d)
  /\ records' = [records EXCEPT ![RecordKey(d)] = d]
  /\ pending' = [pending EXCEPT ![w] = NoRecord]

\* Mutation: the record outlives the case it was returned with.
MutGiveUp(w) == Abandon(w) /\ UNCHANGED <<records, pending>>

\* A refused commit, a failed request: case and record are both gone.
GiveUp(w) ==
  /\ Abandon(w)
  /\ pending' = [pending EXCEPT ![w] = NoRecord]
  /\ UNCHANGED records

IntakeStep(w) ==
  \/ \E s \in EvidenceSubmissions, now \in Times : IntakeEvidence(w, s, now)
  \/ \E s \in DeclarationSubmissions, now \in Times : RecordDeclaration(w, s, now)
  \/ Proceed(w)
  \/ CommitCase(w)
  \/ CommitBoth(w)
  \/ GiveUp(w)

IntakeNext == \E w \in Writers : IntakeStep(w)

IntakeSpec == IntakeInit /\ [][IntakeNext]_intakeVars

-----------------------------------------------------------------------------
\* Records are of the shape the code gives them, and a record waiting to be
\* committed is about the case its writer holds.
IntakeTypeOK ==
  /\ TypeOK
  /\ records \in [RecordKeys -> Record \cup {NoRecord}]
  /\ pending \in [Writers -> Record \cup {NoRecord}]
  /\ \A k \in RecordKeys : records[k] # NoRecord => RecordKey(records[k]) = k
  /\ \A w \in Writers : pending[w] # NoRecord =>
       /\ held[w] # NoCase
       /\ pending[w].tenantId = TenantOf[w]
       /\ pending[w].caseId = held[w].caseId
       /\ pending[w].caseRevision \in 1..held[w].revision

Stored == {records[k] : k \in RecordKeys} \ {NoRecord}
RecordsOf(k) == {d \in Stored : <<d.tenantId, d.caseId>> = k}

\* What a record says is what the case holds.
Records(d, m) ==
  /\ m.kind = d.kind /\ m.materialId = d.materialId /\ m.ref = d.ref
  /\ d.requirementIds \subseteq m.requirementIds /\ d.recordedAt = m.addedAt

\* The records are the account of what entered a case, neither short of it nor
\* inflated: each stored material has one record and each record its material,
\* and no evidence and no claim is in a case twice, although every intake looks
\* for it only in its own copy.
RecordsAccountForCase ==
  \A k \in Keys :
    LET materials == IF cases[k] = NoCase THEN {} ELSE cases[k].materials IN
    /\ \A m \in materials : \E d \in RecordsOf(k) : Records(d, m)
    /\ \A d \in RecordsOf(k) : \E m \in materials : Records(d, m)
    /\ \A d, e \in RecordsOf(k) : (d.kind = e.kind /\ d.ref = e.ref) => d = e

\* The records of a case, of both repositories, order what entered it: each at
\* a revision of its own, and a declaration after the evidence it points at.
RecordsInOrder ==
  \A k \in Keys : \A d \in RecordsOf(k) :
    /\ \A e \in RecordsOf(k) : d.caseRevision = e.caseRevision => d = e
    /\ \A x \in d.links : \E e \in RecordsOf(k) :
         e.kind = "Evidence" /\ e.ref = x /\ e.caseRevision < d.caseRevision
=============================================================================
