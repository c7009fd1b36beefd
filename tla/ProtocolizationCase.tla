------------------------ MODULE ProtocolizationCase -------------------------
(***************************************************************************)
(* Concurrent writers over the ProtocolizationCase repository.             *)
(*                                                                         *)
(* A writer is one request of the composition layer around the package:    *)
(* it reads a case, applies aggregate operations to its own immutable      *)
(* copy, and saves.  Other writers interleave between any two of those     *)
(* steps, so the copy can be stale at the operation and at the save; the   *)
(* repository's revision rule is the only thing that stands in between.    *)
(***************************************************************************)
EXTENDS CaseAggregate

CONSTANTS
  Writers,       \* concurrent requests
  TenantOf,      \* the acting tenant of each writer's context
  MaxPending,    \* operations a writer may apply before it saves
  MaxRevision    \* bound: no operation goes past this revision

ASSUME WriterAssumption ==
  /\ TenantOf \in [Writers -> Tenants]
  /\ MaxPending \in Nat \ {0}
  /\ MaxRevision \in Nat \ {0}

VARIABLES
  cases,   \* the repository's map: (tenant, caseId) -> stored case
  base,    \* writer -> the stored case its copy derives from (NoCase: none)
  held     \* writer -> the case it holds (NoCase: idle)

vars == <<cases, base, held>>

Keys == Tenants \X CaseIds

\* Mutation: a key without the tenant.
StorageKeyWithoutTenant(c) == <<CHOOSE t \in Tenants : TRUE, c.caseId>>

\* storageKey: a case is addressed by its tenant and its identifier together.
StorageKey(c) == <<c.tenantId, c.caseId>>

-----------------------------------------------------------------------------
Init ==
  /\ cases = [k \in Keys |-> NoCase]
  /\ base  = [w \in Writers |-> NoCase]
  /\ held  = [w \in Writers |-> NoCase]

\* repository.get under the writer's own tenant
Load(w, id) ==
  LET stored == cases[<<TenantOf[w], id>>] IN
  /\ held[w] = NoCase
  /\ stored # NoCase
  /\ base' = [base EXCEPT ![w] = stored]
  /\ held' = [held EXCEPT ![w] = stored]
  /\ UNCHANGED cases

\* The writer gives up: a refused save, a failed request, a restart.
Abandon(w) ==
  /\ held[w] # NoCase
  /\ base' = [base EXCEPT ![w] = NoCase]
  /\ held' = [held EXCEPT ![w] = NoCase]
  /\ UNCHANGED cases

\* An aggregate operation replaces the writer's copy; nothing is stored.
Produce(w, c) ==
  /\ held' = [held EXCEPT ![w] = c]
  /\ UNCHANGED <<cases, base>>

MayOperate(w) ==
  /\ held[w] # NoCase
  /\ held[w].revision < RevisionOf(base[w]) + MaxPending
  /\ held[w].revision < MaxRevision

Create(w, id, p, now) ==
  /\ held[w] = NoCase
  /\ Produce(w, CreatedCase(TenantOf[w], id, p, now))

Activate(w, now) ==
  /\ MayOperate(w)
  /\ CanActivate(held[w], TenantOf[w], now)
  /\ Produce(w, ActivatedCase(held[w], now))

AddMaterial(w, m) ==
  /\ MayOperate(w)
  /\ CanAddMaterial(held[w], TenantOf[w], m)
  /\ Produce(w, WithMaterial(held[w], m))

Associate(w, id, rs, now) ==
  /\ MayOperate(w)
  /\ \E m \in held[w].materials :
       /\ m.materialId = id
       /\ CanAssociate(held[w], TenantOf[w], m, rs, now)
       /\ Produce(w, WithAssociation(held[w], m, rs, now))

Cancel(w, now) ==
  /\ MayOperate(w)
  /\ CanCancel(held[w], TenantOf[w], now)
  /\ Produce(w, CancelledCase(held[w], now))

\* repository.save; an accepted case becomes the writer's new base.  A refused
\* save stores nothing: the writer is left to retry or to Abandon.
Save(w) ==
  LET k == StorageKey(held[w]) IN
  /\ held[w] # NoCase
  /\ held[w] # base[w]
  /\ SaveAccepted(cases[k], held[w])
  /\ cases' = [cases EXCEPT ![k] = held[w]]
  /\ base'  = [base EXCEPT ![w] = held[w]]
  /\ UNCHANGED held

WriterStep(w) ==
  \/ \E id \in CaseIds : Load(w, id)
  \/ \E id \in CaseIds, p \in Profiles, now \in Times : Create(w, id, p, now)
  \/ \E now \in Times : Activate(w, now)
  \/ \E m \in Material : AddMaterial(w, m)
  \/ \E id \in MaterialIds, rs \in SUBSET Requirements, now \in Times :
       Associate(w, id, rs, now)
  \/ \E now \in Times : Cancel(w, now)
  \/ Save(w)
  \/ Abandon(w)

Next == \E w \in Writers : WriterStep(w)

Spec == Init /\ [][Next]_vars

-----------------------------------------------------------------------------
(* Properties *)

\* The store and every writer hold cases, whose revisions only count up from 1.
TypeOK ==
  /\ cases \in [Keys -> Case \cup {NoCase}]
  /\ base  \in [Writers -> Case \cup {NoCase}]
  /\ held  \in [Writers -> Case \cup {NoCase}]

\* Every case in the store or in a writer's hands, whatever sequence of
\* operations made it, passes the validator: an operation whose
\* preconditions hold never produces a case that sealed() would refuse.
\* (The operations here do not take WellFormed of their result as a guard.)
SealNeverRefuses ==
  /\ \A k \in Keys : cases[k] # NoCase => WellFormed(cases[k])
  /\ \A w \in Writers : held[w] # NoCase => WellFormed(held[w])

\* Two copies of one case at one revision are one case: a writer whose base
\* is as new as the stored case holds exactly the stored case, and no base
\* is ever newer than the store.
SnapshotAgreement ==
  \A w \in Writers : base[w] # NoCase =>
    LET stored == cases[StorageKey(base[w])] IN
    /\ base[w].revision <= RevisionOf(stored)
    /\ base[w].revision = RevisionOf(stored) => base[w] = stored

\* The instants a case records are in the order things happened: no material,
\* activation, cancellation or requirement change is dated outside the case's
\* own life, and a requirement is never first satisfied before any of its
\* materials existed.
Timely(c) ==
  /\ \A m \in c.materials : m.addedAt \in c.createdAt..c.updatedAt
  /\ c.activatedAt # NoTime => c.activatedAt \in c.createdAt..c.updatedAt
  /\ c.cancelledAt # NoTime => c.cancelledAt = c.updatedAt
  /\ \A r \in Projected(c) :
       LET s == c.requirementStates[r] IN
       /\ s.updatedAt \in c.createdAt..c.updatedAt
       /\ s.materialIds # {} =>
            /\ s.firstMaterialAt <= s.updatedAt
            /\ \E m \in c.materials : /\ m.materialId \in s.materialIds
                                     /\ m.addedAt <= s.firstMaterialAt

\* Every stored case is timely, across writers whose clocks disagree.
TimelineOrdered ==
  \A k \in Keys : cases[k] # NoCase => Timely(cases[k])

\* What later must keep of earlier: everything already recorded.
Preserves(earlier, later) ==
  /\ later.profile = earlier.profile
  /\ later.createdAt = earlier.createdAt
  /\ earlier.updatedAt <= later.updatedAt
  /\ earlier.activatedAt # NoTime => later.activatedAt = earlier.activatedAt
  /\ \A m \in earlier.materials : \E n \in later.materials :
       /\ n.materialId = m.materialId /\ n.kind = m.kind
       /\ n.ref = m.ref /\ n.addedAt = m.addedAt
       /\ m.requirementIds \subseteq n.requirementIds

\* The strengthening NoLostUpdate needs when a writer saves after every
\* operation: what it holds is its base, or one operation further on,
\* keeping everything its base had and never leaving Cancelled; a case held
\* without a base is unsaved and new.
HeldFromBase ==
  \A w \in Writers :
    /\ held[w] = NoCase => base[w] = NoCase
    /\ held[w] # NoCase /\ base[w] = NoCase => held[w].revision = 1
    /\ held[w] # NoCase /\ base[w] # NoCase /\ held[w] # base[w] =>
         /\ held[w].revision = base[w].revision + 1
         /\ StorageKey(held[w]) = StorageKey(base[w])
         /\ base[w].state # Cancelled
         /\ Preserves(base[w], held[w])

\* A case is stored under its own tenant's key, and no writer ever holds
\* another tenant's case, even when tenants mint the same case identifier.
TenantsSeparate ==
  /\ \A k \in Keys : cases[k] # NoCase => StorageKey(cases[k]) = k
  /\ \A w \in Writers : held[w] # NoCase => held[w].tenantId = TenantOf[w]

\* No writer's accepted save discards what another writer stored: the
\* revision rule alone prevents lost updates.
NoLostUpdate ==
  [][\A k \in Keys : cases[k] # NoCase =>
       cases'[k] # NoCase /\ Preserves(cases[k], cases'[k])]_vars

\* A cancelled case is never changed again, in particular not by a writer
\* that loaded it while it was still active.
CancelledIsFinal ==
  [][\A k \in Keys : cases[k] # NoCase =>
       (cases[k].state = Cancelled => cases'[k] = cases[k])]_vars

\* What the ledger says of a stored case.
LedgerOf(c) ==
  IF c = NoCase THEN NoCase
  ELSE [profile |-> c.profile, state |-> c.state, revision |-> c.revision,
        associations |-> UNION {{m.materialId} \X m.requirementIds : m \in c.materials}]

Ledger == INSTANCE CaseLedger
            WITH Closed <- NoCase, ledger <- [k \in Keys |-> LedgerOf(cases[k])]

\* The sentinel of a key without a case is no ledger entry.
ASSUME ClosedAssumption == NoCase \notin Ledger!Entry

\* The store implements the ledger: every accepted save is exactly one ledger
\* operation, whatever the interleaving of the writers.
ImplementsLedger == Ledger!Spec

=============================================================================
