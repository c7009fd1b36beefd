--------------------------- MODULE Protocolization ----------------------------
(***************************************************************************)
(* The whole path of one case: professional review and verification runs    *)
(* change what is recorded about it, and executors protocolize it.          *)
(*                                                                         *)
(* An executor gathers a copy of the case and the records about it,         *)
(* evaluates readiness on them, may load the case again, executes, and      *)
(* stores the result.  evaluateProtocolizationReadiness and                 *)
(* executeProtocolization are pure: nothing holds the case still, and the   *)
(* only guard between the evaluation and the act compares revisions.        *)
(***************************************************************************)
EXTENDS ProfessionalReview, Verification

CONSTANTS
  Executors,   \* concurrent requests to protocolize the case
  ResultIds,   \* identifiers callers mint for protocolization results
  NoRecords,   \* records not gathered yet
  NoOutcome    \* nothing executed yet

VARIABLES
  executors,   \* what each executor gathered and produced
  executions   \* the stored protocolization results

allVars == <<case, requests, decisions, session, history,
             results, runs, executors, executions>>

reviewVars == vars

AllRecords == [Records EXCEPT !.results = results]

RecordsType ==
  [decisions: SUBSET Decision, requests: SUBSET Request, results: SUBSET Result]

\* The evaluation a result quotes is kept as the records it was made from.
Execution ==
  [resultId: ResultIds, revision: Nat \ {0}, state: CaseStates,
   materials: SUBSET Material, records: RecordsType]

\* What an executor has not gathered or produced is told from what it has.
ASSUME ExecutorAssumption == NoRecords \notin RecordsType /\ NoOutcome \notin Execution

IdleExecutor ==
  [evaluated |-> NoCase, records |-> NoRecords, outcome |-> NoOutcome]

-----------------------------------------------------------------------------
ProtocolizationInit ==
  /\ Init
  /\ InitVerification
  /\ executors = [e \in Executors |-> IdleExecutor]
  /\ executions = {}

Advance(e, next) ==
  /\ executors' = [executors EXCEPT ![e] = next]
  /\ UNCHANGED <<reviewVars, verificationVars, executions>>

\* The case and the records live in separate repositories: they are read one
\* after the other, in either order.
GatherCase(e) ==
  /\ executors[e].evaluated = NoCase
  /\ executors[e].outcome = NoOutcome
  /\ Advance(e, [executors[e] EXCEPT !.evaluated = case])

GatherRecords(e) ==
  /\ executors[e].records = NoRecords
  /\ executors[e].outcome = NoOutcome
  /\ Advance(e, [executors[e] EXCEPT !.records = AllRecords])

\* Mutation: the evaluated revision is not compared.
AuthorizesAnyRevision(evaluated, records, c) ==
  /\ ReadinessState(evaluated, records) = Ready
  /\ evaluated.tenantId = c.tenantId
  /\ evaluated.caseId = c.caseId
  /\ evaluated.profile = c.profile
  /\ evaluated.state = c.state

\* assertReadinessAuthorizesExecution, for an evaluation of one copy of the
\* case and the execution of another.
Authorizes(evaluated, records, c) ==
  /\ ReadinessState(evaluated, records) = Ready
  /\ evaluated.tenantId = c.tenantId
  /\ evaluated.caseId = c.caseId
  /\ evaluated.profile = c.profile
  /\ evaluated.state = c.state
  /\ evaluated.revision = c.revision

\* executeProtocolization, on the copy that was evaluated or on one loaded
\* again since.  An expectedCaseRevision only refuses more.
Execute(e, c, id) ==
  /\ executors[e].evaluated # NoCase
  /\ executors[e].records # NoRecords
  /\ c \in {executors[e].evaluated, case}
  /\ WellFormed(c)
  /\ c.state # Cancelled
  /\ Authorizes(executors[e].evaluated, executors[e].records, c)
  /\ Advance(e, [evaluated |-> NoCase, records |-> NoRecords,
                 outcome |-> [resultId |-> id, revision |-> c.revision,
                              state |-> c.state, materials |-> c.materials,
                              records |-> executors[e].records]])

\* Mutation: only the identifier of the result has to be new.
ResultAcceptedById(x) == \A y \in executions : y.resultId # x.resultId

\* One result per identifier, and one per basis: here, per revision.
ResultAccepted(x) ==
  \A y \in executions : y.resultId # x.resultId /\ y.revision # x.revision

StoreExecution(e) ==
  LET x == executors[e].outcome IN
  /\ x # NoOutcome
  /\ ResultAccepted(x)
  /\ executions' = executions \cup {x}
  /\ executors' = [executors EXCEPT ![e] = IdleExecutor]
  /\ UNCHANGED <<reviewVars, verificationVars>>

\* A refusal, or a failure anywhere: nothing was stored.
AbandonExecution(e) ==
  /\ executors[e] # IdleExecutor
  /\ Advance(e, IdleExecutor)

ExecutorStep(e) ==
  \/ GatherCase(e)
  \/ GatherRecords(e)
  \/ \E c \in {executors[e].evaluated, case}, id \in ResultIds : Execute(e, c, id)
  \/ StoreExecution(e)
  \/ AbandonExecution(e)

ProtocolizationNext ==
  \/ Next /\ UNCHANGED <<verificationVars, executors, executions>>
  \/ \E w \in Runners :
       RunStep(w, case) /\ UNCHANGED <<reviewVars, executors, executions>>
  \/ \E e \in Executors : ExecutorStep(e)

ProtocolizationSpec == ProtocolizationInit /\ [][ProtocolizationNext]_allVars

-----------------------------------------------------------------------------
(* Properties *)

\* Everything the composed parts store or hold has the shape the code gives it.
ProtocolizationTypeOK ==
  /\ TypeOK
  /\ VerificationTypeOK
  /\ executors \in [Executors ->
       [evaluated: Case \cup {NoCase}, records: RecordsType \cup {NoRecords},
        outcome: Execution \cup {NoOutcome}]]
  /\ executions \subseteq Execution

Required(kind) ==
  {r \in ProfileRequirements[case.profile] :
     RequirementKind[r] = kind /\ Obligation[r] = "Required"}

\* Every protocolization result is about a case that was really stored at the
\* revision it names, not cancelled then, with exactly the materials it
\* quotes, and that case was Ready on records that really existed.
ExecutionsStoodReady ==
  \A x \in executions :
    /\ x.revision \in DOMAIN history
    /\ history[x.revision].state = x.state /\ x.state # Cancelled
    /\ history[x.revision].materials = x.materials
    /\ x.records.decisions \subseteq decisions /\ x.records.results \subseteq results
    /\ ReadinessState(history[x.revision], x.records) = Ready

\* Nothing is protocolized unverified: for every required verification some
\* check found nothing against the very material the result quotes, not
\* against an earlier or a competing version of the dossier.
VerifiedWhatItProtocolized ==
  \A x \in executions, r \in Required("Verification") :
    \E v \in results : /\ v.requirement = r
                       /\ v.outcome \in {"Pass", "Warning"}
                       /\ v.saw = x.materials

\* Nothing is protocolized unreviewed: for every required attestation some
\* professional attested, by material the result quotes, the dossier the
\* result quotes.
ReviewedWhatItProtocolized ==
  \A x \in executions, r \in Required("Attestation") :
    \E d \in decisions, m \in x.materials :
      /\ Produced(d, r, m)
      /\ DossierFor(history[x.revision], r) =
           [DossierFor(history[d.basis], r) EXCEPT !.materials = @ \cup {m}]

\* Racing executors protocolize one revision once.
OneResultPerBasis ==
  \A x, y \in executions : x.revision = y.revision => x = y

\* A result is stored for a case that is still ready: unless the case has
\* moved to another revision, readiness now agrees with the evaluation the
\* execution relied on.
StoredWhileReady ==
  [][\A x \in executions' \ executions :
       case.revision = x.revision => ReadinessState(case, AllRecords) = Ready]_allVars

=============================================================================
