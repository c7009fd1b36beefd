----------------------------- MODULE Verification -----------------------------
(***************************************************************************)
(* Verification runs: each check the pinned profile declares is awaited in *)
(* turn on one immutable copy of the case, and every answer becomes a       *)
(* result bound to that copy's revision.  The results of a run are returned *)
(* together and stored one by one, while the case and other runs move on.   *)
(*                                                                         *)
(* The case is a parameter: the module that composes this one supplies the  *)
(* copy a caller loads.                                                     *)
(***************************************************************************)
EXTENDS Readiness

CONSTANTS
  Runners,        \* concurrent verification requests
  ExecutionIds,   \* identifiers callers mint for check executions
  Answers,        \* outcomes the registered checks give
  NoCheck         \* no check is being awaited

ASSUME VerificationAssumption ==
  /\ ExecutionIds \subseteq Nat
  /\ Answers \subseteq Outcomes

VARIABLES
  results,   \* the stored verification results
  runs       \* what each verification request still has to run or to store

verificationVars == <<results, runs>>

\* saw is no field of the record: it is the material the check could read,
\* kept so that properties can tell what a revision number stands for.
Result ==
  [executionId: ExecutionIds, requirement: Requirements, check: CheckIds,
   revision: Nat \ {0}, outcome: Outcomes, executedAt: Times,
   saw: SUBSET Material]

AwaitedCheck ==
  [executionId: ExecutionIds, requirement: Requirements, check: CheckIds,
   executedAt: Times]

\* An awaited check is told from none.
ASSUME AwaitedAssumption == NoCheck \notin AwaitedCheck

IdleRun == [snapshot |-> NoCase, plan |-> {}, awaited |-> NoCheck, done |-> {}]

\* Every check of every verification requirement of the pinned profile.
VerificationPlan(c) ==
  UNION {{[requirement |-> r, check |-> k] : k \in ChecksOf[r]} :
           r \in {q \in ProfileRequirements[c.profile] :
                    RequirementKind[q] = "Verification"}}

InitVerification ==
  /\ results = {}
  /\ runs = [w \in Runners |-> IdleRun]

\* runProtocolizationVerification takes the whole plan,
\* executeProtocolizationVerificationCheck one obligation of it.
BeginRun(w, c, plan) ==
  /\ runs[w] = IdleRun
  /\ WellFormed(c)
  /\ c.state # Cancelled
  /\ runs' = [runs EXCEPT ![w] =
                [snapshot |-> c, plan |-> plan, awaited |-> NoCheck, done |-> {}]]
  /\ UNCHANGED results

\* The clock is read before the check is awaited.  The order of the plan is
\* not modelled: no obligation reads another's answer.
AskCheck(w, obligation, id, now) ==
  /\ runs[w].awaited = NoCheck
  /\ obligation \in runs[w].plan
  /\ \A v \in runs[w].done : v.executionId # id
  /\ ClockNotBefore(runs[w].snapshot, now)
  /\ runs' = [runs EXCEPT ![w] =
       [snapshot |-> @.snapshot, plan |-> @.plan \ {obligation}, done |-> @.done,
        awaited |-> [executionId |-> id, requirement |-> obligation.requirement,
                     check |-> obligation.check, executedAt |-> now]]]
  /\ UNCHANGED results

\* The check answers, about the copy it was given.
CheckAnswers(w, outcome) ==
  LET a == runs[w].awaited
      c == runs[w].snapshot
  IN
  /\ a # NoCheck
  /\ runs' = [runs EXCEPT ![w] =
       [snapshot |-> c, plan |-> @.plan, awaited |-> NoCheck,
        done |-> @.done \cup
          {[executionId |-> a.executionId, requirement |-> a.requirement,
            check |-> a.check, revision |-> c.revision, outcome |-> outcome,
            executedAt |-> a.executedAt, saw |-> c.materials]}]]
  /\ UNCHANGED results

\* A finished run stores its results one at a time; the repository refuses an
\* execution identifier it has already seen.
StoreResult(w, v) ==
  LET rest == runs[w].done \ {v} IN
  /\ runs[w].plan = {}
  /\ runs[w].awaited = NoCheck
  /\ v \in runs[w].done
  /\ \A stored \in results : stored.executionId # v.executionId
  /\ results' = results \cup {v}
  /\ runs' = [runs EXCEPT ![w] = IF rest = {} THEN IdleRun
                                 ELSE [@ EXCEPT !.done = rest]]

\* A check that throws fails the whole run, and a run can fail between two
\* stores: whatever it has not stored is lost.
AbandonRun(w) ==
  /\ runs[w] # IdleRun
  /\ runs' = [runs EXCEPT ![w] = IdleRun]
  /\ UNCHANGED results

RunStep(w, c) ==
  \/ BeginRun(w, c, VerificationPlan(c))
  \/ \E obligation \in VerificationPlan(c) : BeginRun(w, c, {obligation})
  \/ \E obligation \in runs[w].plan, id \in ExecutionIds, now \in Times :
       AskCheck(w, obligation, id, now)
  \/ \E outcome \in Answers : CheckAnswers(w, outcome)
  \/ \E v \in runs[w].done : StoreResult(w, v)
  \/ AbandonRun(w)

\* Stored results and the runs under way have the shapes the code gives them.
VerificationTypeOK ==
  /\ results \subseteq Result
  /\ runs \in [Runners ->
       [snapshot: Case \cup {NoCase},
        plan: SUBSET [requirement: Requirements, check: CheckIds],
        awaited: AwaitedCheck \cup {NoCheck}, done: SUBSET Result]]

=============================================================================
