------------------------ MODULE ProtocolizationProofs ------------------------
(***************************************************************************)
(* What the whole path guarantees: whatever is protocolized stood Ready at *)
(* the revision it names, was reviewed and verified on exactly the         *)
(* material it quotes, and is protocolized once.                           *)
(*                                                                         *)
(* Everything an executor gathers it gathers from stores that only grow:   *)
(* a copy of the case is an entry of the history, the records are part of  *)
(* what is stored.  Those facts outlive every later step, so what was true *)
(* of the evaluation is still true of the result when it is stored.        *)
(***************************************************************************)
EXTENDS Protocolization, ProfessionalReviewProofs

\* A stored case, or a copy of one.
Copy(h, c) == c.revision \in 1..Len(h) /\ c = h[c.revision]

\* A result says what it saw of the revision it names.
SawRevision(h, v) ==
  v.revision \in 1..Len(h) /\ v.saw = h[v.revision].materials

\* The results of one check for one revision.
ResultsAt(vs, r, k, n) ==
  {v \in vs : v.requirement = r /\ v.check = k /\ v.revision = n}

\* Wherever there are results of a check there is a latest one.
LatestExists(vs) ==
  \A r \in Requirements, k \in CheckIds, n \in Nat :
    ResultsAt(vs, r, k, n) # {} => Latest(ResultsAt(vs, r, k, n)) # {}

RunState ==
  [snapshot: Case \cup {NoCase},
   plan: SUBSET [requirement: Requirements, check: CheckIds],
   awaited: AwaitedCheck \cup {NoCheck}, done: SUBSET Result]

\* A run works on a copy of the case, and its results are about that copy.
RunOK(h, x) ==
  /\ x.snapshot # NoCase => Copy(h, x.snapshot)
  /\ x.plan # {} \/ x.awaited # NoCheck => x.snapshot # NoCase
  /\ \A v \in x.done : SawRevision(h, v)

ResultsInv ==
  /\ \A v \in results : SawRevision(history, v)
  /\ \A v, w \in results : v.executionId = w.executionId => v = w
  /\ LatestExists(results)

RunsInv == \A w \in Runners : RunOK(history, runs[w])

\* Records that were gathered: part of what ds and vs now hold.
Gathered(ds, vs, recs) ==
  /\ recs.decisions \subseteq ds
  /\ recs.results \subseteq vs
  /\ LatestExists(recs.results)

\* A result of the protocolization, and what it was executed on.
Executed(h, ds, vs, x) ==
  /\ x.revision \in 1..Len(h)
  /\ h[x.revision].state = x.state
  /\ x.state # Cancelled
  /\ h[x.revision].materials = x.materials
  /\ Gathered(ds, vs, x.records)
  /\ ReadinessState(h[x.revision], x.records) = Ready

ExecutorState ==
  [evaluated: Case \cup {NoCase}, records: RecordsType \cup {NoRecords},
   outcome: Execution \cup {NoOutcome}]

ExecutorOK(h, ds, vs, x) ==
  /\ x.evaluated # NoCase => Copy(h, x.evaluated)
  /\ x.records # NoRecords => Gathered(ds, vs, x.records)
  /\ x.outcome # NoOutcome => Executed(h, ds, vs, x.outcome)

ExecutorsInv ==
  \A e \in Executors : ExecutorOK(history, decisions, results, executors[e])

ExecutionsInv ==
  /\ \A x \in executions : Executed(history, decisions, results, x)
  /\ OneResultPerBasis

ProtocolizationInv ==
  /\ ReviewInv
  /\ ProtocolizationTypeOK
  /\ ResultsInv
  /\ RunsInv
  /\ ExecutorsInv
  /\ ExecutionsInv

-----------------------------------------------------------------------------
(* What outlives every later step *)

\* A copy of the case stays an entry of its history.
LEMMA StaysCopy ==
  ASSUME NEW h \in Seq(Case), NEW g \in Seq(Case), Extends(h, g), NEW c, Copy(h, c)
  PROVE  Copy(g, c)
BY DEF Copy, Extends

\* The material a check saw stays the material of the revision it names.
LEMMA StaysSeen ==
  ASSUME NEW h \in Seq(Case), NEW g \in Seq(Case), Extends(h, g), NEW v, SawRevision(h, v)
  PROVE  SawRevision(g, v)
BY DEF SawRevision, Extends

\* Decisions and results are never taken out of their stores.
LEMMA StaysGathered ==
  ASSUME NEW ds, NEW es, ds \subseteq es, NEW vs, NEW ws, vs \subseteq ws,
         NEW recs, Gathered(ds, vs, recs)
  PROVE  Gathered(es, ws, recs)
BY DEF Gathered

\* (a run)
LEMMA StaysRun ==
  ASSUME NEW h \in Seq(Case), NEW g \in Seq(Case), Extends(h, g), NEW x, RunOK(h, x)
  PROVE  RunOK(g, x)
BY StaysCopy, StaysSeen DEF RunOK

\* (a result of the protocolization)
LEMMA StaysExecuted ==
  ASSUME NEW h \in Seq(Case), NEW g \in Seq(Case), Extends(h, g),
         NEW ds, NEW es, ds \subseteq es, NEW vs, NEW ws, vs \subseteq ws,
         NEW x, Executed(h, ds, vs, x)
  PROVE  Executed(g, es, ws, x)
<1>1. Gathered(es, ws, x.records)
  BY StaysGathered DEF Executed
<1>2. x.revision \in 1..Len(g) /\ g[x.revision] = h[x.revision]
  BY DEF Executed, Extends
<1> QED BY <1>1, <1>2 DEF Executed

\* (an executor)
LEMMA StaysExecutor ==
  ASSUME NEW h \in Seq(Case), NEW g \in Seq(Case), Extends(h, g),
         NEW ds, NEW es, ds \subseteq es, NEW vs, NEW ws, vs \subseteq ws,
         NEW x, ExecutorOK(h, ds, vs, x)
  PROVE  ExecutorOK(g, es, ws, x)
<1>1. x.evaluated # NoCase => Copy(g, x.evaluated)
  BY StaysCopy DEF ExecutorOK
<1>2. x.records # NoRecords => Gathered(es, ws, x.records)
  BY StaysGathered DEF ExecutorOK
<1>3. x.outcome # NoOutcome => Executed(g, es, ws, x.outcome)
  BY StaysExecuted DEF ExecutorOK
<1> QED BY <1>1, <1>2, <1>3 DEF ExecutorOK

-----------------------------------------------------------------------------
(* The latest result of a check *)

\* Instants and execution identifiers are numbers.
LEMMA ResultNumbers ==
  ASSUME NEW v \in Result
  PROVE  v.executedAt \in Nat /\ v.executionId \in Nat
<1>1. v.executedAt \in Times /\ v.executionId \in ExecutionIds
  BY DEF Result
<1>2. Times \subseteq Nat
  BY DEF Times
<1> QED BY <1>1, <1>2, VerificationAssumption

\* Results are ordered by instant and identifier.
LEMMA PrecedesTransitive ==
  ASSUME NEW u \in Result, NEW v \in Result, NEW w \in Result,
         Precedes(u, v), Precedes(v, w)
  PROVE  Precedes(u, w)
BY ResultNumbers DEF Precedes

\* (totally, as execution identifiers tell them apart)
LEMMA PrecedesTotal ==
  ASSUME NEW u \in Result, NEW v \in Result, u.executionId # v.executionId
  PROVE  Precedes(u, v) \/ Precedes(v, u)
BY ResultNumbers DEF Precedes

\* One more result is the latest of its check, or an earlier one is.
LEMMA LatestResultAdded ==
  ASSUME NEW vs \in SUBSET Result, NEW v \in Result, LatestExists(vs),
         \A w \in vs : w.executionId # v.executionId
  PROVE  LatestExists(vs \cup {v})
<1> SUFFICES ASSUME NEW r \in Requirements, NEW k \in CheckIds, NEW n \in Nat,
                    ResultsAt(vs \cup {v}, r, k, n) # {}
             PROVE  Latest(ResultsAt(vs \cup {v}, r, k, n)) # {}
  BY DEF LatestExists
<1> DEFINE mine == ResultsAt(vs, r, k, n)
           more == ResultsAt(vs \cup {v}, r, k, n)
<1>1. /\ mine \subseteq vs /\ mine \subseteq Result
      /\ more = mine \/ (more = mine \cup {v})
  BY DEF ResultsAt
<1>2. mine # {} => Latest(mine) # {}
  BY DEF LatestExists
<1> HIDE DEF mine, more
<1>3. CASE more = mine
  BY <1>2, <1>3 DEF more
<1>4. CASE mine = {} /\ more # mine
  <2>1. more = {v}
    BY <1>1, <1>4
  <2>2. v \in Latest(more)
    BY <2>1 DEF Latest
  <2> QED BY <2>2 DEF more
<1>5. CASE mine # {} /\ more # mine
  <2>1. PICK u \in mine : \A w \in mine : w = u \/ Precedes(w, u)
    BY <1>2, <1>5 DEF Latest
  <2>2. more = mine \cup {v} /\ u \in Result
    BY <1>1, <1>5
  <2>3. CASE Precedes(v, u)
    <3>1. u \in Latest(more)
      BY <2>1, <2>2, <2>3 DEF Latest
    <3> QED BY <3>1 DEF more
  <2>4. CASE Precedes(u, v)
    <3>1. \A w \in mine : w = u \/ Precedes(w, v)
      BY <1>1, <2>1, <2>2, <2>4, PrecedesTransitive
    <3>2. v \in Latest(more)
      BY <2>2, <2>4, <3>1 DEF Latest
    <3> QED BY <3>2 DEF more
  <2> QED BY <1>1, <2>1, <2>2, <2>3, <2>4, PrecedesTotal
<1> QED BY <1>3, <1>4, <1>5 DEF more

-----------------------------------------------------------------------------
(* The initial states *)

\* Nothing verified, nothing gathered, nothing protocolized.
LEMMA ProtocolizationStarts == ProtocolizationInit => ProtocolizationInv
<1> SUFFICES ASSUME ProtocolizationInit PROVE ProtocolizationInv
  OBVIOUS
<1>1. ReviewInv /\ TypeOK
  BY ReviewInit DEF ProtocolizationInit, ReviewInv
<1>2. VerificationTypeOK /\ RunsInv
  BY DEF ProtocolizationInit, InitVerification, VerificationTypeOK, RunsInv, RunOK, IdleRun
<1>3. ResultsInv
  BY DEF ProtocolizationInit, InitVerification, ResultsInv, LatestExists, ResultsAt
<1>4. ProtocolizationTypeOK
  BY <1>1, <1>2 DEF ProtocolizationInit, ProtocolizationTypeOK, IdleExecutor
<1>5. ExecutorsInv
  BY DEF ProtocolizationInit, ExecutorsInv, ExecutorOK, IdleExecutor
<1>6. ExecutionsInv
  BY DEF ProtocolizationInit, ExecutionsInv, OneResultPerBasis
<1> QED BY <1>1, <1>2, <1>3, <1>4, <1>5, <1>6 DEF ProtocolizationInv

-----------------------------------------------------------------------------
(* The steps of review *)

\* Review only adds: to the history of the case, and to the decisions.
LEMMA ReviewGrows ==
  ASSUME ReviewInv, [Next]_vars
  PROVE  /\ history' \in Seq(Case) /\ Extends(history, history')
         /\ decisions \subseteq decisions'
<1>1. CASE UNCHANGED vars
  BY <1>1, TheCase, ExtendsItself DEF vars
<1>2. CASE \E id \in RequestIds, r \in Requirements : CreateRequest(id, r)
  BY <1>2, TheCase, ExtendsItself DEF CreateRequest
<1>3. ASSUME NEW s \in Sessions, SaveCase(s)
      PROVE  /\ history' \in Seq(Case) /\ Extends(history, history')
             /\ decisions \subseteq decisions'
  BY <1>3, CaseStored DEF SaveCase
<1>4. ASSUME NEW s \in Sessions, SaveBoth(s)
      PROVE  /\ history' \in Seq(Case) /\ Extends(history, history')
             /\ decisions \subseteq decisions'
  BY <1>4, CaseStored DEF SaveBoth, StoreDecision
<1>5. ASSUME NEW s \in Sessions, SaveDecision(s)
      PROVE  /\ history' \in Seq(Case) /\ Extends(history, history')
             /\ decisions \subseteq decisions'
  BY <1>5, TheCase, ExtendsItself DEF SaveDecision, StoreDecision
<1>6. ASSUME NEW s \in Sessions, SessionStep(s), ~SaveCase(s), ~SaveBoth(s), ~SaveDecision(s)
      PROVE  UNCHANGED <<history, decisions>>
  BY <1>6 DEF SessionStep, Decide, AwaitSignature, Signed, Change, Prepare, Abandon
<1>7. UNCHANGED <<history, decisions>> =>
        /\ history' \in Seq(Case) /\ Extends(history, history')
        /\ decisions \subseteq decisions'
  BY TheCase, ExtendsItself
<1> QED BY <1>1, <1>2, <1>3, <1>4, <1>5, <1>6, <1>7 DEF Next

\* The parts review does not touch keep what they know of it.
LEMMA ReviewKeeps ==
  ASSUME ProtocolizationInv, [Next]_vars,
         UNCHANGED <<verificationVars, executors, executions>>
  PROVE  ProtocolizationInv'
<1>1. ReviewInv' /\ TypeOK'
  BY ReviewStep DEF ProtocolizationInv, ReviewInv
<1>2. /\ history \in Seq(Case) /\ history' \in Seq(Case)
      /\ Extends(history, history') /\ decisions \subseteq decisions'
  BY ReviewGrows, TheCase DEF ProtocolizationInv
<1>3. results' = results /\ runs' = runs /\ executors' = executors
      /\ executions' = executions
  BY DEF verificationVars
<1>4. ProtocolizationTypeOK'
  BY <1>1, <1>3 DEF ProtocolizationInv, ProtocolizationTypeOK, VerificationTypeOK
<1>5. ResultsInv'
  BY <1>2, <1>3, StaysSeen DEF ProtocolizationInv, ResultsInv
<1>6. RunsInv'
  BY <1>2, <1>3, StaysRun DEF ProtocolizationInv, RunsInv
<1>7. ExecutorsInv'
  BY <1>2, <1>3, StaysExecutor DEF ProtocolizationInv, ExecutorsInv
<1>8. ExecutionsInv'
  <2>1. \A x \in executions' : Executed(history', decisions', results', x)
    BY <1>2, <1>3, StaysExecuted DEF ProtocolizationInv, ExecutionsInv
  <2> QED BY <1>3, <2>1 DEF ProtocolizationInv, ExecutionsInv, OneResultPerBasis
<1> QED BY <1>1, <1>4, <1>5, <1>6, <1>7, <1>8 DEF ProtocolizationInv

-----------------------------------------------------------------------------
(* The steps of verification *)

\* The records of a run.
LEMMA TheRun ==
  ASSUME ProtocolizationInv, NEW w \in Runners
  PROVE  /\ runs \in [Runners -> RunState] /\ runs[w] \in RunState
         /\ RunOK(history, runs[w]) /\ results \in SUBSET Result
         /\ history \in Seq(Case)
BY TheCase DEF ProtocolizationInv, ProtocolizationTypeOK, VerificationTypeOK, RunState, RunsInv

\* A run's own step, and a result stored at most.
LEMMA OneRun ==
  ASSUME ProtocolizationInv, NEW w \in Runners, NEW x \in RunState,
         runs' = [runs EXCEPT ![w] = x], RunOK(history, x),
         UNCHANGED <<reviewVars, executors, executions>>,
         results \subseteq results', results' \in SUBSET Result, ResultsInv'
  PROVE  ProtocolizationInv'
<1>1. UNCHANGED vars /\ history' = history /\ decisions' = decisions
      /\ history \in Seq(Case) /\ Extends(history, history')
  BY TheCase, ExtendsItself DEF reviewVars, vars, ProtocolizationInv
<1>2. ReviewInv' /\ TypeOK'
  BY <1>1, ReviewStep DEF ProtocolizationInv, ReviewInv
<1>3. runs' \in [Runners -> RunState]
  BY TheRun
<1>4. ProtocolizationTypeOK'
  BY <1>2, <1>3 DEF ProtocolizationInv, ProtocolizationTypeOK, VerificationTypeOK, RunState
<1>5. RunsInv'
  <2>1. ASSUME NEW u \in Runners
        PROVE  RunOK(history', runs'[u])
    <3>1. runs'[u] = IF u = w THEN x ELSE runs[u]
      BY TheRun
    <3> QED BY <1>1, <3>1 DEF ProtocolizationInv, RunsInv
  <2> QED BY <2>1 DEF RunsInv
<1>6. ExecutorsInv'
  BY <1>1, StaysExecutor DEF ProtocolizationInv, ExecutorsInv
<1>7. ExecutionsInv'
  <2>1. \A y \in executions' : Executed(history', decisions', results', y)
    BY <1>1, StaysExecuted DEF ProtocolizationInv, ExecutionsInv
  <2> QED BY <2>1 DEF ProtocolizationInv, ExecutionsInv, OneResultPerBasis
<1> QED BY <1>2, <1>4, <1>5, <1>6, <1>7 DEF ProtocolizationInv

\* A step that stores no result leaves what is known of the stored ones.
LEMMA ResultsKept ==
  ASSUME ProtocolizationInv, UNCHANGED reviewVars, UNCHANGED results
  PROVE  /\ ResultsInv' /\ results \subseteq results' /\ results' \in SUBSET Result
BY DEF ProtocolizationInv, ProtocolizationTypeOK, VerificationTypeOK, ResultsInv, reviewVars, vars

\* An idle run has nothing to answer for.
LEMMA IdleRunOK ==
  ASSUME NEW h
  PROVE  IdleRun \in RunState /\ RunOK(h, IdleRun)
BY DEF IdleRun, RunState, RunOK

\* The obligations of a case are checks its profile declares.
LEMMA PlanType ==
  ASSUME NEW c \in Case
  PROVE  VerificationPlan(c) \subseteq [requirement: Requirements, check: CheckIds]
<1>1. ProfileRequirements[c.profile] \subseteq Requirements
  BY AggregateAssumption DEF Case
<1>2. \A r \in Requirements : ChecksOf[r] \subseteq CheckIds
  BY ReadinessAssumption
<1> QED BY <1>1, <1>2 DEF VerificationPlan

\* A run begins on the case as it is.
LEMMA BeginRunStep ==
  ASSUME ProtocolizationInv, NEW w \in Runners, NEW plan \in SUBSET VerificationPlan(case),
         BeginRun(w, case, plan), UNCHANGED <<reviewVars, executors, executions>>
  PROVE  ProtocolizationInv'
<1> DEFINE x == [snapshot |-> case, plan |-> plan, awaited |-> NoCheck, done |-> {}]
<1>1. runs' = [runs EXCEPT ![w] = x] /\ results' = results
  BY DEF BeginRun
<1>3. case \in Case /\ Copy(history, case) /\ case # NoCase
  BY TheCase, SentinelAssumption DEF ProtocolizationInv, Copy
<1>4. x \in RunState
  BY <1>3, PlanType DEF RunState
<1>5. RunOK(history, x)
  BY <1>3 DEF RunOK
<1> HIDE DEF x
<1>6. PICK y \in RunState : y = x
  BY <1>4
<1> QED BY <1>1, <1>5, <1>6, ResultsKept, OneRun

\* The check is asked about the copy the run holds.
LEMMA AskCheckStep ==
  ASSUME ProtocolizationInv, NEW w \in Runners, NEW obligation \in runs[w].plan,
         NEW id \in ExecutionIds, NEW now \in Times, AskCheck(w, obligation, id, now),
         UNCHANGED <<reviewVars, executors, executions>>
  PROVE  ProtocolizationInv'
<1> DEFINE a == [executionId |-> id, requirement |-> obligation.requirement,
                 check |-> obligation.check, executedAt |-> now]
           x == [snapshot |-> runs[w].snapshot, plan |-> runs[w].plan \ {obligation},
                 awaited |-> a, done |-> runs[w].done]
<1>1. /\ runs[w] \in RunState /\ RunOK(history, runs[w]) /\ results' = results
      /\ runs \in [Runners -> RunState]
  BY TheRun DEF AskCheck
<1>2. a \in AwaitedCheck
  BY <1>1 DEF RunState, AwaitedCheck
<1>3. runs' = [runs EXCEPT ![w] = x]
  BY DEF AskCheck
<1> HIDE DEF a
<1>4. x \in RunState
  BY <1>1, <1>2 DEF RunState
<1>5. RunOK(history, x)
  BY <1>1 DEF RunOK
<1> HIDE DEF x
<1>6. PICK y \in RunState : y = x
  BY <1>4
<1> QED BY <1>1, <1>3, <1>5, <1>6, ResultsKept, OneRun

\* The answer is bound to the revision of the copy, and to what it held.
LEMMA CheckAnswersStep ==
  ASSUME ProtocolizationInv, NEW w \in Runners, NEW outcome \in Answers,
         CheckAnswers(w, outcome), UNCHANGED <<reviewVars, executors, executions>>
  PROVE  ProtocolizationInv'
<1> DEFINE a == runs[w].awaited
           c == runs[w].snapshot
           v == [executionId |-> a.executionId, requirement |-> a.requirement,
                 check |-> a.check, revision |-> c.revision, outcome |-> outcome,
                 executedAt |-> a.executedAt, saw |-> c.materials]
           x == [snapshot |-> c, plan |-> runs[w].plan, awaited |-> NoCheck,
                 done |-> runs[w].done \cup {v}]
<1>1. /\ runs[w] \in RunState /\ RunOK(history, runs[w]) /\ results' = results
      /\ a # NoCheck /\ runs \in [Runners -> RunState]
  BY TheRun DEF CheckAnswers
<1>2. a \in AwaitedCheck /\ c \in Case /\ c # NoCase /\ Copy(history, c)
  BY <1>1 DEF RunState, RunOK
<1>3. outcome \in Outcomes
  BY VerificationAssumption
<1>4. v \in Result
  BY <1>2, <1>3 DEF Result, AwaitedCheck, Case
<1>5. SawRevision(history, v)
  BY <1>2 DEF SawRevision, Copy
<1>6. runs' = [runs EXCEPT ![w] = x]
  BY DEF CheckAnswers
<1> HIDE DEF v
<1>7. x \in RunState
  BY <1>1, <1>2, <1>4 DEF RunState
<1>8. RunOK(history, x)
  BY <1>1, <1>2, <1>5 DEF RunOK
<1> HIDE DEF x
<1>9. PICK y \in RunState : y = x
  BY <1>7
<1> QED BY <1>1, <1>6, <1>8, <1>9, ResultsKept, OneRun

\* A stored result is one of a finished run, under an identifier of its own.
LEMMA StoreResultStep ==
  ASSUME ProtocolizationInv, NEW w \in Runners, NEW v \in runs[w].done,
         StoreResult(w, v), UNCHANGED <<reviewVars, executors, executions>>
  PROVE  ProtocolizationInv'
<1> DEFINE rest == runs[w].done \ {v}
           left == [runs[w] EXCEPT !.done = rest]
           x == IF rest = {} THEN IdleRun ELSE left
<1>1. /\ runs[w] \in RunState /\ RunOK(history, runs[w])
      /\ results' = results \cup {v} /\ results \in SUBSET Result
      /\ \A stored \in results : stored.executionId # v.executionId
      /\ runs \in [Runners -> RunState]
  BY TheRun DEF StoreResult
<1>2. v \in Result /\ SawRevision(history, v)
  BY <1>1 DEF RunState, RunOK
<1>3. runs' = [runs EXCEPT ![w] = x]
  BY DEF StoreResult
<1>4. left \in RunState /\ RunOK(history, left)
  BY <1>1 DEF RunState, RunOK
<1>5. x \in RunState /\ RunOK(history, x)
  BY <1>4, IdleRunOK
<1>6. history' = history
  BY DEF reviewVars, vars
<1>7. LatestExists(results')
  BY <1>1, <1>2, LatestResultAdded DEF ProtocolizationInv, ResultsInv
<1>8. ResultsInv'
  BY <1>1, <1>2, <1>6, <1>7 DEF ProtocolizationInv, ResultsInv
<1>9. results' \in SUBSET Result /\ results \subseteq results'
  BY <1>1, <1>2
<1> HIDE DEF x
<1>10. PICK y \in RunState : y = x
  BY <1>5
<1> QED BY <1>3, <1>5, <1>8, <1>9, <1>10, OneRun

\* A failed run keeps nothing it had not stored.
LEMMA AbandonRunStep ==
  ASSUME ProtocolizationInv, NEW w \in Runners, AbandonRun(w),
         UNCHANGED <<reviewVars, executors, executions>>
  PROVE  ProtocolizationInv'
BY IdleRunOK, ResultsKept, OneRun DEF AbandonRun

\* Every step of a verification run.
LEMMA RunStepKeeps ==
  ASSUME ProtocolizationInv, NEW w \in Runners, RunStep(w, case),
         UNCHANGED <<reviewVars, executors, executions>>
  PROVE  ProtocolizationInv'
<1>1. CASE BeginRun(w, case, VerificationPlan(case))
  BY <1>1, BeginRunStep
<1>2. CASE \E obligation \in VerificationPlan(case) : BeginRun(w, case, {obligation})
  BY <1>2, BeginRunStep
<1>3. CASE \E obligation \in runs[w].plan, id \in ExecutionIds, now \in Times :
             AskCheck(w, obligation, id, now)
  BY <1>3, AskCheckStep
<1>4. CASE \E outcome \in Answers : CheckAnswers(w, outcome)
  BY <1>4, CheckAnswersStep
<1>5. CASE \E v \in runs[w].done : StoreResult(w, v)
  BY <1>5, StoreResultStep
<1>6. CASE AbandonRun(w)
  BY <1>6, AbandonRunStep
<1> QED BY <1>1, <1>2, <1>3, <1>4, <1>5, <1>6 DEF RunStep

-----------------------------------------------------------------------------
(* The steps of an executor *)

\* What an executor gathered and produced.
LEMMA TheExecutor ==
  ASSUME ProtocolizationInv, NEW e \in Executors
  PROVE  /\ executors \in [Executors -> ExecutorState] /\ executors[e] \in ExecutorState
         /\ ExecutorOK(history, decisions, results, executors[e])
BY DEF ProtocolizationInv, ProtocolizationTypeOK, ExecutorState, ExecutorsInv

\* An executor's own step, and an execution stored at most.
LEMMA OneExecutor ==
  ASSUME ProtocolizationInv, NEW e \in Executors, NEW x \in ExecutorState,
         executors' = [executors EXCEPT ![e] = x],
         ExecutorOK(history, decisions, results, x),
         UNCHANGED <<reviewVars, verificationVars>>,
         executions' \subseteq Execution, ExecutionsInv'
  PROVE  ProtocolizationInv'
<1>1. /\ UNCHANGED vars /\ history' = history /\ decisions' = decisions
      /\ results' = results /\ runs' = runs
  BY DEF reviewVars, vars, verificationVars
<1>2. ReviewInv' /\ TypeOK'
  BY <1>1, ReviewStep DEF ProtocolizationInv, ReviewInv
<1>3. executors' \in [Executors -> ExecutorState]
  BY TheExecutor
<1>4. ProtocolizationTypeOK'
  BY <1>1, <1>2, <1>3
     DEF ProtocolizationInv, ProtocolizationTypeOK, VerificationTypeOK, ExecutorState
<1>5. ResultsInv' /\ RunsInv'
  BY <1>1 DEF ProtocolizationInv, ResultsInv, RunsInv
<1>6. ExecutorsInv'
  <2>1. ASSUME NEW f \in Executors
        PROVE  ExecutorOK(history', decisions', results', executors'[f])
    <3>1. executors'[f] = IF f = e THEN x ELSE executors[f]
      BY TheExecutor
    <3> QED BY <1>1, <3>1 DEF ProtocolizationInv, ExecutorsInv
  <2> QED BY <2>1 DEF ExecutorsInv
<1> QED BY <1>2, <1>4, <1>5, <1>6 DEF ProtocolizationInv

\* A step that stores no execution.
LEMMA Advances ==
  ASSUME ProtocolizationInv, NEW e \in Executors, NEW x \in ExecutorState, Advance(e, x),
         ExecutorOK(history, decisions, results, x)
  PROVE  ProtocolizationInv'
<1>1. /\ executors' = [executors EXCEPT ![e] = x] /\ executions' = executions
      /\ UNCHANGED <<reviewVars, verificationVars>>
  BY DEF Advance
<1>2. history' = history /\ decisions' = decisions /\ results' = results
  BY <1>1 DEF reviewVars, vars, verificationVars
<1>3. ExecutionsInv' /\ executions' \subseteq Execution
  BY <1>1, <1>2 DEF ProtocolizationInv, ProtocolizationTypeOK, ExecutionsInv, OneResultPerBasis
<1> QED BY <1>1, <1>3, OneExecutor

\* The copy gathered is the stored case.
LEMMA GatherCaseStep ==
  ASSUME ProtocolizationInv, NEW e \in Executors, GatherCase(e)
  PROVE  ProtocolizationInv'
<1> DEFINE x == [executors[e] EXCEPT !.evaluated = case]
<1>1. executors[e] \in ExecutorState /\ ExecutorOK(history, decisions, results, executors[e])
  BY TheExecutor
<1>2. case \in Case /\ Copy(history, case)
  BY TheCase DEF ProtocolizationInv, Copy
<1>3. x \in ExecutorState /\ ExecutorOK(history, decisions, results, x)
  BY <1>1, <1>2 DEF ExecutorState, ExecutorOK
<1>4. Advance(e, x)
  BY DEF GatherCase
<1> HIDE DEF x
<1>5. PICK y \in ExecutorState : y = x
  BY <1>3
<1> QED BY <1>3, <1>4, <1>5, Advances

\* The records gathered are the stored ones.
LEMMA GatherRecordsStep ==
  ASSUME ProtocolizationInv, NEW e \in Executors, GatherRecords(e)
  PROVE  ProtocolizationInv'
<1> DEFINE x == [executors[e] EXCEPT !.records = AllRecords]
<1>1. executors[e] \in ExecutorState /\ ExecutorOK(history, decisions, results, executors[e])
  BY TheExecutor
<1>2. AllRecords = [decisions |-> decisions, requests |-> requests, results |-> results]
  BY DEF AllRecords, Records
<1>3. AllRecords \in RecordsType
  BY <1>2 DEF ProtocolizationInv, ProtocolizationTypeOK, TypeOK, VerificationTypeOK, RecordsType
<1>4. Gathered(decisions, results, AllRecords)
  BY <1>2 DEF ProtocolizationInv, ResultsInv, Gathered
<1>5. x \in ExecutorState /\ ExecutorOK(history, decisions, results, x)
  BY <1>1, <1>3, <1>4 DEF ExecutorState, ExecutorOK
<1>6. Advance(e, x)
  BY DEF GatherRecords
<1> HIDE DEF x
<1>7. PICK y \in ExecutorState : y = x
  BY <1>5
<1> QED BY <1>5, <1>6, <1>7, Advances

\* What is executed is the case at the evaluated revision, whichever copy of
\* it the executor passed: a revision of one case is one case.
LEMMA ExecuteStep ==
  ASSUME ProtocolizationInv, NEW e \in Executors,
         NEW c \in {executors[e].evaluated, case}, NEW id \in ResultIds, Execute(e, c, id)
  PROVE  ProtocolizationInv'
<1> DEFINE b == executors[e].evaluated
           recs == executors[e].records
           o == [resultId |-> id, revision |-> c.revision, state |-> c.state,
                 materials |-> c.materials, records |-> recs]
           x == [evaluated |-> NoCase, records |-> NoRecords, outcome |-> o]
<1>1. /\ b # NoCase /\ recs # NoRecords /\ c.state # Cancelled
      /\ Authorizes(b, recs, c) /\ Advance(e, x)
  BY DEF Execute
<1>2. executors[e] \in ExecutorState /\ ExecutorOK(history, decisions, results, executors[e])
  BY TheExecutor
<1>3. /\ b \in Case /\ recs \in RecordsType
      /\ Copy(history, b) /\ Gathered(decisions, results, recs)
  BY <1>1, <1>2 DEF ExecutorState, ExecutorOK
<1>4. case \in Case /\ Copy(history, case)
  BY TheCase DEF ProtocolizationInv, Copy
<1>5. c \in Case /\ Copy(history, c)
  BY <1>3, <1>4
<1>6. b = c /\ ReadinessState(b, recs) = Ready
  BY <1>1, <1>3, <1>5 DEF Authorizes, Copy
<1> HIDE DEF b, recs
<1>7. o \in Execution
  BY <1>3, <1>5 DEF Execution, Case
<1>8. Executed(history, decisions, results, o)
  BY <1>1, <1>3, <1>5, <1>6 DEF Executed, Copy
<1> HIDE DEF o
<1>9. x \in ExecutorState /\ ExecutorOK(history, decisions, results, x)
  BY <1>7, <1>8 DEF ExecutorState, ExecutorOK
<1> HIDE DEF x
<1>10. PICK y \in ExecutorState : y = x
  BY <1>9
<1> QED BY <1>1, <1>9, <1>10, Advances

\* An idle executor has nothing to answer for.
LEMMA IdleExecutorOK ==
  IdleExecutor \in ExecutorState
  /\ \A h, ds, vs : ExecutorOK(h, ds, vs, IdleExecutor)
BY DEF IdleExecutor, ExecutorState, ExecutorOK

\* A result is stored if none is about its revision.
LEMMA StoreExecutionStep ==
  ASSUME ProtocolizationInv, NEW e \in Executors, StoreExecution(e)
  PROVE  ProtocolizationInv'
<1> DEFINE o == executors[e].outcome
<1>1. /\ o # NoOutcome /\ ResultAccepted(o) /\ executions' = executions \cup {o}
      /\ executors' = [executors EXCEPT ![e] = IdleExecutor]
      /\ UNCHANGED <<reviewVars, verificationVars>>
  BY DEF StoreExecution
<1>2. o \in Execution /\ Executed(history, decisions, results, o)
  BY <1>1, TheExecutor DEF ExecutorState, ExecutorOK
<1>3. history' = history /\ decisions' = decisions /\ results' = results
  BY <1>1 DEF reviewVars, vars, verificationVars
<1> HIDE DEF o
<1>4. executions' \subseteq Execution
  BY <1>1, <1>2 DEF ProtocolizationInv, ProtocolizationTypeOK
<1>5. OneResultPerBasis'
  BY <1>1 DEF ProtocolizationInv, ExecutionsInv, OneResultPerBasis, ResultAccepted
<1>6. ExecutionsInv'
  BY <1>1, <1>2, <1>3, <1>5 DEF ProtocolizationInv, ExecutionsInv
<1> QED BY <1>1, <1>4, <1>6, IdleExecutorOK, OneExecutor

\* A refusal stores nothing.
LEMMA AbandonExecutionStep ==
  ASSUME ProtocolizationInv, NEW e \in Executors, AbandonExecution(e)
  PROVE  ProtocolizationInv'
BY IdleExecutorOK, Advances DEF AbandonExecution

\* Every step of an executor.
LEMMA ExecutorStepKeeps ==
  ASSUME ProtocolizationInv, NEW e \in Executors, ExecutorStep(e)
  PROVE  ProtocolizationInv'
<1>1. CASE GatherCase(e)
  BY <1>1, GatherCaseStep
<1>2. CASE GatherRecords(e)
  BY <1>2, GatherRecordsStep
<1>3. CASE \E c \in {executors[e].evaluated, case}, id \in ResultIds : Execute(e, c, id)
  BY <1>3, ExecuteStep
<1>4. CASE StoreExecution(e)
  BY <1>4, StoreExecutionStep
<1>5. CASE AbandonExecution(e)
  BY <1>5, AbandonExecutionStep
<1> QED BY <1>1, <1>2, <1>3, <1>4, <1>5 DEF ExecutorStep

-----------------------------------------------------------------------------
(* The invariant *)

\* Review, verification and execution together keep ProtocolizationInv.
LEMMA ProtocolizationStep ==
  ProtocolizationInv /\ [ProtocolizationNext]_allVars => ProtocolizationInv'
<1> SUFFICES ASSUME ProtocolizationInv, [ProtocolizationNext]_allVars
             PROVE  ProtocolizationInv'
  OBVIOUS
<1>1. CASE Next /\ UNCHANGED <<verificationVars, executors, executions>>
  BY <1>1, ReviewKeeps
<1>2. CASE \E w \in Runners :
             RunStep(w, case) /\ UNCHANGED <<reviewVars, executors, executions>>
  BY <1>2, RunStepKeeps
<1>3. CASE \E e \in Executors : ExecutorStep(e)
  BY <1>3, ExecutorStepKeeps
<1>4. CASE UNCHANGED allVars
  <2>1. UNCHANGED vars /\ UNCHANGED <<verificationVars, executors, executions>>
    BY <1>4 DEF allVars, vars, verificationVars
  <2> QED BY <2>1, ReviewKeeps
<1> QED BY <1>1, <1>2, <1>3, <1>4 DEF ProtocolizationNext

\* In every reachable state of the whole path.
LEMMA ProtocolizationInvariant == ProtocolizationSpec => []ProtocolizationInv
BY ProtocolizationStarts, ProtocolizationStep, PTL DEF ProtocolizationSpec

-----------------------------------------------------------------------------
(* Theorems *)

\* Whatever review, verification and execution interleave, every store and
\* every copy in flight has the shape the package gives it.
THEOREM ProtocolizationTypeCorrect == ProtocolizationSpec => []ProtocolizationTypeOK
<1>1. ProtocolizationInv => ProtocolizationTypeOK
  BY DEF ProtocolizationInv
<1> QED BY <1>1, ProtocolizationInvariant, PTL

\* However many executors race over one revision of the case, at most one
\* result of protocolizing it is ever stored.
THEOREM ProtocolizedOnce == ProtocolizationSpec => []OneResultPerBasis
<1>1. ProtocolizationInv => OneResultPerBasis
  BY DEF ProtocolizationInv, ExecutionsInv
<1> QED BY <1>1, ProtocolizationInvariant, PTL

\* Although nothing holds the case still between gathering, evaluating and
\* executing, every stored result is about a case that was stored at the
\* revision it names and was Ready, on records that were stored.
THEOREM ProtocolizedWhileReady == ProtocolizationSpec => []ExecutionsStoodReady
<1>1. ProtocolizationInv => ExecutionsStoodReady
  BY TheCase DEF ProtocolizationInv, ExecutionsInv, Executed, Gathered, ExecutionsStoodReady
<1> QED BY <1>1, ProtocolizationInvariant, PTL

\* Unless decisions are stored before cases, nothing is protocolized
\* unreviewed: behind every required attestation of a result there is a
\* stored decision, given on the very dossier the result quotes.
THEOREM ProtocolizedIsReviewed ==
  ASSUME CommitOrder # "DecisionFirst"
  PROVE  ProtocolizationSpec => []ReviewedWhatItProtocolized
<1>1. ProtocolizationInv => ReviewedWhatItProtocolized
  <2> SUFFICES ASSUME ProtocolizationInv, NEW x \in executions,
                      NEW r \in Required("Attestation")
               PROVE  \E d \in decisions, m \in x.materials :
                        /\ Produced(d, r, m)
                        /\ DossierFor(history[x.revision], r) =
                             [DossierFor(history[d.basis], r) EXCEPT !.materials = @ \cup {m}]
    BY DEF ReviewedWhatItProtocolized
  <2> DEFINE c == history[x.revision]
  <2>1. ReviewInv /\ Executed(history, decisions, results, x)
    BY DEF ProtocolizationInv, ExecutionsInv
  <2>2. /\ x.revision \in 1..Len(history) /\ c \in Case /\ c.profile = case.profile
        /\ c.materials = x.materials /\ x.records.decisions \subseteq decisions
        /\ ReadinessState(c, x.records) = Ready
    BY <2>1, TheCase DEF Executed, Gathered, Recorded
  <2>3. /\ r \in ProfileRequirements[c.profile]
        /\ RequirementKind[r] = "Attestation" /\ Obligation[r] = "Required"
    BY <2>2 DEF Required
  <2>4. r \in Requirements
    BY <2>2, <2>3, AggregateAssumption DEF Case
  <2> HIDE DEF c
  <2>5. PICK m \in CurrentAttestations(c, x.records, r) : TRUE
    BY <2>2, <2>3, ReadyHasAttestation
  <2>6. PICK d \in ProducingDecisions(c, x.records, r, m) :
          CoversCurrentRevision(c, x.records, r, CoveredThrough(d))
    BY <2>5 DEF CurrentAttestations
  <2>7. m \in MaterialsFor(c, r, "Attestation") /\ m \in x.materials
    BY <2>2, <2>5 DEF CurrentAttestations, MaterialsFor
  <2>8. /\ d \in decisions /\ Produced(d, r, m)
        /\ DossierFor(c, r) = Answered(DossierFor(history[d.basis], r), m)
    <3>1. /\ m \in MaterialsFor(history[x.revision], r, "Attestation")
          /\ d \in ProducingDecisions(history[x.revision], x.records, r, m)
          /\ CoversCurrentRevision(history[x.revision], x.records, r, CoveredThrough(d))
      BY <2>6, <2>7 DEF c
    <3>2. ReviewInv /\ x.revision \in 1..Len(history) /\ x.records.decisions \subseteq decisions
      BY <2>1, <2>2
    <3>3. /\ d \in decisions /\ Produced(d, r, m)
          /\ DossierFor(history[x.revision], r) = Answered(DossierFor(history[d.basis], r), m)
      BY <2>4, <3>1, <3>2, SeenDossier
    <3> QED BY <3>3 DEF c
  <2> QED BY <2>7, <2>8 DEF Answered, c
<1> QED BY <1>1, ProtocolizationInvariant, PTL

\* The reasons verification gives are in the table too.
LEMMA VerificationReasons ==
  {"verification.missing", "verification.stale", "verification.fail",
   "verification.manual-review", "verification.unavailable"} \subseteq PrecedenceReasons
<1>1. DOMAIN Precedence = 1..7
  BY DEF Precedence
<1>2. /\ Precedence[6].reasons =
           {"verification.missing", "verification.fail",
            "verification.stale", "verification.unavailable"}
      /\ "verification.manual-review" \in Precedence[7].reasons
  BY DEF Precedence
<1> HIDE DEF Precedence
<1>3. \A i \in 1..7 : \A x \in Precedence[i].reasons : x \in PrecedenceReasons
  BY <1>1 DEF PrecedenceReasons
<1>4. 6 \in 1..7 /\ 7 \in 1..7
  OBVIOUS
<1> QED BY <1>2, <1>3, <1>4

\* The results readiness counts for a check are those of the very revision.
LEMMA CurrentAreOfRevision ==
  ASSUME NEW c \in Case, NEW inp, NEW r, NEW k
  PROVE  CurrentResults(c, inp, r, k) = ResultsAt(inp.results, r, k, c.revision)
<1>1. c.revision <= c.revision
  BY DEF Case
<1> QED BY <1>1 DEF CurrentResults, ResultsFor, ResultsAt

\* A check with nothing against it has a result for the evaluated revision,
\* and its latest one found nothing.
LEMMA UnblockedCheck ==
  ASSUME NEW c \in Case, NEW inp, inp.results \subseteq Result, LatestExists(inp.results),
         NEW r \in Requirements, NEW k \in CheckIds,
         CheckBlockers(c, inp, r, k) \cap PrecedenceReasons = {}
  PROVE  CheckSatisfied(c, inp, r, k)
<1> DEFINE current == CurrentResults(c, inp, r, k)
<1>1. ResultsFor(c, inp, r, k) # {}
  BY VerificationReasons DEF CheckBlockers, When
<1>2. current # {}
  BY <1>1, VerificationReasons DEF CheckBlockers, When
<1>3. c.revision \in Nat /\ current = ResultsAt(inp.results, r, k, c.revision)
  BY CurrentAreOfRevision DEF Case
<1>4. PICK v \in Latest(current) : TRUE
  BY <1>2, <1>3 DEF LatestExists
<1>5. v.outcome \in Outcomes
  BY <1>4 DEF Latest, CurrentResults, ResultsFor, Result
<1>6. /\ When(v.outcome = "Fail", "verification.fail") \subseteq CheckBlockers(c, inp, r, k)
      /\ When(v.outcome = "ManualReview", "verification.manual-review")
           \subseteq CheckBlockers(c, inp, r, k)
      /\ When(v.outcome = "Unavailable", "verification.unavailable")
           \subseteq CheckBlockers(c, inp, r, k)
  BY <1>4 DEF CheckBlockers
<1>7. v.outcome # "Fail" /\ v.outcome # "ManualReview" /\ v.outcome # "Unavailable"
  BY <1>6, VerificationReasons DEF When
<1>8. v.outcome \in {"Pass", "Warning"}
  BY <1>5, <1>7 DEF Outcomes
<1> QED BY <1>4, <1>8 DEF CheckSatisfied

\* A required verification of a Ready case has a check that is satisfied.
LEMMA ReadyHasVerification ==
  ASSUME NEW c \in Case, NEW inp, inp.results \subseteq Result, LatestExists(inp.results),
         ReadinessState(c, inp) = Ready,
         NEW r \in ProfileRequirements[c.profile],
         RequirementKind[r] = "Verification", Obligation[r] = "Required"
  PROVE  \E k \in ChecksOf[r] : CheckSatisfied(c, inp, r, k)
<1> DEFINE satisfied == {k \in ChecksOf[r] : CheckSatisfied(c, inp, r, k)}
<1>1. r \in Requirements /\ ChecksOf[r] # {} /\ ChecksOf[r] \subseteq CheckIds
  BY AggregateAssumption, ReadinessAssumption DEF Case
<1>2. VerificationBlockers(c, inp, r) \subseteq Blockers(c, inp)
  BY DEF Blockers, RequirementBlockers, FindingsOf
<1>3. VerificationBlockers(c, inp, r) \cap PrecedenceReasons = {}
  BY <1>2, ReadyHasNoReason
<1>4. CASE satisfied = ChecksOf[r] \/ satisfied # {}
  BY <1>1, <1>4
<1>5. CASE satisfied # ChecksOf[r] /\ satisfied = {}
  <2>1. PICK k \in ChecksOf[r] : k \notin satisfied
    BY <1>5
  <2>2. VerificationBlockers(c, inp, r) =
          UNION {CheckBlockers(c, inp, r, j) : j \in ChecksOf[r] \ satisfied}
    BY <1>5 DEF VerificationBlockers
  <2>3. CheckBlockers(c, inp, r, k) \subseteq VerificationBlockers(c, inp, r)
    BY <2>1, <2>2
  <2>4. CheckSatisfied(c, inp, r, k)
    BY <1>1, <1>3, <2>3, UnblockedCheck
  <2> QED BY <2>4
<1> QED BY <1>4, <1>5

\* Under every order of the stores, nothing is protocolized unverified: for
\* every required verification some check passed, on the very material the
\* result quotes.
THEOREM ProtocolizedIsVerified == ProtocolizationSpec => []VerifiedWhatItProtocolized
<1>1. ProtocolizationInv => VerifiedWhatItProtocolized
  <2> SUFFICES ASSUME ProtocolizationInv, NEW x \in executions,
                      NEW r \in Required("Verification")
               PROVE  \E v \in results : /\ v.requirement = r
                                         /\ v.outcome \in {"Pass", "Warning"}
                                         /\ v.saw = x.materials
    BY DEF VerifiedWhatItProtocolized
  <2> DEFINE c == history[x.revision]
             inp == x.records
  <2>1. ReviewInv /\ Executed(history, decisions, results, x) /\ results \subseteq Result
    BY DEF ProtocolizationInv, ExecutionsInv, ProtocolizationTypeOK, VerificationTypeOK
  <2>2. /\ c \in Case /\ c.profile = case.profile /\ c.revision = x.revision
        /\ c.materials = x.materials
        /\ inp.results \subseteq results /\ LatestExists(inp.results)
        /\ ReadinessState(c, inp) = Ready
    BY <2>1, TheCase DEF Executed, Gathered, Recorded
  <2>3. /\ r \in ProfileRequirements[c.profile]
        /\ RequirementKind[r] = "Verification" /\ Obligation[r] = "Required"
    BY <2>2 DEF Required
  <2>4. \A v \in results : v.saw = history[v.revision].materials
    BY DEF ProtocolizationInv, ResultsInv, SawRevision
  <2> HIDE DEF inp
  <2>5. PICK k \in ChecksOf[r] : CheckSatisfied(c, inp, r, k)
    <3> HIDE DEF c
    <3>1. inp.results \subseteq Result
      BY <2>1, <2>2
    <3> QED BY <2>2, <2>3, <3>1, ReadyHasVerification
  <2>6. PICK v \in Latest(CurrentResults(c, inp, r, k)) : v.outcome \in {"Pass", "Warning"}
    BY <2>5 DEF CheckSatisfied
  <2>7. v \in inp.results /\ v.requirement = r /\ v.revision = x.revision
    BY <2>2, <2>6 DEF Latest, CurrentResults, ResultsFor
  <2> QED BY <2>2, <2>4, <2>6, <2>7
<1> QED BY <1>1, ProtocolizationInvariant, PTL

-----------------------------------------------------------------------------
(* Review, seen from the whole path *)

\* Verification and execution leave what review works on alone.
LEMMA PathSteps == [ProtocolizationNext]_allVars => [Next]_vars
<1> SUFFICES ASSUME [ProtocolizationNext]_allVars PROVE [Next]_vars
  OBVIOUS
<1>1. CASE Next /\ UNCHANGED <<verificationVars, executors, executions>>
  BY <1>1
<1>2. CASE \E w \in Runners :
             RunStep(w, case) /\ UNCHANGED <<reviewVars, executors, executions>>
  BY <1>2 DEF reviewVars
<1>3. ASSUME NEW e \in Executors, ExecutorStep(e)
      PROVE  UNCHANGED vars
  BY <1>3 DEF ExecutorStep, GatherCase, GatherRecords, Execute, StoreExecution,
              AbandonExecution, Advance, reviewVars
<1>4. CASE UNCHANGED allVars
  BY <1>4 DEF allVars, vars
<1> QED BY <1>1, <1>2, <1>3, <1>4 DEF ProtocolizationNext

\* The whole path behaves, as far as review is concerned, like review alone:
\* it starts like it, and each step is one of review's or none.
THEOREM ProtocolizationImplementsReview == ProtocolizationSpec => Spec
<1>1. ProtocolizationInit => Init
  BY DEF ProtocolizationInit
<1> QED BY <1>1, PathSteps, PTL DEF ProtocolizationSpec, Spec

\* So what holds of review holds while runs and executors read its stores:
\* decisions name artifacts the case took, a current attestation was given on
\* the dossier the case still has, and no objection is outvoted.
THEOREM ReviewHoldsOnThePath ==
  ASSUME CommitOrder # "DecisionFirst"
  PROVE  ProtocolizationSpec =>
           [](DecisionsHappened /\ CurrentAttestationSawDossier /\ ObjectionsAnswered)
BY ProtocolizationImplementsReview, DecidedArtifactsExist, CurrentMeansSeen,
   ObjectionsStay, PTL

\* (with a single transaction, also over time: what is stale stays stale)
THEOREM StaleOnThePath ==
  ASSUME CommitOrder = "Atomic"
  PROVE  ProtocolizationSpec => StaleNeverRevives
BY ProtocolizationImplementsReview, StaleStaysStale, PTL

\* A result of the protocolization, and what its profile demanded.
ProtocolizedMeansMinimumOne ==
  executions # {} => \A r \in Required("Attestation") : MinimumCount[r] = 1

\* A profile that demands two attestations of one requirement keeps its cases
\* from ever being protocolized, whatever executors gather and when.
THEOREM MinimumOfTwoIsNeverProtocolized ==
  ASSUME CommitOrder # "DecisionFirst"
  PROVE  ProtocolizationSpec => []ProtocolizedMeansMinimumOne
<1>1. ProtocolizationInv => ProtocolizedMeansMinimumOne
  <2> SUFFICES ASSUME ProtocolizationInv, NEW x \in executions,
                      NEW r \in Required("Attestation")
               PROVE  MinimumCount[r] = 1
    BY DEF ProtocolizedMeansMinimumOne
  <2>1. ReviewInv /\ Executed(history, decisions, results, x)
    BY DEF ProtocolizationInv, ExecutionsInv
  <2>2. /\ x.revision \in 1..Len(history) /\ x.records.decisions \subseteq decisions
        /\ ReadinessState(history[x.revision], x.records) = Ready
    BY <2>1 DEF Executed, Gathered
  <2>3. /\ r \in ProfileRequirements[case.profile]
        /\ RequirementKind[r] = "Attestation" /\ Obligation[r] = "Required"
    BY DEF Required
  <2> QED BY <2>1, <2>2, <2>3, ReadyDemandsOne
<1> QED BY <1>1, ProtocolizationInvariant, PTL

-----------------------------------------------------------------------------
(* What Ready means *)

\* What a required requirement asks of the case and of the records about it.
Met(c, inp, r) ==
  /\ RequirementKind[r] \in {"Declaration", "Evidence"} =>
       Cardinality(DistinctRefs(MaterialsFor(c, r, RequirementKind[r]))) >= MinimumCount[r]
  /\ RequirementKind[r] = "Verification" =>
       \/ \A k \in ChecksOf[r] : CheckSatisfied(c, inp, r, k)
       \/ r \in AnyCheckSuffices /\ \E k \in ChecksOf[r] : CheckSatisfied(c, inp, r, k)
  /\ RequirementKind[r] = "Attestation" =>
       /\ \A m \in MaterialsFor(c, r, "Attestation") : ProducingDecisions(c, inp, r, m) # {}
       /\ Cardinality(DistinctRefs(CurrentAttestations(c, inp, r))) >= MinimumCount[r]
       /\ CurrentPositions(c, inp, r) \subseteq {Attest}

\* A case that may be protocolized, said without reasons and precedence.
Qualifies(c, inp) ==
  /\ c.state # Cancelled
  /\ \A r \in ProfileRequirements[c.profile] :
       /\ Obligation[r] # "Conditional"
       /\ Obligation[r] = "Required" => Met(c, inp, r)

\* The remaining reasons are in the table as well.
LEMMA CaseReasons ==
  {"lifecycle.cancelled", "requirement.material.missing",
   "requirement.material.insufficient", "requirement.condition.unresolved"}
    \subseteq PrecedenceReasons
<1>1. DOMAIN Precedence = 1..7
  BY DEF Precedence
<1>2. /\ Precedence[1].reasons = {"lifecycle.cancelled"}
      /\ Precedence[5].reasons =
           {"requirement.material.missing", "requirement.material.insufficient",
            "requirement.condition.unresolved"}
  BY DEF Precedence
<1> HIDE DEF Precedence
<1>3. \A i \in 1..7 : \A x \in Precedence[i].reasons : x \in PrecedenceReasons
  BY <1>1 DEF PrecedenceReasons
<1>4. 1 \in 1..7 /\ 5 \in 1..7
  OBVIOUS
<1> QED BY <1>2, <1>3, <1>4

\* (declarations and evidence)
LEMMA CountedMet ==
  ASSUME NEW c, IsFiniteSet(c.materials), NEW r, MinimumCount[r] \in Nat \ {0}
  PROVE  LET present == Cardinality(DistinctRefs(MaterialsFor(c, r, RequirementKind[r]))) IN
         /\ present >= MinimumCount[r] => CountedBlockers(c, r) = {}
         /\ CountedBlockers(c, r) \cap PrecedenceReasons = {} => present >= MinimumCount[r]
<1> DEFINE mine == MaterialsFor(c, r, RequirementKind[r])
           present == Cardinality(DistinctRefs(mine))
<1>1. IsFiniteSet(mine)
  <2>1. mine \subseteq c.materials
    BY DEF MaterialsFor
  <2> QED BY <2>1, FS_Subset
<1>2. IsFiniteSet(DistinctRefs(mine))
  <2> HIDE DEF mine
  <2> DEFINE f == [m \in mine |-> m.ref]
  <2>1. f \in Surjection(mine, DistinctRefs(mine))
    BY DEF Surjection, DistinctRefs
  <2> HIDE DEF f
  <2> QED BY <1>1, <2>1, FS_Surjection
<1>3. present \in Nat
  BY <1>2, FS_CardinalityType
<1>4. CountedBlockers(c, r) =
        When(present = 0, "requirement.material.missing") \cup
        When(present \in 1..(MinimumCount[r] - 1), "requirement.material.insufficient")
  BY DEF CountedBlockers
<1> HIDE DEF present
<1>5. present >= MinimumCount[r] => CountedBlockers(c, r) = {}
  BY <1>3, <1>4 DEF When
<1>6. ASSUME CountedBlockers(c, r) \cap PrecedenceReasons = {}
      PROVE  present >= MinimumCount[r]
  <2>1. present # 0
    BY <1>4, <1>6, CaseReasons DEF When
  <2>2. present \notin 1..(MinimumCount[r] - 1)
    BY <1>4, <1>6, CaseReasons DEF When
  <2> QED BY <1>3, <2>1, <2>2
<1> QED BY <1>5, <1>6 DEF present

\* (verification)
LEMMA VerificationMet ==
  ASSUME NEW c \in Case, NEW inp, inp.results \subseteq Result, LatestExists(inp.results),
         NEW r \in Requirements, RequirementKind[r] = "Verification"
  PROVE  /\ Met(c, inp, r) => VerificationBlockers(c, inp, r) = {}
         /\ VerificationBlockers(c, inp, r) \cap PrecedenceReasons = {} => Met(c, inp, r)
<1> DEFINE satisfied == {k \in ChecksOf[r] : CheckSatisfied(c, inp, r, k)}
<1>1. ChecksOf[r] \subseteq CheckIds
  BY ReadinessAssumption
<1>2. Met(c, inp, r) <=> satisfied = ChecksOf[r] \/ (r \in AnyCheckSuffices /\ satisfied # {})
  <2>1. satisfied = ChecksOf[r] <=> \A k \in ChecksOf[r] : CheckSatisfied(c, inp, r, k)
    OBVIOUS
  <2>2. satisfied # {} <=> \E k \in ChecksOf[r] : CheckSatisfied(c, inp, r, k)
    OBVIOUS
  <2> HIDE DEF satisfied
  <2> QED BY <2>1, <2>2 DEF Met
<1>3. Met(c, inp, r) => VerificationBlockers(c, inp, r) = {}
  BY <1>2 DEF VerificationBlockers
<1>4. ASSUME VerificationBlockers(c, inp, r) \cap PrecedenceReasons = {}, ~Met(c, inp, r)
      PROVE  FALSE
  <2>1. VerificationBlockers(c, inp, r) =
          UNION {CheckBlockers(c, inp, r, j) : j \in ChecksOf[r] \ satisfied}
    BY <1>2, <1>4 DEF VerificationBlockers
  <2>2. PICK k \in ChecksOf[r] : k \notin satisfied
    BY <1>2, <1>4
  <2>3. CheckBlockers(c, inp, r, k) \subseteq VerificationBlockers(c, inp, r)
    BY <2>1, <2>2
  <2>4. CheckSatisfied(c, inp, r, k)
    BY <1>1, <1>4, <2>2, <2>3, UnblockedCheck
  <2> QED BY <2>2, <2>4
<1> QED BY <1>3, <1>4

\* (attestation: positions)
LEMMA PositionsMet ==
  ASSUME NEW positions \in SUBSET Actions
  PROVE  /\ positions \subseteq {Attest} => PositionBlockers(positions) = {}
         /\ PositionBlockers(positions) \cap PrecedenceReasons = {} =>
              positions \subseteq {Attest}
<1>1. ASSUME positions \subseteq {Attest}
      PROVE  PositionBlockers(positions) = {}
  <2>1. positions = {} \/ positions = {Attest}
    BY <1>1
  <2>2. Cardinality(positions) = 0 \/ Cardinality(positions) = 1
    BY <2>1, FS_EmptySet, FS_Singleton
  <2>3. /\ positions # {Reject} /\ positions # {RequestMoreEvidence}
        /\ positions # {Abstain}
    BY <2>1 DEF Attest, Reject, RequestMoreEvidence, Abstain
  <2> QED BY <2>2, <2>3 DEF PositionBlockers, When
<1>2. ASSUME PositionBlockers(positions) \cap PrecedenceReasons = {}
      PROVE  positions \subseteq {Attest}
  <2>1. ~(Cardinality(positions) > 1)
    BY <1>2, ReviewReasons DEF PositionBlockers
  <2>2. /\ positions # {Reject} /\ positions # {RequestMoreEvidence}
        /\ positions # {Abstain}
    BY <1>2, <2>1, ReviewReasons DEF PositionBlockers, When
  <2> SUFFICES ASSUME NEW a \in positions, a # Attest PROVE FALSE
    OBVIOUS
  <2>3. positions = {a}
    BY <2>1, NoConflict
  <2> QED BY <2>2, <2>3 DEF Actions
<1> QED BY <1>1, <1>2

\* (attestation)
LEMMA AttestationMet ==
  ASSUME NEW c, NEW inp, inp.decisions \subseteq Decision,
         NEW r, RequirementKind[r] = "Attestation"
  PROVE  /\ Met(c, inp, r) => AttestationBlockers(c, inp, r) = {}
         /\ AttestationBlockers(c, inp, r) \cap PrecedenceReasons = {} => Met(c, inp, r)
<1> DEFINE materials == MaterialsFor(c, r, "Attestation")
           unfounded == {m \in materials : ProducingDecisions(c, inp, r, m) = {}}
           current == CurrentAttestations(c, inp, r)
           enough == Cardinality(DistinctRefs(current)) >= MinimumCount[r]
           positions == CurrentPositions(c, inp, r)
<1>1. positions \in SUBSET Actions
  BY DEF CurrentPositions, Decisions, Decision
<1>2. AttestationBlockers(c, inp, r) =
        When(unfounded # {}, "attestation.decision.missing") \cup
        When(~enough /\ (materials \ unfounded) \ current # {},
             "attestation.currency.unresolved") \cup
        When(~enough /\ (materials = {} \/ current # {}), "attestation.missing") \cup
        When(~enough /\ Undecided(c, inp, r) # {}, "review.pending") \cup
        PositionBlockers(positions)
  BY DEF AttestationBlockers
<1>3. Met(c, inp, r) <=> unfounded = {} /\ enough /\ positions \subseteq {Attest}
  <2>1. unfounded = {} <=> \A m \in materials : ProducingDecisions(c, inp, r, m) # {}
    OBVIOUS
  <2> QED BY <2>1 DEF Met
<1> HIDE DEF materials, unfounded, current, enough, positions
<1>4. ASSUME Met(c, inp, r) PROVE AttestationBlockers(c, inp, r) = {}
  <2>1. PositionBlockers(positions) = {}
    BY <1>1, <1>3, <1>4, PositionsMet
  <2> QED BY <1>2, <1>3, <1>4, <2>1 DEF When
<1>5. ASSUME AttestationBlockers(c, inp, r) \cap PrecedenceReasons = {}
      PROVE  Met(c, inp, r)
  <2>1. /\ "attestation.decision.missing" \notin AttestationBlockers(c, inp, r)
        /\ "attestation.currency.unresolved" \notin AttestationBlockers(c, inp, r)
        /\ "attestation.missing" \notin AttestationBlockers(c, inp, r)
    BY <1>5, ReviewReasons
  <2>2. unfounded = {}
    BY <1>2, <2>1 DEF When
  <2>3. ~enough => materials # {} /\ current = {} /\ (materials \ unfounded) \ current = {}
    BY <1>2, <2>1 DEF When
  <2>4. enough
    BY <2>2, <2>3
  <2>5. PositionBlockers(positions) \cap PrecedenceReasons = {}
    BY <1>2, <1>5
  <2>6. positions \subseteq {Attest}
    BY <1>1, <2>5, PositionsMet
  <2> QED BY <1>3, <2>2, <2>4, <2>6
<1> QED BY <1>4, <1>5

\* (any requirement)
LEMMA RequirementMet ==
  ASSUME NEW c \in Case, IsFiniteSet(c.materials), NEW inp, inp.decisions \subseteq Decision,
         inp.results \subseteq Result, LatestExists(inp.results), NEW r \in Requirements
  PROVE  /\ Met(c, inp, r) => FindingsOf(c, inp, r) = {}
         /\ FindingsOf(c, inp, r) \cap PrecedenceReasons = {} => Met(c, inp, r)
<1>1. RequirementKind[r] \in {"Declaration", "Evidence", "Verification", "Attestation"}
      /\ MinimumCount[r] \in Nat \ {0}
  BY ReadinessAssumption
<1>2. CASE RequirementKind[r] \in {"Declaration", "Evidence"}
  <2>1. FindingsOf(c, inp, r) = CountedBlockers(c, r)
    BY <1>2 DEF FindingsOf
  <2>2. Met(c, inp, r) <=>
          Cardinality(DistinctRefs(MaterialsFor(c, r, RequirementKind[r]))) >= MinimumCount[r]
    BY <1>2 DEF Met
  <2> QED BY <1>1, <2>1, <2>2, CountedMet
<1>3. CASE RequirementKind[r] = "Verification"
  <2>1. FindingsOf(c, inp, r) = VerificationBlockers(c, inp, r)
    BY <1>3 DEF FindingsOf
  <2> QED BY <1>3, <2>1, VerificationMet
<1>4. CASE RequirementKind[r] = "Attestation"
  <2>1. FindingsOf(c, inp, r) = AttestationBlockers(c, inp, r)
    BY <1>4 DEF FindingsOf
  <2> QED BY <1>4, <2>1, AttestationMet
<1> QED BY <1>1, <1>2, <1>3, <1>4

\* Readiness derives Ready from the absence of reasons in a table of seven
\* rows.  That is the same as every requirement of the profile being met: no
\* row is missing, and no reason escapes the table.
THEOREM ReadyMeansQualified ==
  ASSUME NEW c \in Case, IsFiniteSet(c.materials), NEW inp, inp.decisions \subseteq Decision,
         inp.results \subseteq Result, LatestExists(inp.results)
  PROVE  ReadinessState(c, inp) = Ready <=> Qualifies(c, inp)
<1> DEFINE required == ProfileRequirements[c.profile]
<1>1. required \subseteq Requirements
  BY AggregateAssumption DEF Case
<1>2. ASSUME ReadinessState(c, inp) = Ready PROVE Qualifies(c, inp)
  <2>1. PrecedenceReasons \cap Blockers(c, inp) = {}
    BY <1>2, ReadyHasNoReason
  <2>2. c.state # Cancelled
    BY <2>1, CaseReasons DEF Blockers, When
  <2>3. ASSUME NEW r \in required
        PROVE  /\ Obligation[r] # "Conditional"
               /\ Obligation[r] = "Required" => Met(c, inp, r)
    <3>1. RequirementBlockers(c, inp, r) \subseteq Blockers(c, inp)
      BY <2>3 DEF Blockers
    <3>2. Obligation[r] = "Conditional" =>
            RequirementBlockers(c, inp, r) = {"requirement.condition.unresolved"}
      BY DEF RequirementBlockers
    <3>3. Obligation[r] # "Conditional"
      BY <2>1, <3>1, <3>2, CaseReasons
    <3>4. ASSUME Obligation[r] = "Required" PROVE Met(c, inp, r)
      <4>1. RequirementBlockers(c, inp, r) = FindingsOf(c, inp, r)
        BY <3>4 DEF RequirementBlockers
      <4>2. FindingsOf(c, inp, r) \cap PrecedenceReasons = {}
        BY <2>1, <3>1, <4>1
      <4> QED BY <1>1, <2>3, <4>2, RequirementMet
    <3> QED BY <3>3, <3>4
  <2> QED BY <2>2, <2>3 DEF Qualifies
<1>3. ASSUME Qualifies(c, inp) PROVE ReadinessState(c, inp) = Ready
  <2>1. ASSUME NEW r \in required PROVE RequirementBlockers(c, inp, r) = {}
    <3>1. r \in Requirements /\ Obligation[r] # "Conditional"
          /\ (Obligation[r] = "Required" => Met(c, inp, r))
      BY <1>1, <1>3, <2>1 DEF Qualifies
    <3>2. CASE Obligation[r] = "Required"
      <4>1. FindingsOf(c, inp, r) = {}
        BY <3>1, <3>2, RequirementMet
      <4> QED BY <3>2, <4>1 DEF RequirementBlockers
    <3>3. CASE Obligation[r] # "Required"
      BY <3>1, <3>3 DEF RequirementBlockers
    <3> QED BY <3>2, <3>3
  <2>2. Blockers(c, inp) = {}
    <3>1. When(c.state = Cancelled, "lifecycle.cancelled") = {}
      BY <1>3 DEF Qualifies, When
    <3>2. UNION {RequirementBlockers(c, inp, r) : r \in required} = {}
      BY <2>1
    <3> QED BY <3>1, <3>2 DEF Blockers
  <2>3. {i \in DOMAIN Precedence : Precedence[i].reasons \cap Blockers(c, inp) # {}} = {}
    BY <2>2
  <2> QED BY <2>3 DEF ReadinessState
<1> QED BY <1>2, <1>3

\* What was protocolized, and what its profile asked of it.
ProtocolizedQualified ==
  \A x \in executions : Qualifies(history[x.revision], x.records)

\* Whatever is protocolized met its profile in full: not cancelled, no condition
\* left open, and every required declaration, evidence, verification and
\* attestation answered, on the material it quotes and on stored records.
THEOREM ProtocolizedMetItsProfile == ProtocolizationSpec => []ProtocolizedQualified
<1>1. ProtocolizationInv /\ FiniteInv => ProtocolizedQualified
  <2> SUFFICES ASSUME ProtocolizationInv, FiniteInv, NEW x \in executions
               PROVE  Qualifies(history[x.revision], x.records)
    BY DEF ProtocolizedQualified
  <2>1. ReviewInv /\ Executed(history, decisions, results, x)
        /\ results \subseteq Result /\ decisions \subseteq Decision
    BY DEF ProtocolizationInv, ExecutionsInv, ProtocolizationTypeOK, VerificationTypeOK, TypeOK
  <2>2. /\ history[x.revision] \in Case /\ IsFiniteSet(history[x.revision].materials)
        /\ ReadinessState(history[x.revision], x.records) = Ready
    BY <2>1, TheCase DEF Executed, FiniteInv
  <2>3. /\ x.records.decisions \subseteq Decision /\ x.records.results \subseteq Result
        /\ LatestExists(x.records.results)
    BY <2>1 DEF Executed, Gathered
  <2> HIDE DEF Ready
  <2> QED BY <2>2, <2>3, ReadyMeansQualified
<1>2. ProtocolizationSpec => []FiniteInv
  BY ProtocolizationImplementsReview, FiniteInvariant, PTL
<1> QED BY <1>1, <1>2, ProtocolizationInvariant, PTL

=============================================================================
