---------------------------- MODULE ControlPlane -----------------------------
(***************************************************************************)
(* The control plane of the hosted runtime: access requests, the decisions  *)
(* on them, the grants a decision creates, and their revocation.            *)
(*                                                                         *)
(* Every operation runs to its end without yielding, so one operation is    *)
(* one action; what can go wrong is their order and their repetition: a     *)
(* command sent again because its answer was lost, one key used for two     *)
(* commands, a second decision on a decided request.                        *)
(*                                                                         *)
(* Identifiers are numbered by size (ar_1, ga_1, evd_1), so requests,       *)
(* grants and evidence are sequences and an identifier is an index.         *)
(***************************************************************************)
EXTENDS Naturals, Sequences

CONSTANTS
  Subjects, Requesters,  \* who grants access, who asks for it
  Reasons,               \* reasons a revocation may state
  Keys,                  \* idempotency keys
  Absent                 \* an optional field left out, an entry not there

VARIABLES
  requests, grants,      \* by number
  revocationEvidence,    \* by number
  revocationIdempotency, \* by key: the command it stood for and its result
  revocationSequence,    \* revocations so far
  answered               \* history: every answer given to a revocation command

cpVars == <<requests, grants, revocationEvidence, revocationIdempotency,
            revocationSequence, answered>>

Optional(S) == S \cup {Absent}

AccessRequest ==
  [subject: Subjects, requester: Requesters,
   status: {"pending", "approved", "denied"}]

Grant ==
  [request: Nat, subject: Subjects, requester: Requesters,
   status: {"active", "revoked"}, revokedAt: Optional(Nat),
   revocation: Optional(Nat), reason: Optional(Reasons \cup {"MANUAL_REVOCATION"})]

RevokeCommand ==
  [grant: Nat, subject: Optional(Subjects), requester: Optional(Requesters),
   reason: Optional(Reasons), key: Optional(Keys)]

Evidence ==
  [revocation: Nat, grant: Nat, subject: Subjects, requester: Requesters,
   reason: Reasons \cup {"MANUAL_REVOCATION"}, key: Optional(Keys),
   completedAt: Nat]

\* What an answer says beyond the grant's own copy.
Result ==
  [grant: Nat, revocation: Optional(Nat), evidence: Optional(Nat),
   completedAt: Nat, replay: BOOLEAN]

\* What the cache keeps under a key.
Remembered ==
  [fingerprint: [grant: Nat, reason: Optional(Reasons), subject: Optional(Subjects),
                 requester: Optional(Requesters)],
   result: Result]

ASSUME AbsentAssumption ==
  /\ Absent \notin Subjects \cup Requesters \cup Reasons \cup Keys \cup Nat
  /\ Absent \notin Remembered
  /\ "MANUAL_REVOCATION" \notin Reasons

\* Mutation: a command is told apart by its reason and its callers only.
MutFingerprint(command) ==
  [reason |-> command.reason, subject |-> command.subject,
   requester |-> command.requester]

\* All the fields of a command that make it the same command under its key.
Fingerprint(command) ==
  [grant |-> command.grant, reason |-> command.reason,
   subject |-> command.subject, requester |-> command.requester]

CPInit ==
  /\ requests = <<>> /\ grants = <<>> /\ revocationEvidence = <<>>
  /\ revocationIdempotency = [k \in Keys |-> Absent]
  /\ revocationSequence = 0
  /\ answered = {}

-----------------------------------------------------------------------------
CreateAccessRequest(subject, requester) ==
  /\ requests' = Append(requests, [subject |-> subject, requester |-> requester,
                                   status |-> "pending"])
  /\ UNCHANGED <<grants, revocationEvidence, revocationIdempotency,
                 revocationSequence, answered>>

NewGrant(id) ==
  [request |-> id, subject |-> requests[id].subject,
   requester |-> requests[id].requester, status |-> "active",
   revokedAt |-> Absent, revocation |-> Absent, reason |-> Absent]

Decidable(id, subject) ==
  id \in DOMAIN requests /\ subject \in {Absent, requests[id].subject}

\* Mutation: a second approval makes the request's earlier grants active again.
MutDecideAccessRequest(id, subject, decision) ==
  /\ Decidable(id, subject)
  /\ requests' = [requests EXCEPT ![id].status =
                    IF decision = "approve" THEN "approved" ELSE "denied"]
  /\ grants' = IF decision = "deny" THEN grants
               ELSE IF \E g \in DOMAIN grants : grants[g].request = id
               THEN [g \in DOMAIN grants |-> NewGrant(id)]
               ELSE Append(grants, NewGrant(id))
  /\ UNCHANGED <<revocationEvidence, revocationIdempotency, revocationSequence,
                 answered>>

\* A request may be decided again, and each approval makes a grant of its own.
DecideAccessRequest(id, subject, decision) ==
  /\ Decidable(id, subject)
  /\ requests' = [requests EXCEPT ![id].status =
                    IF decision = "approve" THEN "approved" ELSE "denied"]
  /\ grants' = IF decision = "approve" THEN Append(grants, NewGrant(id)) ELSE grants
  /\ UNCHANGED <<revocationEvidence, revocationIdempotency, revocationSequence,
                 answered>>

RefuseDecision(id, subject) == ~Decidable(id, subject) /\ UNCHANGED cpVars

-----------------------------------------------------------------------------
Cached(command) ==
  command.key # Absent /\ revocationIdempotency[command.key] # Absent

\* Mutation: a key used again is trusted to be a repetition.
MutSameCommand(command) == Cached(command)

SameCommand(command) ==
  revocationIdempotency[command.key].fingerprint = Fingerprint(command)

Revocable(command) ==
  /\ command.grant \in DOMAIN grants
  /\ command.subject \in {Absent, grants[command.grant].subject}

Remember(command, result) ==
  revocationIdempotency' =
    IF command.key = Absent THEN revocationIdempotency
    ELSE [revocationIdempotency EXCEPT ![command.key] =
            [fingerprint |-> Fingerprint(command), result |-> result]]

Answer(command, result) ==
  answered' = answered \cup {[command |-> command, result |-> result]}

\* The first record about the grant, as find returns it.
EvidenceOf(grant) ==
  IF \E e \in DOMAIN revocationEvidence : revocationEvidence[e].grant = grant
  THEN CHOOSE e \in DOMAIN revocationEvidence :
         /\ revocationEvidence[e].grant = grant
         /\ \A f \in 1..(e - 1) : revocationEvidence[f].grant # grant
  ELSE Absent

\* The key was used: the cached answer again if it was for this very command,
ReplayRevocation(command) ==
  /\ Cached(command) /\ SameCommand(command)
  /\ Answer(command, [revocationIdempotency[command.key].result EXCEPT !.replay = TRUE])
  /\ UNCHANGED <<requests, grants, revocationEvidence, revocationIdempotency,
                 revocationSequence>>

\* Mutation: nothing is answered to a key used for another command.
MutRefuseKey(command) == Cached(command) /\ ~Cached(command)

\* IDEMPOTENCY_CONFLICT if it was for another.
RefuseKey(command) ==
  Cached(command) /\ ~SameCommand(command) /\ UNCHANGED cpVars

\* ACCESS_GRANT_NOT_FOUND or the subject of another grant.
RefuseRevocation(command) ==
  ~Cached(command) /\ ~Revocable(command) /\ UNCHANGED cpVars

\* Already revoked: a stable answer read back from the grant and its record.
RepeatRevocation(command) ==
  /\ ~Cached(command) /\ Revocable(command)
  /\ grants[command.grant].status = "revoked"
  /\ LET result == [grant |-> command.grant,
                    revocation |-> grants[command.grant].revocation,
                    evidence |-> EvidenceOf(command.grant),
                    completedAt |-> grants[command.grant].revokedAt,
                    replay |-> TRUE]
     IN Remember(command, result) /\ Answer(command, result)
  /\ UNCHANGED <<requests, grants, revocationEvidence, revocationSequence>>

StatedReason(command) ==
  IF command.reason = Absent THEN "MANUAL_REVOCATION" ELSE command.reason

\* Mutation: the status of the grant is never written.
MutRevokedGrant(grant, revocation, at, reason) ==
  [grant EXCEPT !.revokedAt = at, !.revocation = revocation, !.reason = reason]

RevokedGrant(grant, revocation, at, reason) ==
  [grant EXCEPT !.status = "revoked", !.revokedAt = at,
                !.revocation = revocation, !.reason = reason]

CompleteRevocation(command, at) ==
  /\ ~Cached(command) /\ Revocable(command)
  /\ grants[command.grant].status = "active"
  /\ LET grant == grants[command.grant]
         revocation == revocationSequence + 1
         result == [grant |-> command.grant, revocation |-> revocation,
                    evidence |-> Len(revocationEvidence) + 1,
                    completedAt |-> at, replay |-> FALSE]
     IN /\ revocationSequence' = revocation
        /\ grants' = [grants EXCEPT ![command.grant] =
             RevokedGrant(grant, revocation, at, StatedReason(command))]
        /\ revocationEvidence' = Append(revocationEvidence,
             [revocation |-> revocation, grant |-> command.grant,
              subject |-> grant.subject, requester |-> grant.requester,
              reason |-> StatedReason(command), key |-> command.key,
              completedAt |-> at])
        /\ Remember(command, result) /\ Answer(command, result)
  /\ UNCHANGED requests

RevokeGrant(command, at) ==
  \/ ReplayRevocation(command)
  \/ RefuseKey(command)
  \/ RefuseRevocation(command)
  \/ RepeatRevocation(command)
  \/ CompleteRevocation(command, at)

CPNext ==
  \/ \E s \in Subjects, r \in Requesters : CreateAccessRequest(s, r)
  \/ \E i \in Nat, s \in Optional(Subjects), d \in {"approve", "deny"} :
       DecideAccessRequest(i, s, d) \/ RefuseDecision(i, s)
  \/ \E c \in RevokeCommand, at \in Nat : RevokeGrant(c, at)

CPSpec == CPInit /\ [][CPNext]_cpVars

-----------------------------------------------------------------------------
CPTypeOK ==
  /\ requests \in Seq(AccessRequest)
  /\ grants \in Seq(Grant)
  /\ revocationEvidence \in Seq(Evidence)
  /\ revocationIdempotency \in [Keys -> Optional(Remembered)]
  /\ revocationSequence \in Nat
  /\ answered \subseteq [command: RevokeCommand, result: Result]

\* However often, under whatever keys and from however many callers a grant is
\* revoked, every answer about it tells the same story: one revocation, one
\* evidence record, one completion time (revokeGrant's promise that repeats
\* "never move revoked_at forward or fabricate a second evidence record").
RevocationsConverge ==
  /\ \A a, b \in answered : a.result.grant = b.result.grant =>
       /\ a.result.revocation = b.result.revocation
       /\ a.result.evidence = b.result.evidence
       /\ a.result.completedAt = b.result.completedAt
  /\ \A e, f \in DOMAIN revocationEvidence :
       revocationEvidence[e].grant = revocationEvidence[f].grant => e = f

\* A revocation answered is a revocation in force and on record: the grant is
\* revoked, and the evidence the answer quotes is about this grant and dates
\* it like the grant does (the atomic block of revokeGrant).
AnsweredIsRevoked ==
  \A a \in answered :
    LET g == a.result.grant
        e == a.result.evidence
    IN /\ g = a.command.grant
       /\ g \in DOMAIN grants /\ grants[g].status = "revoked"
       /\ e \in DOMAIN revocationEvidence /\ revocationEvidence[e].grant = g
       /\ revocationEvidence[e].revocation = grants[g].revocation
       /\ grants[g].revokedAt = a.result.completedAt
       /\ revocationEvidence[e].completedAt = a.result.completedAt

\* No two commands are answered under one idempotency key: whoever reuses the
\* key of an answered command for something else is refused.
KeyNamesOneCommand ==
  \A a, b \in answered :
    a.command.key = b.command.key /\ a.command.key # Absent =>
      Fingerprint(a.command) = Fingerprint(b.command)

\* A revoked grant never changes again, whatever is decided, revoked or
\* replayed afterwards: a second approval of its request makes another grant.
RevokedIsFinal ==
  [][\A g \in DOMAIN grants :
       /\ g \in DOMAIN grants'
       /\ grants[g].status = "revoked" => grants'[g] = grants[g]]_cpVars
=============================================================================
