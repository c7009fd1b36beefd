-------------------------- MODULE MCProtocolization ---------------------------
(***************************************************************************)
(* Small instances of Protocolization for TLC: one declaration, at most one *)
(* verification requirement and at most one attestation requirement.       *)
(***************************************************************************)
EXTENDS Protocolization, TLC

CONSTANTS s1, q1, q2, m1, m2, m3, x1, w1, w2, e1, e2, p1, p2, rd, rv, ra

MCProfileRequirements == [p \in Profiles |-> Requirements]
MCRequirementKind ==
  [r \in Requirements |-> CASE r = rd -> "Declaration"
                            [] r = ra -> "Attestation"
                            [] OTHER -> "Verification"]
MCObligation   == [r \in Requirements |-> "Required"]
MCMinimumCount == [r \in Requirements |-> 1]
MCChecksOf     == [r \in Requirements |->
                     IF MCRequirementKind[r] = "Verification" THEN CheckIds ELSE {}]

Symmetric ==
  Permutations(RequestIds) \cup Permutations(MaterialIds)
    \cup Permutations(Runners) \cup Permutations(Executors)
    \cup Permutations(ResultIds)
=============================================================================
