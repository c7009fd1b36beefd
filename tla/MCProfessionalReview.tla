------------------------ MODULE MCProfessionalReview -------------------------
(***************************************************************************)
(* Small instances of ProfessionalReview for TLC.                          *)
(***************************************************************************)
EXTENDS ProfessionalReview, TLC

CONSTANTS s1, s2, q1, q2, q3, m1, m2, m3, x1, x2, rd, ra1, ra2

\* One declaration requirement and one or two attestation requirements.
MCProfileRequirements == [p \in Profiles |-> Requirements]
MCRequirementKind ==
  [r \in Requirements |-> IF r = rd THEN "Declaration" ELSE "Attestation"]
MCObligation     == [r \in Requirements |-> "Required"]
MCMinimumCount   == [r \in Requirements |-> 1]
MCMinimumCountTwo == [r \in Requirements |-> IF r = rd THEN 1 ELSE 2]
MCChecksOf       == [r \in Requirements |-> {}]

Symmetric ==
  Permutations(Sessions) \cup Permutations(RequestIds)
    \cup Permutations(MaterialIds) \cup Permutations(Refs)
    \cup Permutations(Requirements \ {rd})
=============================================================================
