----------------------- MODULE MCProtocolizationCase ------------------------
(***************************************************************************)
(* Small instances of ProtocolizationCase for TLC.                         *)
(***************************************************************************)
EXTENDS ProtocolizationCase, TLC

CONSTANTS w1, w2, t1, p1, p2, r1, r2, m1, m2

\* Two profile versions of one profile: the second drops a requirement.
MCProfileRequirements == p1 :> {r1, r2} @@ p2 :> {r1}

MCOneTenant == [w \in Writers |-> t1]

Symmetric == Permutations(Writers) \cup Permutations(MaterialIds)
=============================================================================
