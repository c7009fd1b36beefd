--------------------------- MODULE MCMaterialIntake ---------------------------
(***************************************************************************)
(* One piece of evidence submitted under two identifiers, one identifier    *)
(* for two pieces, and declarations with and without links to evidence.     *)
(***************************************************************************)
EXTENDS MaterialIntake, TLC

CONSTANTS w1, w2, w3, t1, t2, p1, re, rd, m1, m2, m3, x1, x2, i1, i2

MCProfileRequirements == p1 :> {re, rd}
MCAnswers == p1 :> {<<rd, "right">>}
MCTenantOf == w1 :> t1 @@ w2 :> t1 @@ w3 :> t2

Submit(id, materialId, ref, r, claimType, links) ==
  [id |-> id, caseId |-> "case", materialId |-> materialId, ref |-> ref,
   requirementIds |-> {r}, claimType |-> claimType, links |-> links]

MCEvidence ==
  {Submit(i1, m1, x1, re, "right", {}), Submit(i2, m2, x1, re, "right", {}),
   Submit(i1, m2, x2, re, "right", {})}

MCDeclarations ==
  {Submit(i1, m3, x2, rd, "right", {x1}), Submit(i2, m2, x1, rd, "right", {}),
   Submit(i2, m3, x2, re, "right", {})}

Symmetric == Permutations({w1, w2})
=============================================================================
