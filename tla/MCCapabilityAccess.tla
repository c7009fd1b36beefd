-------------------------- MODULE MCCapabilityAccess --------------------------
(* One subject consents to two contents of one pack, free or at a price, for   *)
(* a while or for good; tokens are minted for one content or for the pack.     *)
EXTENDS CapabilityAccess

CONSTANTS alice, packOne, nameField, mailField, nameContent, mailContent,
          namePath, mailPath

MCPacks ==
  [p \in {packOne} |->
     [f \in {nameField, mailField} |->
        IF f = nameField THEN nameContent ELSE mailContent]]

MCRank == [p \in {namePath, mailPath} |-> IF p = mailPath THEN 1 ELSE 2]

MCMappings == {{<<namePath, nameField>>, <<mailPath, mailField>>}}

Present(resource, paid, consume, hooksAllow) ==
  [action |-> "read", resource |-> resource, paid |-> paid, consume |-> consume,
   hooksAllow |-> hooksAllow]

MCPresentations ==
  {Present(mailContent, TRUE, TRUE, TRUE), Present(mailContent, FALSE, TRUE, TRUE),
   Present(packOne, TRUE, TRUE, TRUE), Present(mailContent, FALSE, FALSE, TRUE),
   Present(mailContent, TRUE, TRUE, FALSE)}

Terms(scope, life, priced) ==
  [subject |-> alice, scope |-> scope, permissions |-> {"read"}, life |-> life,
   priced |-> priced]

MCConsentTerms ==
  {Terms({packOne, mailContent}, 1, FALSE), Terms({mailContent}, Absent, TRUE)}

Mint(scope, wait, life) ==
  [scope |-> scope, permissions |-> {"read"}, wait |-> wait, life |-> life]

MCMintTerms ==
  {Mint({packOne}, Absent, 1), Mint({mailContent}, 1, 2), Mint({mailContent}, Absent, 1)}
=============================================================================
