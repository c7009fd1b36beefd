--------------------------- MODULE MCHostedRuntime ---------------------------
(* One instance of the hosted runtime.  Clients of a "pro" key either work on *)
(* one access request and its grants or on payouts; those of a "free" key     *)
(* only verify identities and report payouts, more often than it allows.  The *)
(* trust service knows two issuers, and none of what it refuses is taken.     *)
EXTENDS HostedRuntime

CONSTANTS proKey, freeKey, alice, dataCo, payCo, left, keyOne,
          credOne, credTwo, consOne, wdOne, pyOne, notary, bank, stranger, basic, full

MCTier == [k \in {proKey, freeKey} |-> IF k = proKey THEN "pro" ELSE "free"]
MCLimit == [t \in {"pro", "free"} |-> IF t = "pro" THEN 5 ELSE 1]

Revoke(grant, subject, reason, key) ==
  [endpoint |-> "/access/grant/revoke",
   revoke |-> [grant |-> grant, subject |-> subject, requester |-> Absent,
               reason |-> reason, key |-> key]]

Decide(id, decision) ==
  [endpoint |-> "/access/request/decision", request |-> id, subject |-> alice,
   decision |-> decision]

MCKycLevels == [i \in {notary, bank} |-> {basic}]

GrantCommands ==
  {[endpoint |-> "/access/request", subject |-> alice, requester |-> dataCo],
   Decide(1, "approve"), Decide(1, "deny"),
   Revoke(1, alice, left, keyOne), Revoke(1, Absent, Absent, Absent),
   Revoke(2, alice, left, keyOne)}

Register(ref, issuer, level, issuedAt, expiresAt) ==
  [endpoint |-> "/trust/credential/register",
   credential |-> [ref |-> ref, subject |-> alice, issuer |-> issuer, level |-> level,
                   issuedAt |-> issuedAt, expiresAt |-> expiresAt]]

GrantConsent(issuer) ==
  [endpoint |-> "/trust/consent/grant", consent |-> consOne, subject |-> alice,
   consumer |-> payCo, issuer |-> issuer]

Call(endpoint, issuer, at) ==
  [endpoint |-> endpoint, subject |-> alice, consumer |-> payCo, issuer |-> issuer,
   now |-> at, withdrawal |-> wdOne]

PayoutCommands ==
  {Register(credOne, notary, basic, 0, 1), Register(credTwo, bank, basic, 1, Absent),
   GrantConsent(notary), Call("/payout/execute", notary, Absent),
   Call("/data/access", Absent, 0)}

RefusedCommands ==
  {Register(credOne, notary, full, 0, Absent), Register(credOne, stranger, basic, 0, Absent),
   GrantConsent(stranger), Call("/payout/execute", Absent, Absent)}

VerifyCommands ==
  {Call("/trust/verify", Absent, Absent),
   [endpoint |-> "/payout/callback", payout |-> pyOne]}

From(apiKey, commands) ==
  {[apiKey |-> apiKey, command |-> c, body |-> "whole"] : c \in commands}

BrokenOff(call) == [call EXCEPT !.body = "broken"]

MCWorkloads ==
  {[calls |-> From(proKey, GrantCommands), requests |-> 5, reading |-> 1, until |-> 1],
   [calls |-> From(proKey, PayoutCommands), requests |-> 4, reading |-> 1, until |-> 1],
   [calls |-> From(proKey, RefusedCommands), requests |-> 3, reading |-> 2, until |-> 0],
   [calls |-> LET verify == From(freeKey, VerifyCommands)
              IN verify \cup {BrokenOff(call) : call \in verify},
    requests |-> 4, reading |-> 2, until |-> 3]}
=============================================================================
