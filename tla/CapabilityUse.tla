---------------------------- MODULE CapabilityUse ----------------------------
(***************************************************************************)
(* What a capability token is worth: it is used at most once, while it is   *)
(* valid and not revoked, and what it gives access to is decided in that    *)
(* one use, within its scope.                                              *)
(***************************************************************************)
EXTENDS Naturals, Sequences

CONSTANTS Items, Lives  \* what tokens give access to, for how long

VARIABLES
  now,      \* the clock
  issued,   \* tokens by number: [scope, expiresAt]
  revoked,  \* numbers of revoked tokens
  uses      \* by number of a used token: what it gave access to

usesVars == <<now, issued, revoked, uses>>

Init == now = 0 /\ issued = <<>> /\ revoked = {} /\ uses = <<>>

Pass == now' = now + 1 /\ UNCHANGED <<issued, revoked, uses>>

Issue(scope, life) ==
  /\ issued' = Append(issued, [scope |-> scope, expiresAt |-> now + life])
  /\ UNCHANGED <<now, revoked, uses>>

Revoke(n) ==
  /\ n \in DOMAIN issued
  /\ revoked' = revoked \cup {n}
  /\ UNCHANGED <<now, issued, uses>>

Usable(n) ==
  /\ n \in DOMAIN issued \ (revoked \cup DOMAIN uses)
  /\ now <= issued[n].expiresAt

Use(n, items) ==
  /\ Usable(n)
  /\ items \subseteq issued[n].scope
  /\ uses' = [m \in DOMAIN uses \cup {n} |-> IF m = n THEN items ELSE uses[m]]
  /\ UNCHANGED <<now, issued, revoked>>

Next ==
  \/ Pass
  \/ \E scope \in SUBSET Items, life \in Lives : Issue(scope, life)
  \/ \E n \in DOMAIN issued : Revoke(n)
  \/ \E n \in DOMAIN issued : \E items \in SUBSET issued[n].scope : Use(n, items)

Spec == Init /\ [][Next]_usesVars
=============================================================================
