----------------------------- MODULE CaseLedger -----------------------------
(***************************************************************************)
(* What the case store promises, without writers, snapshots or revisions   *)
(* to check: for each key one ledger that is opened once under one         *)
(* profile, only grows, moves along the lifecycle, counts one revision per *)
(* recorded operation, and is never touched again once cancelled.          *)
(***************************************************************************)
EXTENDS Naturals

CONSTANTS Keys, Profiles, MaterialIds, Requirements, Closed

VARIABLE ledger   \* key -> Closed, or the ledger of the case

Draft     == "Draft"
Active    == "Active"
Cancelled == "Cancelled"

Entry ==
  [profile: Profiles, state: {Draft, Active, Cancelled}, revision: Nat \ {0},
   associations: SUBSET (MaterialIds \X Requirements)]

Init == ledger = [k \in Keys |-> Closed]

\* One revision per operation, whatever the operation is.
Advance(k, state, associations) ==
  ledger' = [ledger EXCEPT ![k] =
               [profile      |-> ledger[k].profile,
                state        |-> state,
                revision     |-> ledger[k].revision + 1,
                associations |-> ledger[k].associations \cup associations]]

Open(k, p) ==
  /\ ledger[k] = Closed
  /\ ledger' = [ledger EXCEPT ![k] =
                  [profile |-> p, state |-> Draft, revision |-> 1,
                   associations |-> {}]]

Activate(k) ==
  /\ ledger[k] # Closed
  /\ ledger[k].state = Draft
  /\ Advance(k, Active, {})

\* One material gains requirements it did not have; an operation that
\* associates nothing new does not exist.
Associate(k, id, rs) ==
  /\ ledger[k] # Closed
  /\ ledger[k].state # Cancelled
  /\ rs # {}
  /\ \A r \in rs : <<id, r>> \notin ledger[k].associations
  /\ Advance(k, ledger[k].state, {id} \X rs)

Cancel(k) ==
  /\ ledger[k] # Closed
  /\ ledger[k].state # Cancelled
  /\ Advance(k, Cancelled, {})

Next ==
  \E k \in Keys :
    \/ \E p \in Profiles : Open(k, p)
    \/ Activate(k)
    \/ \E id \in MaterialIds, rs \in SUBSET Requirements : Associate(k, id, rs)
    \/ Cancel(k)

Spec == Init /\ [][Next]_ledger

=============================================================================
