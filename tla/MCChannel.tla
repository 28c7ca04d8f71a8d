----------------------------- MODULE MCChannel ------------------------------
(***************************************************************************)
(* The budgets of the channel runs: how far the two nodes go and how many  *)
(* mishaps a behaviour may have.                                           *)
(***************************************************************************)
EXTENDS RemoteChannel

Budget(number, amounts, proposals, rollbacks, faults, handledLate, crashes) ==
  [number |-> number, amounts |-> amounts, proposals |-> proposals,
   rollbacks |-> rollbacks, faults |-> faults, late |-> handledLate, crashes |-> crashes]

\* Two faults on three updates; conflicting proposals with a rollback and a
\* fault; the same with a request handled late.  The first two with a crash.
SafetyBudgets ==
  {Budget(3, {1}, 4, 0, 2, 0, 1),
   Budget(2, {1, 2}, 3, 1, 1, 0, 1),
   Budget(2, {1, 2}, 3, 1, 0, 1, 0)}

RollbackRaceBudgets == {Budget(1, {1}, 1, 1, 1, 0, 0)}

LateUpdBudgets == {Budget(1, {1, 2}, 2, 1, 0, 1, 0)}
=============================================================================
