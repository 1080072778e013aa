---------------------------- MODULE MCExecution ----------------------------
(***************************************************************************)
(* Small instances of Execution: targets A and B, U (its provider is not   *)
(* configured) and X (switched off), tried by profiles P and Q.            *)
(***************************************************************************)
EXTENDS Execution, TLC

CONSTANTS r1, r2, r3, profP, profQ, tgtA, tgtB, tgtU, tgtX

OwnKey == [t \in Target |-> t]
Zero == [t \in Target |-> 0]
One == [t \in Target |-> 1]
OneToken == [r \in Caller |-> 1]
SamePriority == [t \in Target |-> 10]

Configured(on, list, rotates, slotCount, timeout) ==
  [on |-> on, targets |-> list, rotates |-> rotates, slots |-> slotCount, timeout |-> timeout]

\* Budgets: A may be called once a minute, B once a day; each has one lease.
\* X and U are passed over.  The settings may be replaced by others with the
\* targets in order, more slots and less time, or that switch the profile off.
BudgetProfiles == [r \in Caller |-> profP]
BudgetSettings ==
  {profP :> Configured(TRUE, <<tgtX, tgtU, tgtA, tgtB>>, TRUE, 1, 2),
   profP :> Configured(TRUE, <<tgtA, tgtB>>, FALSE, 2, 1),
   profP :> Configured(FALSE, <<tgtA>>, FALSE, 1, 2)}
BudgetRpm == [t \in Target |-> IF t = tgtA THEN 1 ELSE 0]
BudgetRpd == [t \in Target |-> IF t = tgtB THEN 1 ELSE 0]

\* One lease: two profiles with one target each, for one and the same lease.
OneLeaseKey == [t \in Target |-> "k"]
OneLeaseProfiles == [r \in Caller |-> IF r = r3 THEN profQ ELSE profP]
OneLeaseSettings ==
  {(profP :> Configured(TRUE, <<tgtA>>, FALSE, 4, 1)) @@ (profQ :> Configured(TRUE, <<tgtX, tgtB>>, FALSE, 4, 1))}
=============================================================================
