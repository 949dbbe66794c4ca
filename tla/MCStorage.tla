------------------------------ MODULE MCStorage ------------------------------
(* The two sides of storage protection, a behaviour being about one of them: what the policies   *)
(* decide is the quota that the accounting takes as given.                                       *)
EXTENDS StorageAccounting, StoragePolicies

VARIABLE side   \* ACCOUNTING or POLICIES

vars == <<side, accountingVars, policyVars>>

Init ==
  /\ side \in {"ACCOUNTING", "POLICIES"}
  /\ AccountingInit /\ PoliciesInit
  /\ side = "POLICIES" => quota = Max(Quotas)

Account == side = "ACCOUNTING" /\ AccountingNext /\ UNCHANGED <<side, policyVars>>
Decide == side = "POLICIES" /\ PoliciesNext /\ UNCHANGED <<side, accountingVars>>

Next == Account \/ Decide

\* Fairness is about the policies: it only matters to behaviours of that side.
Spec == Init /\ [][Next]_vars /\ Progress

\* What the Worker keeps of reservations, scans and policies is what its code can hold; a release
\* only waits for a scan that is under way.
TypeOK == AccountingTypeOK /\ PoliciesTypeOK

=============================================================================
