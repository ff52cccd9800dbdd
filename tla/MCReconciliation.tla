-------------------------- MODULE MCReconciliation --------------------------
EXTENDS Reconciliation, TLC

\* Every expense costs one unit more than the smallest match: it can be paid in parts.
MCExpenseAmount == [e \in Expense |-> 2]

Symmetry ==
  Permutations(Bank) \cup Permutations(Expense) \cup Permutations(MatchId)
    \cup Permutations(Request)
=============================================================================
