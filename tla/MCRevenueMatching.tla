------------------------- MODULE MCRevenueMatching -------------------------
EXTENDS RevenueMatching, TLC

\* A bank row pays two records of one unit each.
MCBankAmount == [b \in Bank |-> 2]
MCNetAmount == [x \in Record |-> 1]

\* Two matches over two records, or three matches that use up their rows and one record.
Small == Rows = MatchId =>
           Cardinality(Records) <= 1 /\ \A m \in Rows : match[m].amount = 2

Symmetry ==
  Permutations(Bank) \cup Permutations(Channel) \cup Permutations(Record)
    \cup Permutations(MatchId) \cup Permutations(Request)
=============================================================================
