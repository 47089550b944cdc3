--------------------------- MODULE MCHeavyMemory ----------------------------
\* Three runs of three sizes. The slots are out of the way, and the budget is a
\* unit tighter than the memory of the machine: the first and the second fit
\* both, the first and the third the machine alone, the others neither.
EXTENDS HeavyMemory

MCAsk == [r \in Runs |-> r + 1]
MCLimits == [slots |-> 0, reserve |-> 1, budget |-> 6, total |-> 9]
=============================================================================
