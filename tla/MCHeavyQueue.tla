---------------------------- MODULE MCHeavyQueue ----------------------------
\* Values for the constants of HeavyQueue.
EXTENDS HeavyQueue

CONSTANTS a, b, c

NoneNested == [r \in {} |-> r]
CInsideA == [r \in {c} |-> a]
=============================================================================
