--------------------------- MODULE MCHolderInput ----------------------------
\* Values for the constants of HolderInput.
EXTENDS HolderInput

CONSTANTS m1, m2, m3, l, c1, c2

OwnText == [m \in Msgs |-> m]
SameText == [m \in Msgs |-> IF m = m2 THEN m1 ELSE m]
=============================================================================
