------------------------- MODULE MCObserverKeeper -------------------------
(* Observers a and b, which wake their session for each line but the second. *)
EXTENDS ObserverKeeper, TLC

CONSTANTS a, b, LinesOfA, LinesOfB

MCLines == [o \in Obs |-> IF o = a THEN LinesOfA ELSE LinesOfB]
MCWorth == [o \in Obs |-> {i \in 1 .. MCLines[o] : i # 2}]
SameName == [o \in Obs |-> "watcher"]

\* Each file has a number of its own, or the third that of the first.
OwnInodes == [o \in Obs |-> [f \in 1 .. MCLines[o] |-> f]]
ReusedInodes == [o \in Obs |-> [f \in 1 .. MCLines[o] |-> IF f = 3 THEN 1 ELSE f]]
=============================================================================
