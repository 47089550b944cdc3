CONSTANTS
    a = a
    b = b
    c = c
    Runs = {a, b, c}
    Nested = {c}
    Parent <- CInsideA
    Slots = 2
    MaxFaults = 1
SPECIFICATION FairSpec
INVARIANTS SlotsKept UnitIsFree AdmittedIsHeld
PROPERTIES InOrder OnlyItsOwnSlotStopsARun
