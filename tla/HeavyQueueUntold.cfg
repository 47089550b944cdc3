CONSTANTS
    a = a
    b = b
    c = c
    Runs = {a, b}
    Nested = {}
    Parent <- NoneNested
    Slots = 1
    MaxFaults = 1
SPECIFICATION FairSpec
PROPERTIES QueueNeverStopsARun
