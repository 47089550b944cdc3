----------------------------- MODULE TurnQueue ------------------------------
(***************************************************************************)
(* What the queue of heavy runs promises about order (ARCHITECTURE.md,     *)
(* "The queue is strictly in order: only the head is admitted"): turns     *)
(* enter a line at its end, none that already stands in it; they are       *)
(* called from its head alone; a turn quits the line uncalled only once    *)
(* nobody is there to wait for it; and who is told was called. The whole   *)
(* line may be lost at once, with whoever kept it.                         *)
(***************************************************************************)
EXTENDS Integers, Sequences

CONSTANT Turns

VARIABLES
    line,      \* the turns that wait, in order
    here,      \* the turns somebody is there to wait for
    called     \* the turns called and not told yet

Standing == {line[i] : i \in DOMAIN line}

Init == line = <<>> /\ here = {} /\ called = {}

Enter(t) == /\ t \notin Standing
            /\ line' = Append(line, t)
            /\ here' = here \union {t}
            /\ UNCHANGED called

\* The first n of the line, and no others.
LetGo(n) == /\ called' = called \union {line[i] : i \in 1 .. n}
            /\ line' = SubSeq(line, n + 1, Len(line))
            /\ UNCHANGED here

\* A turn called is told; it may have more than one thing to be told.
Tell(t) == /\ called' \in {called, called \ {t}}
           /\ here' = here \ {t}
           /\ UNCHANGED line

\* Who waited for the turn goes away.
Part(t) == /\ here' = here \ {t}
           /\ UNCHANGED <<line, called>>

Quit(i) == /\ line[i] \notin here
           /\ line' = SubSeq(line, 1, i - 1) \o SubSeq(line, i + 1, Len(line))
           /\ UNCHANGED <<here, called>>

Lost == line' = <<>> /\ here' = {} /\ called' = {}

Next == \/ \E t \in Turns : Enter(t) \/ Part(t)
        \/ \E t \in called : Tell(t)
        \/ \E n \in 1 .. Len(line) : LetGo(n) \/ Quit(n)
        \/ Lost

Spec == Init /\ [][Next]_<<line, here, called>>
=============================================================================
