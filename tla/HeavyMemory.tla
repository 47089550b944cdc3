---------------------------- MODULE HeavyMemory -----------------------------
(***************************************************************************)
(* The memory of the machine under the queue of heavy runs: runs join,     *)
(* the queue reads the host and lets go those that fit, runs grow to what  *)
(* they asked for and end. One pass of the queue (look in queue.go) reads  *)
(* the host in two steps, as HeavyHost.Measure does: the machine and the   *)
(* slice first, then each run's own account; a run may grow or end between *)
(* the two. What the rest of the machine and the sessions hold stays the   *)
(* same throughout: the queue does not answer for it.                      *)
(***************************************************************************)
EXTENDS HeavyAdmit, SequencesExt

CONSTANTS Runs,          \* the runs that ask, each again once it has ended
          Ask,           \* what each asks for
          TheLimits,     \* the limits of the machine description
          Sessions,      \* what the sessions hold in the agents' slice
          Other,         \* what the rest of the machine holds
          NoRead         \* no measure is under way

\* Each run asks for something. One that asks for nothing runs without a ceiling
\* (queue.go 206, executor/heavy.go 186), may grow without bound, and the limits
\* promise nothing beside it.
ASSUME MemoryAssumption == /\ Ask \in [Runs -> Word \ {0}]
                           /\ TheLimits \in Limits
                           /\ {Sessions, Other} \subseteq Word
                           /\ NoRead \notin Measures

\* The sizes of a machine are far from the end of the word: what it has past
\* its reserve is no more than half of what a signed size holds (2^62 bytes in
\* the code). A budget refuses an ask of half a word or more at the door; without
\* one nobody asks for so much: read as signed it would be negative, and go.
ASSUME SizesAssumption ==
    /\ {TheLimits.total, TheLimits.reserve, TheLimits.budget} \subseteq Real
    /\ 2 * (TheLimits.total - TheLimits.reserve) <= Half
    /\ TheLimits.budget = 0 => Ask \in [Runs -> Real]

VARIABLES waiting,   \* the runs waiting, in order
          going,     \* the runs going
          taken,     \* what each run holds
          unseen,    \* what each has grown by since the machine was read
          read,      \* the half of a measure already read, or NoRead
          slip       \* history: the growth the last admitting pass did not see

vars == <<waiting, going, taken, unseen, read, slip>>

-----------------------------------------------------------------------------

\* What the runs going have of f between them.
Together(f) == SumOf([i \in DOMAIN going |-> f[going[i]]])

Accounts == [i \in DOMAIN going |->
                [ask |-> Ask[going[i]], taken |-> taken[going[i]]]]

AsksWaiting == [i \in DOMAIN waiting |-> Ask[waiting[i]]]

TypeOK == /\ waiting \in Seq(Runs)
          /\ going \in Seq(Runs)
          /\ taken \in [Runs -> Word]
          /\ unseen \in [Runs -> Word]
          /\ read = NoRead \/ read \in Measures
          /\ slip \in Nat

Init == /\ waiting = <<>>
        /\ going = <<>>
        /\ taken = [r \in Runs |-> 0]
        /\ unseen = [r \in Runs |-> 0]
        /\ read = NoRead
        /\ slip = 0

\* A run asks; one that would wait for ever is refused and does not join.
Join(r) == /\ r \notin ToSet(waiting) \union ToSet(going)
           /\ ~ Never(TheLimits, Ask[r])
           /\ waiting' = Append(waiting, r)
           /\ UNCHANGED <<going, taken, unseen, read, slip>>

\* A client goes away before its turn.
Leave(r) == /\ \E i \in DOMAIN waiting : waiting[i] = r /\ waiting' = RemoveAt(waiting, i)
            /\ UNCHANGED <<going, taken, unseen, read, slip>>

\* The first half of Measure: the machine, its pressure and the slice, which the
\* code reads one after another and this in one step: growth between them counts
\* as growth after both. What grew unseen may have passed the machine, which then
\* has nothing available.
ReadMachine(pressed) ==
    /\ read = NoRead
    /\ read' = [available |-> Max({0, TheLimits.total - Other - Sessions - Together(taken)}),
                slice     |-> Sessions + Together(taken),
                pressed   |-> pressed]
    /\ unseen' = [r \in Runs |-> 0]
    /\ UNCHANGED <<waiting, going, taken, slip>>

\* Mutant: any run that fits goes, whoever stands before it.
AdmitAnyThatFits ==
    /\ read # NoRead
    /\ \E i \in DOMAIN waiting :
          /\ ~ Blocked(TheLimits, read, Accounts, Ask[waiting[i]])
          /\ going' = Append(going, waiting[i])
          /\ waiting' = RemoveAt(waiting, i)
    /\ read' = NoRead
    /\ unseen' = [r \in Runs |-> 0]
    /\ UNCHANGED <<taken, slip>>

\* The second half, and the rest of look: the runs are read, and the head of
\* the queue goes as far as it fits.
ReadRunsAndAdmit ==
    /\ read # NoRead
    /\ LET n == Admit(TheLimits, read, Accounts, AsksWaiting)
       IN  /\ going' = going \o SubSeq(waiting, 1, n)
           /\ waiting' = SubSeq(waiting, n + 1, Len(waiting))
           /\ slip' = IF n = 0 THEN slip ELSE Together(unseen)
    /\ read' = NoRead
    /\ unseen' = [r \in Runs |-> 0]
    /\ UNCHANGED taken

\* Mutant: a scope without a ceiling.
GrowUnbounded(r) == /\ r \in ToSet(going)
                    /\ taken' = [taken EXCEPT ![r] = @ + 1]
                    /\ UNCHANGED <<waiting, going, unseen, read, slip>>

\* A run takes more memory, within the ceiling of its scope.
Grow(r) == /\ r \in ToSet(going)
           /\ taken[r] < Ask[r]
           /\ taken' = [taken EXCEPT ![r] = @ + 1]
           /\ unseen' = IF read = NoRead THEN unseen ELSE [unseen EXCEPT ![r] = @ + 1]
           /\ UNCHANGED <<waiting, going, read, slip>>

\* A run ends, and its scope with it.
End(r) == /\ \E i \in DOMAIN going : going[i] = r /\ going' = RemoveAt(going, i)
          /\ taken' = [taken EXCEPT ![r] = 0]
          /\ unseen' = [unseen EXCEPT ![r] = 0]
          /\ UNCHANGED <<waiting, read, slip>>

Next == \/ \E r \in Runs : Join(r) \/ Leave(r) \/ Grow(r) \/ End(r)
        \/ \E pressed \in BOOLEAN : ReadMachine(pressed)
        \/ ReadRunsAndAdmit

Spec == Init /\ [][Next]_vars

\* The queue looks every two seconds; every run ends; and the pressure of the
\* machine is not for ever above its lines.
Fairness == /\ SF_vars(ReadMachine(FALSE))
            /\ WF_vars(ReadRunsAndAdmit)
            /\ \A r \in Runs : WF_vars(End(r))

FairSpec == Spec /\ Fairness

-----------------------------------------------------------------------------

\* The memory the machine keeps free (AACP_HEAVY_RESERVE) stays free even when
\* every run going grows to its ceiling: a run let go a moment ago, which holds
\* nothing yet, is weighed by what it is still to take. The one exception is
\* what the runs grew by between the two halves of the read.
ReserveKept ==
    going # <<>> =>
        TheLimits.reserve + Other + Sessions + Together(Ask) <= TheLimits.total + slip

\* The runs grown to their ceilings, with the sessions beside them, fit the
\* MemoryHigh of the agents' slice, with the same exception.
BudgetKept ==
    going # <<>> /\ TheLimits.budget > 0 =>
        Sessions + Together(Ask) <= TheLimits.budget + slip

\* Nobody waits or goes, and no measure is under way.
QueueIsIdle == waiting = <<>> /\ going = <<>> /\ read = NoRead

\* "Never says why a run asking for ask would wait for ever, or empty when it
\* can be admitted once the runs before it end" (admit.go): once they have, the
\* refusal at the door agrees with the rule of the queue whatever the limits.
\* Nobody is let in to wait for ever, and nobody who would go is turned away.
DoorIsRight ==
    QueueIsIdle =>
        \A l \in [slots : {1}, reserve : Real, budget : Real, total : Real \ {0}] :
            \A ask \in Real : Never(l, ask) <=> Admit(l, Idle(l), Accounts, <<ask>>) = 0

\* A run whose ask fits the machine beside its sessions.
Fits(r) == /\ TheLimits.reserve + Other + Sessions + Ask[r] <= TheLimits.total
           /\ TheLimits.budget > 0 => Sessions + Ask[r] <= TheLimits.budget

\* A big run is not kept waiting for ever by a stream of small ones: the
\* comment on Admit gives this as the reason the queue is strictly in order.
NoRunIsStarved ==
    \A r \in Runs : Fits(r) => (r \in ToSet(waiting) ~> r \notin ToSet(waiting))

-----------------------------------------------------------------------------
(* What makes TypeOK, ReserveKept and BudgetKept inductive. *)

\* A run waits or goes in one place, and has passed the door.
Apart == /\ IsInjective(waiting) /\ IsInjective(going)
         /\ ToSet(waiting) \cap ToSet(going) = {}
         /\ \A r \in ToSet(waiting) \union ToSet(going) : ~ Never(TheLimits, Ask[r])

\* Only a run that goes holds anything, and no more than it asked for.
Held == /\ \A r \in Runs : unseen[r] <= taken[r] /\ taken[r] <= Ask[r]
        /\ \A r \in Runs : taken[r] # 0 => r \in ToSet(going)

\* What the runs going are still to take, with what they took unseen, is what
\* the machine has past its reserve at most, and so is what a pass overlooks.
Bounded == going # <<>> =>
               /\ Together(Ask) + Together(unseen) <= TheLimits.total - TheLimits.reserve + Together(taken)
               /\ slip <= TheLimits.total - TheLimits.reserve

\* The half of the measure that was read is of what the runs held then, and
\* what they hold now past that, they took unseen.
ReadThen ==
    read # NoRead =>
        \E held \in Nat :
            /\ read.slice = Sessions + held
            /\ read.available = Max({0, TheLimits.total - Other - Sessions - held})
            /\ Together(taken) <= held + Together(unseen)

MemoryInv == TypeOK /\ Apart /\ Held /\ Bounded /\ ReadThen /\ ReserveKept /\ BudgetKept
=============================================================================
