----------------------------- MODULE HeavyAdmit -----------------------------
(***************************************************************************)
(* How the queue of heavy runs weighs a run: the rules of                  *)
(* internal/heavy/admit.go as operators. Sizes are machine words of twice  *)
(* Half (2^63 in the code) values: a sum wraps, and a size read as signed  *)
(* is negative from Half up, as Go's int64(x) of a uint64 is.              *)
(***************************************************************************)
EXTENDS Integers, Sequences, FiniteSets

CONSTANT Half      \* the first size that is negative as a signed one

ASSUME HalfAssumption == Half \in Nat \ {0}

Word == 0 .. 2 * Half - 1
Unsigned(n) == n % (2 * Half)
Signed(n) == LET u == Unsigned(n) IN IF u < Half THEN u ELSE u - 2 * Half

\* No machine has half a word of memory or more.
Real == 0 .. Half - 1

\* A count of nought and a size of nought in the limits are none.
Limits == [slots : Nat, reserve : Word, budget : Word, total : Word]

\* One read of the host; pressed stands for the two pressure lines.
Measures == [available : Word, slice : Word, pressed : BOOLEAN]

\* A run going: its ceiling and what it holds now.
Running == [ask : Word, taken : Word]

\* Mutant: a run going is weighed by what it holds now alone.
ToComeForgotten(r) == 0

ToCome(r) == IF r.taken >= r.ask THEN 0 ELSE r.ask - r.taken

\* The sum of a sequence of numbers.
SumOf(s) == LET upTo[i \in 0 .. Len(s)] == IF i = 0 THEN 0 ELSE upTo[i - 1] + s[i]
          IN  upTo[Len(s)]

TotalToCome(runs) == Unsigned(SumOf([i \in DOMAIN runs |-> ToCome(runs[i])]))

NoSlot(l, runs) == l.slots > 0 /\ Len(runs) >= l.slots

NoMemory(l, m, runs, ask) ==
    Signed(Signed(Signed(m.available) - Signed(TotalToCome(runs))) - Signed(ask))
        < Signed(l.reserve)

\* Mutant: the budget is weighed without what the runs going are to take.
NoBudgetNow(l, m, runs, ask) == l.budget > 0 /\ Unsigned(m.slice + ask) > l.budget

NoBudget(l, m, runs, ask) ==
    l.budget > 0 /\ Unsigned(m.slice + TotalToCome(runs) + ask) > l.budget

Blocked(l, m, runs, ask) ==
    \/ NoSlot(l, runs)
    \/ NoMemory(l, m, runs, ask)
    \/ NoBudget(l, m, runs, ask)
    \/ m.pressed

\* A run let go is counted at once as one that holds nothing yet.
Fresh(asks) == [i \in 1 .. Len(asks) |-> [ask |-> asks[i], taken |-> 0]]

\* How many runs from the head of the queue go: up to the first that is
\* blocked beside those going and those let go before it.
Admit(l, m, runs, asks) ==
    LET fits(i) == ~ Blocked(l, m, runs \o Fresh(SubSeq(asks, 1, i - 1)), asks[i])
    IN  CHOOSE n \in 0 .. Len(asks) :
            /\ \A i \in 1 .. n : fits(i)
            /\ n < Len(asks) => ~ fits(n + 1)

\* Mutant: an ask of exactly what the machine has is refused.
NeverAtTheBrim(l, ask) ==
    \/ l.budget > 0 /\ ask > l.budget
    \/ l.total > 0 /\ Signed(ask) >= Signed(Signed(l.total) - Signed(l.reserve))

\* The run would wait for ever: refused before it joins.
Never(l, ask) ==
    \/ l.budget > 0 /\ ask > l.budget
    \/ l.total > 0 /\ Signed(ask) > Signed(Signed(l.total) - Signed(l.reserve))

\* The machine when every other run has ended and the sessions hold nothing.
Idle(l) == [available |-> l.total, slice |-> 0, pressed |-> FALSE]
=============================================================================
