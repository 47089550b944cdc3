------------------------- MODULE RestartCycleProofs --------------------------
(***************************************************************************)
(* What the restart cycle keeps for every bound on persons and on faults:  *)
(* a session is restarted for its readiness only once the turn that said   *)
(* so is over, and a step that failed waits out its grace.                 *)
(***************************************************************************)
EXTENDS RestartCycle, TLAPS

LEMMA RowsAreRows ==
    /\ NoCycle \in Rows /\ NewCycle \in Rows
    /\ NewCycle.there /\ ~NewCycle.ready /\ ~NewCycle.done /\ NewCycle.attempted = "no"
    /\ ~NoCycle.there /\ ~NoCycle.ready /\ ~NoCycle.done /\ NoCycle.attempted = "no"
BY DEF NoCycle, NewCycle, Rows, Sinces

LEMMA UnreadIsALook ==
    /\ Unread \in Looks({"none", "begun", "read"}) /\ NoSnap \in Looks({"fresh", "stale"})
    /\ ~Unread.seen /\ ~NoSnap.seen
BY DEF Unread, NoSnap, Looks

\* What is kept of a row is the row, with what was said meanwhile.
LEMMA KeptIsARow ==
    ASSUME cycle \in Rows, NEW row \in Rows
    PROVE  /\ Kept(row) \in Rows
           /\ Kept(row).there = row.there /\ Kept(row).done = row.done
           /\ Kept(row).attempted = row.attempted
           /\ Kept(row).ready = (cycle.ready \/ row.ready)
BY DEF Kept, Rows, Sinces

LEMMA RowIsARow ==
    ASSUME cycle \in Rows
    PROVE  Row \in Rows /\ Row.there
           /\ (cycle.there => Row = cycle) /\ (~cycle.there => Row = NewCycle)
BY RowsAreRows DEF Row, Rows

\* Where the loop can be.
Loops == [at : {"rest", "attempt", "deliver", "outcome"},
          step : {"none", "command", "remind", "restart", "force"}, row : Rows]

\* The row a step that went leaves.
LEMMA OutcomeIsARow ==
    ASSUME NEW l \in Loops
    PROVE  Outcome(l) \in Rows /\ Outcome(l).ready = l.row.ready
<1> DEFINE restarted == l.step \in {"restart", "force"}
           told == l.row.commanded \/ l.step = "command"
           reminder == IF l.step = "remind" THEN "recent" ELSE l.row.reminded
<1>1. l.row \in Rows /\ restarted \in BOOLEAN /\ told \in BOOLEAN /\ reminder \in Sinces
    BY DEF Loops, Rows, Sinces
<1>2. Outcome(l) = [l.row EXCEPT !.attempted = "no", !.done = restarted,
                                 !.commanded = told, !.reminded = reminder]
    BY DEF Outcome
<1> HIDE DEF restarted, told, reminder
<1> QED BY <1>1, <1>2 DEF Rows, Sinces

----------------------------------------------------------------------------
(* Types *)

\* The bounds bind.
LEMMA BoundsBind ==
    ASSUME TypeOK
    PROVE  /\ Act \/ UNCHANGED acts => acts' \in 0 .. MaxActs
           /\ Fault \/ UNCHANGED faults => faults' \in 0 .. MaxFaults
BY RestartAssumption, SMT DEF TypeOK, Act, Fault

LEMMA InitTypes == Init => TypeOK
<1> SUFFICES ASSUME Init PROVE TypeOK
    OBVIOUS
<1>1. loop \in [at : {"rest", "attempt", "deliver", "outcome"},
                step : {"none", "command", "remind", "restart", "force"}, row : Rows]
    BY RowsAreRows DEF Init, AtRest
<1>2. acts \in 0 .. MaxActs /\ faults \in 0 .. MaxFaults
    BY RestartAssumption DEF Init
<1> QED
    BY <1>1, <1>2, RowsAreRows, UnreadIsALook, Zenon DEF Init, TypeOK, Sinces

LEMMA SessionTypes == TypeOK /\ (Session \/ Person) => TypeOK'
<1> SUFFICES ASSUME TypeOK, Session \/ Person PROVE TypeOK'
    OBVIOUS
<1> USE RestartAssumption DEF TypeOK
<1>1. CASE TurnBegins \/ TurnEnds \/ WorkStarts \/ WorkEnds \/ Asks
    <2>1. acts' \in 0 .. MaxActs
        BY <1>1, BoundsBind DEF TurnBegins, TurnEnds, WorkStarts, WorkEnds, Asks
    <2> QED BY <1>1, <2>1, Zenon DEF TurnBegins, TurnEnds, WorkStarts, WorkEnds, Asks, Past
<1>2. CASE SessionReady
    <2>1. cycle' \in Rows
        BY <1>2 DEF SessionReady, Rows
    <2>2. look' \in Looks({"none", "begun", "read"}) /\ snap' \in Looks({"fresh", "stale"})
        BY <1>2 DEF SessionReady, Looks
    <2> QED BY <1>2, <2>1, <2>2 DEF SessionReady
<1>3. CASE Message \/ Answer \/ CloseOrReplace \/ Resume
    <2>1. acts' \in 0 .. MaxActs
        BY <1>3, BoundsBind DEF Message, Answer, CloseOrReplace, Resume
    <2> QED BY <1>3, <2>1, Zenon DEF Message, Answer, CloseOrReplace, Resume, Ends, Past
<1>4. CASE PrepareRestart
    <2>1. cycle' \in Rows
        BY <1>4, RowsAreRows DEF PrepareRestart, Rows
    <2> QED BY <1>4, <2>1 DEF PrepareRestart, Act
<1> QED BY <1>1, <1>2, <1>3, <1>4 DEF Session, Person

LEMMA CollectTypes == TypeOK /\ (Collect \/ SnapshotAges) => TypeOK'
<1> SUFFICES ASSUME TypeOK, Collect \/ SnapshotAges PROVE TypeOK'
    OBVIOUS
<1> USE RestartAssumption DEF TypeOK
<1>1. CASE CollectBegins
    <2>1. look' \in Looks({"none", "begun", "read"})
        BY <1>1 DEF CollectBegins, Unread, Looks, Rows
    <2> QED BY <1>1, <2>1 DEF CollectBegins, session
<1>2. CASE CollectReads
    <2>1. look' \in Looks({"none", "begun", "read"})
        BY <1>2 DEF CollectReads, Unread, Looks
    <2> QED BY <1>2, <2>1 DEF CollectReads, session, Fault
<1>3. CASE CollectEnds
    <2>1. snap' \in Looks({"fresh", "stale"})
        BY <1>3 DEF CollectEnds, Looks
    <2> QED BY <1>3, <2>1, UnreadIsALook DEF CollectEnds, session
<1>4. CASE SnapshotAges
    <2>1. snap' \in Looks({"fresh", "stale"})
        BY <1>4 DEF SnapshotAges, Looks
    <2> QED BY <1>4, <2>1 DEF SnapshotAges, session, Fault
<1> QED BY <1>1, <1>2, <1>3, <1>4 DEF Collect

LEMMA LoopTypes == TypeOK /\ (Loop \/ Prune \/ ServiceFalls \/ GracePasses) => TypeOK'
<1> SUFFICES ASSUME TypeOK, Loop \/ Prune \/ ServiceFalls \/ GracePasses PROVE TypeOK'
    OBVIOUS
<1> USE RestartAssumption DEF TypeOK
<1>a. loop \in Loops
    BY DEF Loops
<1>b. AtRest \in Loops
    BY RowsAreRows DEF AtRest, Loops
<1>1. CASE Tick
    <2>1. loop' \in Loops
        BY <1>1, RowIsARow DEF Tick, Picks, Loops
    <2>2. look' \in Looks({"none", "begun", "read"}) /\ snap' \in Looks({"fresh", "stale"}) /\ moved' \in BOOLEAN
        BY <1>1 DEF Tick, Looks
    <2> QED BY <1>1, <2>1, <2>2 DEF Tick, Loops
<1>2. CASE KeepAttempt
    <2>1. [loop.row EXCEPT !.attempted = "recent"] \in Rows
        BY <1>a DEF Loops, Rows, Sinces
    <2>2. cycle' \in Rows
        BY <1>2, <2>1, KeptIsARow DEF KeepAttempt
    <2>3. loop' \in Loops
        BY <1>2, <1>a DEF KeepAttempt, Loops, Rows, Sinces
    <2> QED BY <1>2, <2>2, <2>3 DEF KeepAttempt, session, Loops
<1>3. CASE Deliver
    <2>1. [loop EXCEPT !.at = "outcome"] \in Loops
        BY <1>a DEF Loops
    <2>2. loop' = [loop EXCEPT !.at = "outcome"] \/ loop' = AtRest
        BY <1>3, Zenon DEF Deliver, DeliverMessage, DeliverRestart, Heard
    <2>3. loop' \in Loops
        BY <2>1, <2>2, <1>b
    <2>4. faults' \in 0 .. MaxFaults
        BY <1>3, BoundsBind, Zenon DEF Deliver, DeliverMessage, DeliverRestart
    <2>5. CASE DeliverMessage
        <3>1. mail' = (mail \/ proc = "old") \/ mail' = mail
            BY <2>5, Zenon DEF DeliverMessage
        <3>2. mail' \in BOOLEAN /\ (proc # "old" => ~mail')
            <4>1. CASE proc = "old"
                <5>1. mail' = TRUE \/ mail' = mail
                    BY <3>1, <4>1, Zenon
                <5> QED BY <4>1, <5>1
            <4>2. CASE proc # "old"
                <5>1. mail = FALSE
                    BY <4>2
                <5>2. mail' = FALSE
                    BY <3>1, <4>2, <5>1, Zenon
                <5> QED BY <5>2
            <4> QED BY <4>1, <4>2
        <3> QED BY <2>3, <2>4, <2>5, <3>2, Zenon DEF DeliverMessage, Loops, Sinces
    <2>6. CASE DeliverRestart
        <3>1. /\ proc' \in {"old", "fresh", "none"} /\ busy' \in BOOLEAN /\ mail' \in BOOLEAN /\ work' \in BOOLEAN /\ asks' \in BOOLEAN
              /\ proc' # "old" => ~busy' /\ ~mail' /\ ~work' /\ ~asks'
              /\ readyTurn' \in {"none", "running", "over"}
            <4>1. CASE Ends("fresh") \/ Ends("none")
                BY <4>1, Zenon DEF Ends, Past
            <4>2. CASE UNCHANGED <<proc, busy, mail, work, asks, readyTurn>>
                BY <4>2, Zenon
            <4> QED BY <2>6, <4>1, <4>2, Zenon DEF DeliverRestart
        <3> QED BY <2>3, <2>4, <2>6, <3>1, Zenon DEF DeliverRestart, Loops, Sinces
    <2> QED BY <1>3, <2>5, <2>6 DEF Deliver
<1>4. CASE KeepOutcome
    <2> DEFINE outcome == Outcome(loop)
    <2>2. outcome \in Rows
        BY <1>a, OutcomeIsARow
    <2>3. cycle' = Kept(outcome)
        BY <1>4 DEF KeepOutcome
    <2>4. cycle' \in Rows
        <3> HIDE DEF outcome
        <3> QED BY <2>2, <2>3, KeptIsARow
    <2>5. loop' \in Loops
        BY <1>4, <1>b, Zenon DEF KeepOutcome
    <2>6. tried' \in {"no", "recent", "long"}
        BY <1>4 DEF KeepOutcome
    <2>7. /\ proc' = proc /\ busy' = busy /\ mail' = mail /\ work' = work /\ asks' = asks
          /\ moved' = moved /\ readyTurn' = readyTurn /\ look' = look /\ snap' = snap
          /\ auto' = auto /\ acts' = acts /\ faults' = faults
        BY <1>4, Zenon DEF KeepOutcome, session
    <2> HIDE DEF outcome
    <2> QED BY <2>4, <2>5, <2>6, <2>7, Zenon DEF Loops, Sinces
<1>5. CASE Prune
    BY <1>5, RowsAreRows DEF Prune, Sinces
<1>6. CASE ServiceFalls
    BY <1>6, <1>b DEF ServiceFalls, session, Fault, Loops
<1>7. CASE GracePasses
    <2>1. cycle' \in Rows /\ tried' \in Sinces
        BY <1>7 DEF GracePasses, Long, Rows, Sinces
    <2> QED BY <1>7, <2>1 DEF GracePasses, session
<1> QED BY <1>1, <1>2, <1>3, <1>4, <1>5, <1>6, <1>7 DEF Loop

\* The values of the variables, and that a process that ended left nothing.
THEOREM RestartTypes == Spec => []TypeOK
<1>1. TypeOK /\ [Next]_vars => TypeOK'
    <2>1. TypeOK /\ Next => TypeOK'
        BY SessionTypes, CollectTypes, LoopTypes DEF Next
    <2>2. TypeOK /\ UNCHANGED vars => TypeOK'
        BY DEF TypeOK, vars, session
    <2> QED BY <2>1, <2>2
<1> QED BY InitTypes, <1>1, PTL DEF Spec

----------------------------------------------------------------------------
(* Readiness *)

\* A read that can restart the session was begun after the last word of
\* readiness and found the session idle.
Proves(x) == x.seen /\ x.idle /\ x.afterReady

\* Readiness is a turn's, the row the loop holds has no readiness of its own,
\* and a read that began after it and found no turn came after that turn.
ReadyInv ==
    /\ readyTurn = "running" => busy /\ proc = "old"
    /\ cycle.ready => readyTurn # "none"
    /\ loop.at = "attempt" /\ loop.row.ready => cycle.there /\ ~cycle.done /\ cycle.ready
    /\ loop.at \in {"deliver", "outcome"} => cycle.there /\ ~cycle.done
    /\ loop.at \in {"deliver", "outcome"} /\ loop.row.ready => cycle.ready
    /\ loop.at # "rest" => loop.row.there /\ ~loop.row.done
    /\ look.at # "read" => ~look.seen
    /\ cycle.ready /\ (Proves(look) \/ Proves(snap)) => readyTurn = "over"

LEMMA InitReady == Init => ReadyInv
BY RowsAreRows, UnreadIsALook DEF Init, ReadyInv, AtRest, Proves

LEMMA ReadyStep == TypeOK /\ TypeOK' /\ ReadyInv /\ [Next]_vars => ReadyInv'
<1> SUFFICES ASSUME TypeOK, TypeOK', ReadyInv, [Next]_vars PROVE ReadyInv'
    OBVIOUS
<1>a. cycle \in Rows /\ loop \in Loops /\ loop' \in Loops
    BY DEF TypeOK, Loops
<1>b. AtRest.at = "rest"
    BY DEF AtRest
<1>1. CASE TurnBegins \/ WorkStarts \/ WorkEnds \/ Asks \/ Message \/ Answer
    BY <1>1, Zenon DEF ReadyInv, Proves, TurnBegins, WorkStarts, WorkEnds, Asks, Message, Answer
<1>2. CASE TurnEnds
    BY <1>2, Zenon DEF ReadyInv, Proves, TurnEnds, Past
<1>3. CASE SessionReady
    BY <1>3 DEF ReadyInv, Proves, SessionReady, TypeOK, Looks, Rows, Loops
<1>4. CASE CloseOrReplace \/ Resume
    BY <1>4 DEF ReadyInv, Proves, CloseOrReplace, Resume, Ends, Past, TypeOK
<1>5. CASE PrepareRestart
    BY <1>5, RowsAreRows DEF ReadyInv, Proves, PrepareRestart, TypeOK, Rows, Loops
<1>6. CASE CollectBegins
    BY <1>6, UnreadIsALook DEF ReadyInv, Proves, CollectBegins, Unread, session
<1>7. CASE CollectReads
    <2>1. look'.at = "read"
        BY <1>7 DEF CollectReads, TypeOK, Looks, Unread
    <2>2. Proves(look') => ~busy
        <3>1. CASE look' = [look EXCEPT !.at = "read", !.seen = TRUE, !.idle = ~busy /\ ~asks, !.work = work, !.moved = moved]
            <4>1. look'.idle = (~busy /\ ~asks)
                BY <3>1 DEF TypeOK, Looks
            <4> QED BY <4>1 DEF Proves
        <3>2. CASE look' = [Unread EXCEPT !.at = "read"]
            <4>1. ~look'.seen
                BY <3>2 DEF Unread
            <4> QED BY <4>1 DEF Proves
        <3> QED BY <1>7, <3>1, <3>2 DEF CollectReads
    <2>3. ~busy /\ cycle.ready => readyTurn = "over"
        BY DEF ReadyInv, TypeOK
    <2> QED BY <1>7, <2>1, <2>2, <2>3, Zenon DEF ReadyInv, CollectReads, Proves, session
<1>8. CASE CollectEnds
    BY <1>8, UnreadIsALook DEF ReadyInv, Proves, CollectEnds, session, TypeOK, Looks
<1>9. CASE SnapshotAges
    BY <1>9 DEF ReadyInv, Proves, SnapshotAges, session, TypeOK, Looks
<1>10. CASE Tick
    BY <1>10, RowIsARow, RowsAreRows DEF ReadyInv, Proves, Tick, Picks, Within, ToCommand, ToRestart, ToForce, ToRemind, TypeOK, Looks, Loops, Rows
<1>11. CASE Prune
    BY <1>11, RowsAreRows DEF ReadyInv, Proves, Prune, TypeOK, Looks
<1>12. CASE KeepAttempt
    <2> DEFINE sent == [loop.row EXCEPT !.attempted = "recent"]
    <2>1. /\ sent \in Rows /\ sent.there /\ ~sent.done
          /\ sent.ready => cycle.ready
          /\ loop.row.ready => cycle.ready
        BY <1>12, <1>a DEF KeepAttempt, ReadyInv, Loops, Rows, Sinces
    <2>2. cycle' = Kept(sent) /\ loop'.at = "deliver" /\ loop'.row = sent
        BY <1>12, <1>a DEF KeepAttempt, Loops, Rows
    <2>3. cycle'.there /\ ~cycle'.done /\ (cycle'.ready <=> cycle.ready)
        <3> HIDE DEF sent
        <3> QED BY <1>a, <2>1, <2>2, KeptIsARow
    <2> HIDE DEF sent
    <2> QED BY <1>12, <2>1, <2>2, <2>3, Zenon DEF ReadyInv, KeepAttempt, Proves, session
<1>13. CASE Deliver
    BY <1>13, <1>b DEF ReadyInv, Proves, Deliver, DeliverMessage, DeliverRestart, Heard, Ends, Past, TypeOK, Looks, Loops
<1>14. CASE KeepOutcome
    <2>1. PICK kept : /\ kept \in Rows /\ cycle' = Kept(kept) /\ kept.ready = loop.row.ready
        BY <1>14, <1>a, OutcomeIsARow DEF KeepOutcome
    <2>2. cycle'.ready <=> cycle.ready
        BY <1>14, <1>a, <2>1, KeptIsARow DEF KeepOutcome, ReadyInv
    <2>3. loop'.at = "rest"
        BY <1>14, <1>b DEF KeepOutcome
    <2> QED BY <1>14, <2>2, <2>3, Zenon DEF ReadyInv, KeepOutcome, Proves, session
<1>15. CASE ServiceFalls
    BY <1>15, <1>b DEF ReadyInv, Proves, ServiceFalls, session
<1>16. CASE GracePasses
    BY <1>16 DEF ReadyInv, Proves, GracePasses, session, TypeOK, Rows
<1>17. CASE UNCHANGED vars
    BY <1>17, Zenon DEF ReadyInv, Proves, vars, session
<1> QED
    BY <1>1, <1>2, <1>3, <1>4, <1>5, <1>6, <1>7, <1>8, <1>9, <1>10, <1>11, <1>12, <1>13, <1>14,
       <1>15, <1>16, <1>17, Zenon DEF Next, Session, Person, Collect, Loop

\* The restart of a session that is ready is taken only after that turn: a
\* repeat of the word moves its moment on, and the read is dated at its start.
THEOREM ReadyTurnEndsFirst == Spec => ReadyTurnIsOver
<1>1. TypeOK /\ ReadyInv /\ [Next]_vars => (Tick /\ loop'.step = "restart" => readyTurn = "over")
    <2> SUFFICES ASSUME TypeOK, ReadyInv, Tick, loop'.step = "restart" PROVE readyTurn = "over"
        OBVIOUS
    <2>1. ToRestart(Row, snap)
        BY DEF Tick, Picks
    <2>2. cycle.ready /\ Proves(snap)
        BY <2>1, RowIsARow, RowsAreRows DEF ToRestart, ReadyIdle, Proves, Tick, TypeOK
    <2> QED BY <2>2 DEF ReadyInv
<1>2. TypeOK /\ TypeOK' /\ ReadyInv /\ [Next]_vars => ReadyInv'
    BY ReadyStep
<1> QED BY <1>1, <1>2, InitReady, RestartTypes, PTL DEF Spec, ReadyTurnIsOver

----------------------------------------------------------------------------
(* Retries *)

\* An attempt that is not known to have gone is in the row, or the loop has it.
RetryInv ==
    /\ loop.at = "rest" /\ tried = "recent" => cycle.there /\ ~cycle.done /\ cycle.attempted = "recent"
    /\ loop.at \in {"attempt", "deliver"} => tried # "recent"
    /\ loop.at \in {"deliver", "outcome"} => cycle.there /\ ~cycle.done /\ cycle.attempted = "recent"
    /\ loop.at = "attempt" => loop.row.there /\ ~loop.row.done

LEMMA InitRetry == Init => RetryInv
BY DEF Init, RetryInv, AtRest

LEMMA RetryStep == TypeOK /\ RetryInv /\ [Next]_vars => RetryInv'
<1> SUFFICES ASSUME TypeOK, RetryInv, [Next]_vars PROVE RetryInv'
    OBVIOUS
<1>a. cycle \in Rows /\ loop \in Loops
    BY DEF TypeOK, Loops
<1>b. AtRest.at = "rest"
    BY DEF AtRest
<1>1. CASE UNCHANGED <<cycle, loop, tried>>
    BY <1>1, Zenon DEF RetryInv
<1>2. CASE SessionReady
    BY <1>2, <1>a DEF RetryInv, SessionReady, Rows
<1>3. CASE PrepareRestart
    BY <1>3, <1>a DEF RetryInv, PrepareRestart, NewCycle, NoCycle, Rows, Loops
<1>4. CASE Tick
    BY <1>4, <1>a, RowIsARow, RowsAreRows DEF RetryInv, Tick, Picks, Within, ToCommand, ToRestart, ToForce, ToRemind
<1>5. CASE Prune
    BY <1>5 DEF RetryInv, Prune
<1>6. CASE KeepAttempt
    <2> DEFINE row == [loop.row EXCEPT !.attempted = "recent"]
    <2>1. row \in Rows /\ row.there /\ ~row.done /\ row.attempted = "recent"
        BY <1>6, <1>a DEF KeepAttempt, RetryInv, Loops, Rows, Sinces
    <2>2. cycle' = Kept(row) /\ loop'.at = "deliver"
        BY <1>6, <1>a DEF KeepAttempt, Loops
    <2>3. cycle'.there /\ ~cycle'.done /\ cycle'.attempted = "recent"
        <3> HIDE DEF row
        <3> QED BY <1>a, <2>1, <2>2, KeptIsARow
    <2> QED BY <1>6, <2>2, <2>3 DEF RetryInv, KeepAttempt
<1>7. CASE Deliver
    <2>1. loop' = [loop EXCEPT !.at = "outcome"] \/ loop' = AtRest
        BY <1>7, Zenon DEF Deliver, DeliverMessage, DeliverRestart, Heard
    <2>2. loop'.at \in {"outcome", "rest"}
        BY <1>a, <1>b, <2>1 DEF Loops
    <2> QED BY <1>7, <2>2, Zenon DEF RetryInv, Deliver, DeliverMessage, DeliverRestart
<1>8. CASE KeepOutcome
    BY <1>8, <1>b DEF RetryInv, KeepOutcome
<1>9. CASE ServiceFalls
    BY <1>9, <1>a, <1>b DEF RetryInv, ServiceFalls, Loops
<1>10. CASE GracePasses
    BY <1>10, <1>a DEF RetryInv, GracePasses, Long, Rows, Sinces, TypeOK
<1> QED
    BY <1>1, <1>2, <1>3, <1>4, <1>5, <1>6, <1>7, <1>8, <1>9, <1>10, Zenon
    DEF Next, Session, Person, Collect, Loop, TurnBegins, TurnEnds, WorkStarts, WorkEnds, Asks, Message, Answer,
        CloseOrReplace, Resume, CollectBegins, CollectReads, CollectEnds, SnapshotAges, vars

\* A step that failed is not sent again within the grace: it was written down
\* before it was sent, and what is said meanwhile leaves that in the row.
THEOREM FailedStepWaits == Spec => RetryWaits
<1>1. RetryInv /\ [Next]_vars => (Deliver => tried # "recent")
    BY DEF RetryInv, Deliver, DeliverMessage, DeliverRestart
<1>2. TypeOK /\ RetryInv /\ [Next]_vars => RetryInv'
    BY RetryStep
<1> QED BY <1>1, <1>2, InitRetry, RestartTypes, PTL DEF Spec, RetryWaits
=============================================================================
