---------------------------- MODULE RestartCycle -----------------------------
(***************************************************************************)
(* The restart of a session at the cap of its context.  The service reads  *)
(* the snapshot of the collector and its own row of the cycle, tells the   *)
(* session to prepare, reminds it once, and restarts it: once it said it   *)
(* is ready and its turn is over, or a grace after the reminder whatever   *)
(* it does.  A step is written down before it is sent and again after it   *)
(* went, and the service may fall, or hear nothing, between.               *)
(*                                                                         *)
(* Moments are kept as what the code asks of them: whether one is later    *)
(* than another, and whether the grace since it has passed.                *)
(***************************************************************************)
EXTENDS Naturals

CONSTANTS
    MaxActs,    \* bound: what persons do, and background work a session starts
    MaxFaults   \* bound: calls and writes that fail, falls of the service

ASSUME RestartAssumption == MaxActs \in Nat /\ MaxFaults \in Nat

VARIABLES
    \* the session
    proc,       \* "old": it runs the conversation of the cycle; "fresh": another; "none"
    busy, mail, work,   \* in a turn; a message waits to be read; background work
    asks,       \* it waits on a person: a question, a permission, a dialog
    moved,      \* its status changed since the command, or since ever before one
    readyTurn,  \* the turn that called session_ready last: "none", "running" or "over"
    \* the collector: a read in progress and the snapshot published
    look, snap,
    \* the service
    auto,       \* the project restarts at the cap, and the context is past it
    cycle,      \* the row of the conversation in the database
    loop,       \* the loop: where it stands, the step it takes, its copy of the row
    tried,      \* the last step sent and not known to have gone: "no", "recent" or "long" ago
    acts, faults

session == <<proc, busy, mail, work, asks, moved, readyTurn>>
vars == <<session, look, snap, auto, cycle, loop, tried, acts, faults>>

Unread   == [at |-> "none", seen |-> FALSE, idle |-> FALSE, work |-> FALSE, moved |-> FALSE,
             afterReady |-> FALSE, afterCommand |-> FALSE]
NoSnap   == [Unread EXCEPT !.at = "stale"]
NoCycle  == [there |-> FALSE, manual |-> FALSE, commanded |-> FALSE, ready |-> FALSE,
             reminded |-> "no", attempted |-> "no", done |-> FALSE]
NewCycle == [NoCycle EXCEPT !.there = TRUE]
AtRest   == [at |-> "rest", step |-> "none", row |-> NoCycle]

Act   == acts < MaxActs /\ acts' = acts + 1
Fault == faults < MaxFaults /\ faults' = faults + 1

Init ==
    /\ proc = "old" /\ busy \in BOOLEAN /\ mail = FALSE /\ work = FALSE
    /\ asks = FALSE /\ moved = TRUE /\ readyTurn = "none"
    /\ look = Unread /\ snap = NoSnap
    /\ auto \in BOOLEAN /\ cycle = NoCycle /\ loop = AtRest /\ tried = "no"
    /\ acts = 0 /\ faults = 0

----------------------------------------------------------------------------
(* The session *)

TurnBegins ==
    /\ proc = "old" /\ ~busy /\ ~asks /\ mail
    /\ busy' = TRUE /\ mail' = FALSE /\ moved' = TRUE
    /\ UNCHANGED <<proc, work, asks, readyTurn, look, snap, auto, cycle, loop, tried, acts, faults>>

Past(turn) == IF turn = "running" THEN "over" ELSE turn

TurnEnds ==
    /\ busy /\ ~asks
    /\ busy' = FALSE /\ moved' = TRUE /\ readyTurn' = Past(readyTurn)
    /\ UNCHANGED <<proc, mail, work, asks, look, snap, auto, cycle, loop, tried, acts, faults>>

WorkStarts ==
    /\ busy /\ ~work /\ Act
    /\ work' = TRUE
    /\ UNCHANGED <<proc, busy, mail, asks, moved, readyTurn, look, snap, auto, cycle, loop, tried, faults>>

\* The session may be woken for it.
WorkEnds ==
    /\ work /\ work' = FALSE
    /\ mail' \in {mail, TRUE}
    /\ UNCHANGED <<proc, busy, asks, moved, readyTurn, look, snap, auto, cycle, loop, tried, acts, faults>>

\* It waits on a person: in a turn, or in a dialog opened at its terminal.
Asks ==
    /\ proc = "old" /\ ~asks /\ Act
    /\ asks' = TRUE /\ moved' = TRUE
    /\ UNCHANGED <<proc, busy, mail, work, readyTurn, look, snap, auto, cycle, loop, tried, faults>>

\* Mutant: only the first call moves the moment of readiness.
ReadyOnce ==
    /\ busy /\ ~asks /\ snap.seen /\ cycle.there /\ ~cycle.done
    /\ cycle' = [cycle EXCEPT !.ready = TRUE, !.commanded = TRUE]
    /\ snap' = [snap EXCEPT !.afterReady = cycle.ready /\ snap.afterReady]
    /\ look' = [look EXCEPT !.afterReady = cycle.ready /\ look.afterReady]
    /\ readyTurn' = "running"
    /\ UNCHANGED <<proc, busy, mail, work, asks, moved, auto, loop, tried, acts, faults>>

\* session_ready, called in a turn: a repeat moves the moment on.
SessionReady ==
    /\ busy /\ ~asks /\ snap.seen /\ cycle.there /\ ~cycle.done
    /\ cycle' = [cycle EXCEPT !.ready = TRUE, !.commanded = TRUE]
    /\ snap' = [snap EXCEPT !.afterReady = FALSE]
    /\ look' = [look EXCEPT !.afterReady = FALSE]
    /\ readyTurn' = "running"
    /\ UNCHANGED <<proc, busy, mail, work, asks, moved, auto, loop, tried, acts, faults>>

\* A process ends and leaves nothing, and another runs in its place or none.
Ends(next) ==
    /\ proc' = next /\ busy' = FALSE /\ mail' = FALSE /\ work' = FALSE /\ asks' = FALSE
    /\ readyTurn' = Past(readyTurn)

----------------------------------------------------------------------------
(* Persons *)

Message ==
    /\ proc = "old" /\ Act
    /\ mail' = TRUE
    /\ UNCHANGED <<proc, busy, work, asks, moved, readyTurn, look, snap, auto, cycle, loop, tried, faults>>

Answer ==
    /\ asks
    /\ asks' = FALSE /\ moved' = TRUE
    /\ UNCHANGED <<proc, busy, mail, work, readyTurn, look, snap, auto, cycle, loop, tried, acts, faults>>

\* The session is closed, or restarted under its name with another conversation.
CloseOrReplace ==
    /\ proc = "old" /\ Act
    /\ \E next \in {"none", "fresh"} : Ends(next)
    /\ UNCHANGED <<moved, look, snap, auto, cycle, loop, tried, faults>>

\* The conversation is resumed, in a process whose status is its own.
Resume ==
    /\ proc # "old" /\ Act
    /\ proc' = "old" /\ moved' = TRUE
    /\ UNCHANGED <<busy, mail, work, asks, readyTurn, look, snap, auto, cycle, loop, tried, faults>>

\* A press of the button: a cycle that is over begins anew, one that is not
\* keeps what it has.
PrepareRestart ==
    /\ snap.seen /\ Act
    /\ IF cycle.there /\ ~cycle.done
       THEN cycle' = [cycle EXCEPT !.manual = TRUE] /\ UNCHANGED readyTurn
       ELSE cycle' = [NewCycle EXCEPT !.manual = TRUE] /\ readyTurn' = "none"
    /\ UNCHANGED <<proc, busy, mail, work, asks, moved, look, snap, auto, loop, tried, faults>>

----------------------------------------------------------------------------
(* The collector *)

\* A snapshot bears the moment its read began.
CollectBegins ==
    /\ look.at = "none"
    /\ look' = [Unread EXCEPT !.at = "begun", !.afterReady = cycle.ready, !.afterCommand = TRUE]
    /\ UNCHANGED <<session, snap, auto, cycle, loop, tried, acts, faults>>

\* A read that crashes shows no session at all.
CollectReads ==
    /\ look.at = "begun"
    /\ \/ /\ proc = "old"
          /\ look' = [look EXCEPT !.at = "read", !.seen = TRUE, !.idle = ~busy /\ ~asks, !.work = work, !.moved = moved]
          /\ UNCHANGED faults
       \/ /\ proc # "old" /\ look' = [Unread EXCEPT !.at = "read"]
          /\ UNCHANGED faults
       \/ proc = "old" /\ look' = [Unread EXCEPT !.at = "read"] /\ Fault
    /\ UNCHANGED <<session, snap, auto, cycle, loop, tried, acts>>

CollectEnds ==
    /\ look.at = "read"
    /\ snap' = [look EXCEPT !.at = "fresh"] /\ look' = Unread
    /\ UNCHANGED <<session, auto, cycle, loop, tried, acts, faults>>

\* Half a minute passes without another: while the loop is at a delivery, or
\* the collector is down.
SnapshotAges ==
    /\ snap.at = "fresh" /\ snap' = [snap EXCEPT !.at = "stale"]
    /\ IF loop.at = "rest" THEN Fault ELSE UNCHANGED faults
    /\ UNCHANGED <<session, look, auto, cycle, loop, tried, acts>>

----------------------------------------------------------------------------
(* The loop of the service *)

Within(c) == c.done \/ c.attempted = "recent"
ReadyIdle(c, s) == c.ready /\ s.afterReady /\ s.idle

\* nextRestart: nothing for a cycle that is over or within the grace of an
\* attempt; the command; then the restart of a session that is ready, idle and
\* without work, one reminder, and the restart whatever the session does.
ToCommand(c, s) == ~Within(c) /\ ~c.commanded /\ s.idle
ToRestart(c, s) == ~Within(c) /\ c.commanded /\ ReadyIdle(c, s) /\ ~s.work

\* Mutant: the restart of a session that was reminded waits until it is idle.
ToForceIdle(c, s) == ~Within(c) /\ c.commanded /\ ~ToRestart(c, s) /\ c.reminded = "long" /\ s.idle

ToForce(c, s)   == ~Within(c) /\ c.commanded /\ ~ToRestart(c, s) /\ c.reminded = "long"

ToRemind(c, s) ==
    /\ ~Within(c) /\ c.commanded /\ c.reminded = "no"
    /\ \/ ReadyIdle(c, s) /\ s.work
       \/ ~c.ready /\ s.idle /\ s.moved /\ s.afterCommand

\* The row of a cycle, or one to begin for a session past its cap.
Row == IF cycle.there THEN cycle ELSE NewCycle

\* The loop reads the snapshot, then the rows, and picks a step.
Picks(step) == loop' = [at |-> "attempt", step |-> step, row |-> Row]

Tick ==
    /\ loop.at = "rest" /\ snap.at = "fresh" /\ snap.seen
    /\ auto \/ Row.manual
    /\ \/ /\ ToCommand(Row, snap) /\ Picks("command")
          /\ moved' = FALSE
          /\ snap' = [snap EXCEPT !.afterCommand = FALSE]
          /\ look' = [look EXCEPT !.afterCommand = FALSE]
       \/ /\ \/ ToRestart(Row, snap) /\ Picks("restart")
             \/ ToForce(Row, snap) /\ Picks("force")
             \/ ToRemind(Row, snap) /\ Picks("remind")
          /\ UNCHANGED <<moved, snap, look>>
    /\ UNCHANGED <<proc, busy, mail, work, asks, readyTurn, auto, cycle, tried, acts, faults>>

\* The round of the loop that does not see the conversation removes its row,
\* once it is a week old.
Prune ==
    /\ loop.at = "rest" /\ snap.at = "fresh" /\ ~snap.seen
    /\ cycle.there /\ cycle' = NoCycle /\ readyTurn' = "none" /\ tried' = "no"
    /\ UNCHANGED <<proc, busy, mail, work, asks, moved, look, snap, auto, loop, acts, faults>>

\* What KeepRestartCycle leaves of the row that is there: the session may
\* have said it is ready, or a person pressed, since it was read.
Kept(row) == [row EXCEPT !.manual = cycle.manual \/ row.manual,
                         !.commanded = cycle.commanded \/ row.commanded,
                         !.ready = cycle.ready \/ row.ready]

\* Mutant: the attempt is kept in memory until its outcome is written.
KeepAttemptInMemory ==
    /\ loop.at = "attempt"
    /\ cycle' = Kept(loop.row)
    /\ loop' = [loop EXCEPT !.at = "deliver", !.row.attempted = "recent"]
    /\ UNCHANGED <<session, look, snap, auto, tried, acts, faults>>

\* The attempt is written before the step is sent.
KeepAttempt ==
    /\ loop.at = "attempt"
    /\ cycle' = Kept([loop.row EXCEPT !.attempted = "recent"])
    /\ loop' = [loop EXCEPT !.at = "deliver", !.row.attempted = "recent"]
    /\ UNCHANGED <<session, look, snap, auto, tried, acts, faults>>

Heard(ok) == loop' = IF ok THEN [loop EXCEPT !.at = "outcome"] ELSE AtRest

\* A message goes to the session of that name, whatever conversation it runs;
\* without an answer in time it went or not.
DeliverMessage ==
    /\ loop.at = "deliver" /\ loop.step \in {"command", "remind"}
    /\ tried' = "recent"
    /\ LET gets == mail' = (mail \/ proc = "old")
       IN \/ proc = "none" /\ Heard(FALSE) /\ UNCHANGED <<mail, faults>>
          \/ proc # "none" /\ Heard(TRUE) /\ gets /\ UNCHANGED faults
          \/ proc # "none" /\ Heard(FALSE) /\ (gets \/ UNCHANGED mail) /\ Fault
    /\ UNCHANGED <<proc, busy, work, asks, moved, readyTurn, look, snap, auto, cycle, acts>>

\* The executor restarts only the conversation it is named.  The session may
\* not close in time, or close and not come up, or the answer may be late.
DeliverRestart ==
    /\ loop.at = "deliver" /\ loop.step \in {"restart", "force"}
    /\ tried' = "recent"
    /\ \/ proc # "old" /\ Heard(FALSE) /\ UNCHANGED <<proc, busy, mail, work, asks, readyTurn, faults>>
       \/ proc = "old" /\ Heard(TRUE) /\ Ends("fresh") /\ UNCHANGED faults
       \/ /\ proc = "old" /\ Heard(FALSE) /\ Fault
          /\ Ends("fresh") \/ Ends("none") \/ UNCHANGED <<proc, busy, mail, work, asks, readyTurn>>
    /\ UNCHANGED <<moved, look, snap, auto, cycle, acts>>

\* What a step that went leaves of the row it was taken on.
Outcome(l) == [l.row EXCEPT !.attempted = "no",
                   !.done = l.step \in {"restart", "force"},
                   !.commanded = l.row.commanded \/ l.step = "command",
                   !.reminded = IF l.step = "remind" THEN "recent" ELSE l.row.reminded]

KeepOutcome ==
    /\ loop.at = "outcome"
    /\ cycle' = Kept(Outcome(loop))
    /\ loop' = AtRest /\ tried' = "no"
    /\ UNCHANGED <<session, look, snap, auto, acts, faults>>

\* A write of the row fails, or the service falls: its memory is the row.
ServiceFalls ==
    /\ loop.at # "rest" /\ Fault
    /\ loop' = AtRest
    /\ UNCHANGED <<session, look, snap, auto, cycle, tried, acts>>

\* Five minutes pass, which no delivery takes.
Long(since) == IF since = "recent" THEN "long" ELSE since

GracePasses ==
    /\ loop.at = "rest"
    /\ cycle' = [cycle EXCEPT !.attempted = Long(@), !.reminded = Long(@)]
    /\ tried' = Long(tried)
    /\ UNCHANGED <<session, look, snap, auto, loop, acts, faults>>

----------------------------------------------------------------------------
Session == TurnBegins \/ TurnEnds \/ WorkStarts \/ WorkEnds \/ Asks \/ SessionReady
Person  == Message \/ Answer \/ CloseOrReplace \/ Resume \/ PrepareRestart
Collect == CollectBegins \/ CollectReads \/ CollectEnds
Deliver == DeliverMessage \/ DeliverRestart
Loop    == Tick \/ KeepAttempt \/ Deliver \/ KeepOutcome

Next == Session \/ Person \/ Collect \/ SnapshotAges \/ Loop \/ Prune \/ ServiceFalls \/ GracePasses

Spec == Init /\ [][Next]_vars

\* A turn that began ends and a message is read, unless the session waits on a
\* person, who need not answer; the collector and the loop go round, and time
\* passes.  MaxActs says that persons stop writing to it.
Fairness == WF_vars(TurnBegins) /\ WF_vars(TurnEnds) /\ WF_vars(Collect) /\ WF_vars(Loop) /\ WF_vars(GracePasses)
FairSpec == Spec /\ Fairness

----------------------------------------------------------------------------
Sinces == {"no", "recent", "long"}
Looks(ats) == [at : ats, seen : BOOLEAN, idle : BOOLEAN, work : BOOLEAN, moved : BOOLEAN,
               afterReady : BOOLEAN, afterCommand : BOOLEAN]
Rows == [there : BOOLEAN, manual : BOOLEAN, commanded : BOOLEAN, ready : BOOLEAN,
         reminded : Sinces, attempted : Sinces, done : BOOLEAN]

\* The values of the variables; a process that ended left nothing behind.
TypeOK ==
    /\ proc \in {"old", "fresh", "none"} /\ busy \in BOOLEAN /\ mail \in BOOLEAN
    /\ work \in BOOLEAN /\ asks \in BOOLEAN
    /\ proc # "old" => ~busy /\ ~mail /\ ~work /\ ~asks
    /\ moved \in BOOLEAN /\ readyTurn \in {"none", "running", "over"}
    /\ look \in Looks({"none", "begun", "read"}) /\ snap \in Looks({"fresh", "stale"})
    /\ auto \in BOOLEAN /\ cycle \in Rows
    /\ loop \in [at : {"rest", "attempt", "deliver", "outcome"},
                 step : {"none", "command", "remind", "restart", "force"}, row : Rows]
    /\ tried \in Sinces
    /\ acts \in 0 .. MaxActs /\ faults \in 0 .. MaxFaults

\* The loop picks a restart that is not forced only when the turn that called
\* session_ready last is over, however old what the collector read is.
ReadyTurnIsOver == [][Tick /\ loop'.step = "restart" => readyTurn = "over"]_vars

\* A step that failed, or of which the service never learned the end, is not
\* tried again within the grace, by the service that sent it or by the next.
RetryWaits == [][Deliver => tried # "recent"]_vars

\* A session that was told to prepare is restarted in the end, whatever fails on
\* the way, unless it went away by itself.  Until it is reminded it has to be
\* idle at some look of the loop: one that waits on a person for ever is neither
\* reminded nor restarted.  Once it is, it is restarted whatever it does.
Over == cycle.done \/ ~cycle.there \/ proc # "old"
WaitsUnreminded == asks /\ cycle.reminded = "no"
CycleEnds == cycle.commanded ~> (Over \/ WaitsUnreminded)
=============================================================================
