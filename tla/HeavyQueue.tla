----------------------------- MODULE HeavyQueue -----------------------------
(***************************************************************************)
(* The queue of heavy runs: the clients (aacpanel-exec -heavy), the queue  *)
(* the executor keeps (internal/heavy/queue.go) and the user's manager,    *)
(* which alone moves a client's process into the scope of its run.         *)
(*                                                                         *)
(* The executor may go away between any two steps and is started again.    *)
(* It forgets who waited and numbers its units from one again; the scopes  *)
(* stay. What the memory, the budget and the pressure of the host allow is *)
(* a choice of Look here; HeavyMemory models it.                           *)
(***************************************************************************)
EXTENDS Integers, Sequences, FiniteSets

CONSTANTS Runs,        \* the runs, each a process
          Nested,      \* the runs started from inside another one
          Parent,      \* which one
          Slots,       \* AACP_HEAVY_SLOTS; nought is no bound
          MaxFaults    \* bound: executors gone, queues given up by a client and
                       \* calls the manager is too late with

ASSUME QueueAssumption == /\ IsFiniteSet(Runs)
                          /\ Nested \subseteq Runs
                          /\ Parent \in [Nested -> Runs]
                          /\ {Slots, MaxFaults} \subseteq Nat

VARIABLES
    \* the clients
    state,      \* where each stands
    dial,       \* the connections each has made
    \* the executor
    up,         \* it is there
    waiting,    \* the queue
    keep,       \* where keep, its one loop, stands
    seen,       \* the units its last measure found
    leaving,    \* the runs taken off the queue and not let go yet
    call,       \* what it asked of the manager
    seq,        \* the number of its last unit
    verdicts,   \* replies put for a connection and not written yet
    \* the host
    at,         \* the unit each run's process lives in, 0 for none
    late,       \* the calls the manager still has, nobody waiting for them
    faults, abandoned   \* history: faults, and calls nobody waits for any more

clients == <<state, dial>>
lists == <<waiting, verdicts>>
loop == <<keep, seen, leaving, call, seq>>
vars == <<clients, up, lists, loop, at, late, faults, abandoned>>

\* asked: the request is sent and not read yet; holding: it is in the queue.
States == {"new", "asked", "holding", "redialing", "running", "ended"}
Waiters == Runs \X Nat              \* a run and its connection
Calls == [waiter : Waiters, unit : Nat \ {0}, result : {"asked", "moved", "refused"}]
NoCall == [result |-> "none"]
Verdicts == Waiters \X {"admitted", "unheld"}

TypeOK ==
    /\ state \in [Runs -> States]
    /\ dial \in [Runs -> Nat]
    /\ up \in BOOLEAN
    /\ waiting \in Seq(Waiters)
    /\ keep \in {"idle", "measured", "letting", "calling"}
    /\ seen \subseteq Nat \ {0}
    /\ leaving \in Seq(Waiters)
    /\ IF keep = "calling" THEN call \in Calls ELSE call = NoCall
    /\ seq \in Nat
    /\ verdicts \subseteq Verdicts
    /\ at \in [Runs -> Nat]
    /\ late \subseteq Calls
    /\ faults \in Nat
    /\ abandoned \in Nat

-----------------------------------------------------------------------------

\* The scopes in the slice: one is there while a process lives in it.
Going == {at[r] : r \in Runs} \ {0}

Waiter(r) == <<r, dial[r]>>
Holds(w) == state[w[1]] = "holding" /\ dial[w[1]] = w[2]
Waits(r) == state[r] \in {"asked", "holding", "redialing"}
Alive(r) == Waits(r) \/ state[r] = "running"
Inside(r) == {c \in Nested : Parent[c] = r}

Init ==
    /\ state = [r \in Runs |-> "new"]
    /\ dial = [r \in Runs |-> 0]
    /\ up = TRUE
    /\ waiting = <<>>
    /\ keep = "idle"
    /\ seen = {}
    /\ leaving = <<>>
    /\ call = NoCall
    /\ seq = 0
    /\ verdicts = {}
    /\ at = [r \in Runs |-> 0]
    /\ late = {}
    /\ faults = 0
    /\ abandoned = 0

-----------------------------------------------------------------------------
(* The client.                                                             *)

CanStart(r) == state[r] = "new" /\ (r \in Nested => state[Parent[r]] = "running")

\* A run that lives in the scope of another is held already: it does not ask.
StartInside(r) ==
    /\ CanStart(r)
    /\ r \in Nested
    /\ at[Parent[r]] # 0
    /\ state' = [state EXCEPT ![r] = "running"]
    /\ at' = [at EXCEPT ![r] = at[Parent[r]]]
    /\ UNCHANGED <<dial, up, lists, loop, late, faults, abandoned>>

\* The first call to the queue; with no executor to reach the run goes at once.
Ask(r) ==
    /\ CanStart(r)
    /\ r \in Nested => at[Parent[r]] = 0
    /\ \/ /\ up
          /\ state' = [state EXCEPT ![r] = "asked"]
          /\ dial' = [dial EXCEPT ![r] = @ + 1]
       \/ /\ ~ up
          /\ state' = [state EXCEPT ![r] = "running"]
          /\ UNCHANGED dial
    /\ UNCHANGED <<up, lists, loop, at, late, faults, abandoned>>

\* The client hears nothing for silenceWait and takes the queue for gone.
Silence(r) ==
    /\ up
    /\ state[r] = "holding"
    /\ faults < MaxFaults
    /\ faults' = faults + 1
    /\ state' = [state EXCEPT ![r] = "redialing"]
    /\ UNCHANGED <<dial, up, lists, loop, at, late, abandoned>>

\* It joins the queue again, at its end. Where it lives is not asked again.
Redial(r) ==
    /\ state[r] = "redialing"
    /\ up
    /\ state' = [state EXCEPT ![r] = "asked"]
    /\ dial' = [dial EXCEPT ![r] = @ + 1]
    /\ UNCHANGED <<up, lists, loop, at, late, faults, abandoned>>

\* The executor did not come back within rejoinWait.
GiveUp(r) ==
    /\ state[r] = "redialing"
    /\ ~ up
    /\ state' = [state EXCEPT ![r] = "running"]
    /\ UNCHANGED <<dial, up, lists, loop, at, late, faults, abandoned>>

\* The command ends, or is killed, or the client is before it became one. What
\* was started inside it may outlive it, in its scope.
End(r) ==
    /\ Alive(r)
    /\ state' = [state EXCEPT ![r] = "ended"]
    /\ at' = [at EXCEPT ![r] = 0]
    /\ UNCHANGED <<dial, up, lists, loop, late, faults, abandoned>>

-----------------------------------------------------------------------------
(* A connection at the executor: run in queue.go.                          *)

Join(r) ==
    /\ up
    /\ state[r] = "asked"
    /\ state' = [state EXCEPT ![r] = "holding"]
    /\ waiting' = Append(waiting, Waiter(r))
    /\ UNCHANGED <<dial, up, verdicts, loop, at, late, faults, abandoned>>

\* A run that would wait for ever (Never, see HeavyMemory) is refused and its
\* client ends; one whose process cannot be told goes on without the queue.
TurnAway(r) ==
    /\ up
    /\ state[r] = "asked"
    /\ \/ /\ state' = [state EXCEPT ![r] = "ended"]
          /\ at' = [at EXCEPT ![r] = 0]
       \/ /\ state' = [state EXCEPT ![r] = "running"]
          /\ UNCHANGED at
    /\ UNCHANGED <<dial, up, lists, loop, late, faults, abandoned>>

\* The client of a waiting run went away: killed, or it gave the queue up.
Leave(i) ==
    /\ ~ Holds(waiting[i])
    /\ waiting' = SubSeq(waiting, 1, i - 1) \o SubSeq(waiting, i + 1, Len(waiting))
    /\ UNCHANGED <<clients, up, verdicts, loop, at, late, faults, abandoned>>

\* The verdict is written. The client becomes the command; one that went away
\* meanwhile hears nothing.
Deliver(v) ==
    /\ up
    /\ v \in verdicts
    /\ verdicts' = verdicts \ {v}
    /\ state' = IF Holds(v[1]) THEN [state EXCEPT ![v[1][1]] = "running"] ELSE state
    /\ UNCHANGED <<dial, up, waiting, loop, at, late, faults, abandoned>>

-----------------------------------------------------------------------------
(* keep: one pass after another, look and then let for each that goes.     *)

Measure ==
    /\ up
    /\ keep = "idle"
    /\ seen' = Going
    /\ keep' = "measured"
    /\ UNCHANGED <<clients, up, lists, leaving, call, seq, at, late, faults, abandoned>>

\* Mutant: the scopes going are not counted.
LookPastTheGoing(k) ==
    /\ keep = "measured"
    /\ k \in 0 .. Len(waiting)
    /\ k > 0 /\ Slots > 0 => k <= Slots
    /\ leaving' = SubSeq(waiting, 1, k)
    /\ waiting' = SubSeq(waiting, k + 1, Len(waiting))
    /\ keep' = IF k = 0 THEN "idle" ELSE "letting"
    /\ UNCHANGED <<clients, up, verdicts, seen, call, seq, at, late, faults, abandoned>>

\* Mutant: one run that fits is let go past those ahead of it.
LookPastTheHead(k) ==
    /\ keep = "measured"
    /\ k \in 0 .. Len(waiting)
    /\ k > 0 /\ Slots > 0 => Cardinality(seen) + 1 <= Slots
    /\ leaving' = IF k = 0 THEN <<>> ELSE <<waiting[k]>>
    /\ waiting' = SubSeq(waiting, 1, k - 1) \o SubSeq(waiting, k + 1, Len(waiting))
    /\ keep' = IF k = 0 THEN "idle" ELSE "letting"
    /\ UNCHANGED <<clients, up, verdicts, seen, call, seq, at, late, faults, abandoned>>

\* The first k of the queue go, as far as there are slots and the host allows.
\* A host that could not be read lets nobody go.
Look(k) ==
    /\ keep = "measured"
    /\ k \in 0 .. Len(waiting)
    /\ k > 0 /\ Slots > 0 => Cardinality(seen) + k <= Slots
    /\ leaving' = SubSeq(waiting, 1, k)
    /\ waiting' = SubSeq(waiting, k + 1, Len(waiting))
    /\ keep' = IF k = 0 THEN "idle" ELSE "letting"
    /\ UNCHANGED <<clients, up, verdicts, seen, call, seq, at, late, faults, abandoned>>

\* Mutant: the numbers start from one again and nobody looks at the scopes.
NextUnitBlind(n) == n = seq + 1

\* The next number no run going has, as far as the measure knows.
NextUnit(n) == /\ n \notin seen
               /\ \A m \in seq + 1 .. n - 1 : m \in seen

AskManager(n) ==
    /\ keep = "letting"
    /\ leaving # <<>>
    /\ NextUnit(n)
    /\ call' = [waiter |-> Head(leaving), unit |-> n, result |-> "asked"]
    /\ seq' = n
    /\ leaving' = Tail(leaving)
    /\ keep' = "calling"
    /\ UNCHANGED <<clients, up, lists, seen, at, late, faults, abandoned>>

\* Mutant: the verdict does not wait for the process to be in its unit.
LetAtOnce(verdict) ==
    /\ keep = "calling"
    /\ \/ verdict = "admitted"
       \/ verdict = "unheld" /\ call.result = "refused"
    /\ verdicts' = verdicts \union {<<call.waiter, verdict>>}
    /\ call' = NoCall
    /\ keep' = IF leaving = <<>> THEN "idle" ELSE "letting"
    /\ UNCHANGED <<clients, up, waiting, seen, leaving, seq, at, late, faults, abandoned>>

\* Mutant: one run a pass is let go, and the rest of the pass forgotten.
LetOne(verdict) ==
    /\ keep = "calling"
    /\ \/ verdict = "admitted" /\ call.result = "moved"
       \/ verdict = "unheld" /\ call.result = "refused"
    /\ verdicts' = verdicts \union {<<call.waiter, verdict>>}
    /\ call' = NoCall
    /\ keep' = "idle"
    /\ UNCHANGED <<clients, up, waiting, seen, leaving, seq, at, late, faults, abandoned>>

\* Start returned: the scope holds the process, or the manager would not
\* start it and the run goes on without one.
Let(verdict) ==
    /\ keep = "calling"
    /\ \/ verdict = "admitted" /\ call.result = "moved"
       \/ verdict = "unheld" /\ call.result = "refused"
    /\ verdicts' = verdicts \union {<<call.waiter, verdict>>}
    /\ call' = NoCall
    /\ keep' = IF leaving = <<>> THEN "idle" ELSE "letting"
    /\ UNCHANGED <<clients, up, waiting, seen, leaving, seq, at, late, faults, abandoned>>

\* The executor waits no more for what it asked of the manager.
Pending == keep = "calling" /\ call.result = "asked"

AbandonCall ==
    IF Pending
    THEN /\ abandoned' = abandoned + 1
         /\ late' = late \union {call}
    ELSE UNCHANGED <<abandoned, late>>

\* heavyStartWait is over before the process is in its unit: the run goes on
\* without the scope, and a call the manager has not handled yet stays with it.
StartTimesOut ==
    /\ keep = "calling"
    /\ call.result # "refused"
    /\ AbandonCall
    /\ IF Pending THEN faults < MaxFaults /\ faults' = faults + 1 ELSE UNCHANGED faults
    /\ verdicts' = verdicts \union {<<call.waiter, "unheld">>}
    /\ call' = NoCall
    /\ keep' = IF leaving = <<>> THEN "idle" ELSE "letting"
    /\ UNCHANGED <<clients, up, waiting, seen, leaving, seq, at>>

-----------------------------------------------------------------------------
(* The user's manager: StartTransientUnit with mode "fail".                *)

\* The process is moved into a unit of its own.
CanMove(c) == Alive(c.waiter[1]) /\ c.unit \notin Going
Moved(c) == at' = [at EXCEPT ![c.waiter[1]] = c.unit]

ManagerMoves ==
    /\ keep = "calling"
    /\ call.result = "asked"
    /\ CanMove(call)
    /\ Moved(call)
    /\ call' = [call EXCEPT !.result = "moved"]
    /\ UNCHANGED <<clients, up, lists, keep, seen, leaving, seq, late, faults, abandoned>>

ManagerRefuses ==
    /\ keep = "calling"
    /\ call.result = "asked"
    /\ call' = [call EXCEPT !.result = "refused"]
    /\ UNCHANGED <<clients, up, lists, keep, seen, leaving, seq, at, late, faults, abandoned>>

ManagerIsLate(c) ==
    /\ c \in late
    /\ late' = late \ {c}
    /\ \/ CanMove(c) /\ Moved(c)
       \/ UNCHANGED at
    /\ UNCHANGED <<clients, up, lists, loop, faults, abandoned>>

-----------------------------------------------------------------------------
(* The executor goes away and is started again.                            *)

GoAway ==
    /\ up
    /\ faults < MaxFaults
    /\ faults' = faults + 1
    /\ AbandonCall
    /\ up' = FALSE
    /\ state' = [r \in Runs |-> IF state[r] \in {"asked", "holding"} THEN "redialing" ELSE state[r]]
    /\ waiting' = <<>>
    /\ verdicts' = {}
    /\ keep' = "idle"
    /\ seen' = {}
    /\ leaving' = <<>>
    /\ call' = NoCall
    /\ seq' = 0
    /\ UNCHANGED <<dial, at>>

ComeBack ==
    /\ ~ up
    /\ up' = TRUE
    /\ UNCHANGED <<clients, lists, loop, at, late, faults, abandoned>>

-----------------------------------------------------------------------------

Client(r) == StartInside(r) \/ Ask(r) \/ Silence(r) \/ Redial(r) \/ GiveUp(r) \/ End(r)

Keep == \/ Measure
        \/ \E k \in 0 .. Len(waiting) : Look(k)
        \/ \E n \in seq + 1 .. seq + 1 + Cardinality(seen) : AskManager(n)
        \/ Let("admitted") \/ Let("unheld")
        \/ StartTimesOut

Connection == \/ \E r \in Runs : Join(r) \/ TurnAway(r)
              \/ \E i \in 1 .. Len(waiting) : Leave(i)
              \/ \E v \in verdicts : Deliver(v)

Manager == ManagerMoves \/ ManagerRefuses \/ \E c \in late : ManagerIsLate(c)

Next == \/ \E r \in Runs : Client(r)
        \/ Connection
        \/ Keep
        \/ Manager
        \/ GoAway
        \/ ComeBack

Spec == Init /\ [][Next]_vars

\* A command ends by itself once those started inside it have.
Finish(r) == /\ state[r] = "running"
             /\ \A c \in Inside(r) : ~ Alive(c)
             /\ End(r)

\* The goroutines run, the unit of the executor is started again by systemd,
\* the manager answers, and commands end. Of the host it is assumed that again
\* and again, when a slot is free, it has the memory for the head of the queue.
Fairness ==
    /\ WF_vars(Measure)
    /\ WF_vars(Look(0))
    /\ SF_vars(\E k \in 1 .. Len(waiting) : Look(k))
    /\ WF_vars(\E n \in seq + 1 .. seq + 1 + Cardinality(seen) : AskManager(n))
    /\ WF_vars(Let("admitted") \/ Let("unheld"))
    /\ WF_vars(ManagerMoves \/ ManagerRefuses)
    /\ WF_vars(ComeBack)
    /\ \A r \in Runs : /\ WF_vars(Join(r))
                       /\ WF_vars(Redial(r))
                       /\ WF_vars(Finish(r))
    /\ WF_vars(\E i \in 1 .. Len(waiting) : Leave(i))
    /\ WF_vars(\E v \in verdicts : Deliver(v))

FairSpec == Spec /\ Fairness

-----------------------------------------------------------------------------

\* No more runs go in scopes of their own than there are slots, whatever
\* executors came and went meanwhile: a restart does not lose the runs going
\* from the count. Only a call of the manager nobody waited for any more, and
\* which it handled late, can add one.
SlotsKept == Slots > 0 => Cardinality(Going) <= Slots + abandoned

\* The manager is never asked for a unit a run going has, though an executor
\* started anew numbers from one again: it would refuse, and the run would go
\* without a ceiling. Late calls excepted, as above.
UnitIsFree == Pending /\ abandoned = 0 => call.unit \notin Going

\* A client that is told it is held is: its process lives in a scope. One that
\* became the command outside of it would have no ceiling, and nobody would say.
AdmittedIsHeld == \A v \in verdicts : v[2] = "admitted" /\ Holds(v[1]) => at[v[1][1]] # 0

\* The queue is strictly in order: it implements the line of TurnQueue, whose
\* turns are the connections of the runs. A client makes one more of them only
\* after a fault. Whoever is taken off the queue and heard of again stood at
\* its head, and one taken off from further back has nobody holding it.
Holding == {Waiter(r) : r \in {s \in Runs : state[s] = "holding"}}
Called == {leaving[i] : i \in DOMAIN leaving} \union {v[1] : v \in verdicts}
              \union (IF keep = "calling" THEN {call.waiter} ELSE {})

Line == INSTANCE TurnQueue WITH line <- waiting, here <- Holding, called <- Called,
                                Turns <- Runs \X (1 .. MaxFaults + 1)
InOrder == Line!Spec

\* A run that waits for a slot it holds itself: it was moved into its scope and
\* not told, the executor having gone away in between; or it was started inside
\* a run that had no scope when it asked and was moved into one after.
WaitsForItself(r) == /\ Waits(r)
                     /\ at[r] # 0 \/ (r \in Nested /\ at[Parent[r]] # 0)

\* "The queue never stops a command from running" (ARCHITECTURE.md): a run that
\* asks goes, in a scope or without one, is refused, or is killed.
QueueNeverStopsARun == \A r \in Runs : Waits(r) ~> ~ Waits(r)

\* Nothing else stops one: a run is kept waiting for ever only where some run
\* for ever waits for itself.
OnlyItsOwnSlotStopsARun ==
    \A r \in Runs : <>[]Waits(r) => \E s \in Runs : <>[]WaitsForItself(s)

-----------------------------------------------------------------------------
(* What makes SlotsKept, UnitIsFree, AdmittedIsHeld and InOrder inductive. *)

\* Runs on their way to a scope of their own: asked of the manager, or to be.
OnTheWay == Len(leaving) + IF Pending THEN 1 ELSE 0

\* What a pass has let go still counts when it is not in a scope yet, and what
\* the measure of the pass did not see can only be a late call.
SlotsInv ==
    /\ IsFiniteSet(seen) /\ IsFiniteSet(late)
    /\ Cardinality(late) <= abandoned
    /\ keep = "measured" => Cardinality(Going) + Cardinality(late) <= Cardinality(seen) + abandoned
    /\ Slots > 0 => Cardinality(Going) + Cardinality(late) + OnTheWay <= Slots + abandoned

\* A unit that goes was seen by the measure or numbered in this pass.
UnitInv ==
    abandoned = 0 =>
        /\ keep # "idle" => Going \subseteq seen \union 1 .. seq
        /\ Pending => call.unit = seq /\ seq \notin Going

\* Once moved, a process leaves its scope only by its end.
Placed(r) == at[r] # 0 \/ state[r] = "ended"

HeldInv ==
    /\ keep = "calling" /\ call.result = "moved" => Placed(call.waiter[1])
    /\ \A v \in verdicts : v[2] = "admitted" => Placed(v[1][1])

\* A pass begins when all the last one took off the queue are let go.
PassInv == keep \in {"idle", "measured"} => leaving = <<>>

\* A connection is numbered when it is made, and joins the queue once.
TurnInv ==
    /\ \A i \in 1 .. Len(waiting) :
          LET r == waiting[i][1]
          IN  /\ waiting[i][2] <= dial[r]
              /\ state[r] = "asked" => waiting[i][2] < dial[r]
    /\ faults <= MaxFaults
    /\ \A r \in Runs :
          /\ dial[r] <= faults + 1
          /\ state[r] = "redialing" => dial[r] <= faults
          /\ state[r] = "new" => dial[r] = 0
          /\ state[r] \in {"asked", "holding"} => dial[r] > 0
=============================================================================
