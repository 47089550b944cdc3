---------------------------- MODULE CodexThread -----------------------------
(***************************************************************************)
(* One thread of the daemon of codex and the link of the executor to it:   *)
(* the messages sent to the thread and the queue of those that wait, the   *)
(* poll of the daemon, what keeps the link a client of the thread, a close *)
(* and a resume of it, and a restart of the daemon once it is idle.        *)
(*                                                                         *)
(* A procedure of the link that holds the lock `sub' is the record op: one *)
(* action takes the lock, one follows for each call to the daemon, and a   *)
(* call ends with an answer, with none, or is made after its caller gave   *)
(* it up.  The poll is a thread of control of its own that takes the same  *)
(* lock.  What is done under the short lock `mu' is one action.            *)
(***************************************************************************)
EXTENDS Integers, Sequences, FiniteSets

CONSTANTS
    Msgs,        \* the messages sent to the thread
    Answers,     \* those that may be sent as the answer to a question codex asked
    Bad,         \* those the daemon starts no turn with
    NoMsg,
    MaxEvents,   \* bound: orders of persons, turns and requests of others, faults
    MaxInputs    \* bound: those and the messages sent

ASSUME CodexAssumption ==
    /\ Answers \subseteq Msgs
    /\ Bad \subseteq Msgs
    /\ NoMsg \notin Msgs
    /\ MaxEvents \in Nat /\ MaxInputs \in Nat

VARIABLES
    \* the daemon
    loaded,      \* it has the thread loaded
    client,      \* the link is a client of the thread
    turn,        \* the turn in progress and who it is by: "panel" and "review" are
                 \* those the link knows it started, "other" any that takes
                 \* messages, "deaf" one that takes none
    began,       \* how many turns began
    listed,      \* the list of turns shows the turn in progress
    active,      \* the status of the thread says active
    asks,        \* the turn waits on a person's answer to a request
    late,        \* calls given up by their callers and not made yet
    \* the link, in memory
    up,          \* connected
    polled,      \* the threads of the connection have been read
    known,       \* the link lists the thread
    info,        \* what was last heard of it: [active, waits]
    subscribed, ours,
    anew,        \* seen since the last list of loaded threads
    closed,      \* {the turn the close interrupted} once closed, else {}
    activity,    \* the status the last round read, for a restart
    pending,     \* the request the link holds: "none", "old" or "new"
    \* the link, in memory and on the disk
    queue, held, closing,
    \* the threads of control
    op, poll,
    events,      \* how much of the bound is used
    \* what happened to the messages
    unsent, took, doubted,
    told         \* those whose sender knows that they do not go, or may not have gone

\* What a turn that begins or takes a message changes.
talk    == <<turn, began, listed, active, client, took, info, activity>>
memory  == <<up, polled, known, subscribed, ours, anew, closed, pending>>
disk    == <<queue, held, closing>>
rest    == <<loaded, asks, late>>
tale    == <<unsent, doubted, told>>
vars == <<talk, memory, disk, rest, op, poll, events, tale>>

NoTurn  == [id |-> 0, by |-> "nobody"]
NoOp    == [kind |-> "none", at |-> "none", msg |-> NoMsg, turn |-> 0, busy |-> FALSE]
AtRest  == [at |-> "rest", live |-> FALSE, active |-> FALSE, waits |-> FALSE, stopped |-> {}]
Unheard == [active |-> FALSE, waits |-> FALSE]

Among(m, s) == \E i \in DOMAIN s : s[i] = m
Without(s, i) == SubSeq(s, 1, i - 1) \o SubSeq(s, i + 1, Len(s))

Free == op.kind = "none"
Doing(kinds, at) == op.kind \in kinds /\ op.at = at
GoTo(at) == op' = [op EXCEPT !.at = at]

Room  == events + Cardinality(Msgs \ unsent) < MaxInputs
Event == events < MaxEvents /\ Room /\ events' = events + 1

----------------------------------------------------------------------------
\* A thread the panel started, which it holds and is a client of, or one of
\* a terminal, which it only sees.
Init ==
    /\ held \in BOOLEAN
    /\ loaded = TRUE /\ client = held
    /\ turn = NoTurn /\ began = 0
    /\ listed = FALSE /\ active = FALSE /\ asks = FALSE /\ late = {}
    /\ up = TRUE /\ polled = TRUE /\ known = TRUE /\ info = Unheard
    /\ subscribed = held /\ ours = FALSE /\ anew = FALSE /\ closed = {}
    /\ activity = "idle" /\ pending = "none"
    /\ queue = << >> /\ closing = FALSE
    /\ op = NoOp /\ poll = AtRest
    /\ events = 0
    /\ unsent = Msgs /\ took = << >> /\ doubted = {} /\ told = {}

----------------------------------------------------------------------------
(* The daemon *)

\* Mutant: the type of the status is taken over, and what it waits on is left.
HearsType(isClient, now) ==
    IF isClient /\ up
    THEN /\ info' = IF known THEN [info EXCEPT !.active = now] ELSE info
         /\ activity' = IF activity = "nil" THEN "nil" ELSE IF now THEN "active" ELSE "idle"
    ELSE UNCHANGED <<info, activity>>

\* The word of a new status reaches the clients of the thread alone.
Hears(isClient, now) ==
    IF isClient /\ up
    THEN /\ info' = IF known THEN [active |-> now, waits |-> info.waits /\ now] ELSE info
         /\ activity' = IF activity = "nil" THEN "nil" ELSE IF now THEN "active" ELSE "idle"
    ELSE UNCHANGED <<info, activity>>

\* A turn begins.  The call that starts it is answered before the thread
\* turns active, or before the list of turns shows it.
Begins(who, isClient) ==
    /\ turn' = [id |-> began + 1, by |-> who]
    /\ began' = began + 1
    /\ \/ listed' = TRUE /\ active' = FALSE /\ UNCHANGED <<info, activity>>
       \/ listed' = FALSE /\ active' = TRUE /\ Hears(isClient, TRUE)

TurnShows ==
    /\ turn # NoTurn /\ ~(listed /\ active)
    /\ listed' = TRUE /\ active' = TRUE /\ Hears(client, TRUE)
    /\ UNCHANGED <<turn, began, client, took, memory, disk, rest, op, poll, events, tale>>

Ends ==
    /\ turn' = NoTurn /\ listed' = FALSE /\ active' = FALSE /\ asks' = FALSE
    /\ Hears(client, FALSE)

TurnEnds ==
    /\ turn # NoTurn /\ ~asks
    /\ Ends
    /\ UNCHANGED <<began, client, took, memory, disk, loaded, late, op, poll, events, tale>>

\* Another client of the daemon starts a turn, or a compaction, which takes no
\* message, is started; the panel starts one without the lock.
OtherTurn(who) ==
    /\ Event
    /\ loaded /\ turn = NoTurn
    /\ Begins(who, client)
    /\ UNCHANGED <<client, took, memory, disk, rest, op, poll, tale>>

\* The turn asks a person for something: its clients are sent the request.
Ask ==
    /\ Event
    /\ turn.by \in {"panel", "other"} /\ listed /\ active /\ ~asks
    /\ asks' = TRUE
    /\ pending' = IF client /\ up THEN "new" ELSE pending
    /\ UNCHANGED <<talk, up, polled, known, subscribed, ours, anew, closed, disk, loaded, late, op, poll, tale>>

\* A person answers it, in the panel or in a terminal.
Answered ==
    /\ asks /\ asks' = FALSE
    /\ IF client /\ up
       THEN pending' = "none" /\ info' = [info EXCEPT !.waits = FALSE]
       ELSE UNCHANGED <<pending, info>>
    /\ UNCHANGED <<turn, began, listed, active, client, took, activity, up, polled, known, subscribed, ours,
                   anew, closed, disk, loaded, late, op, poll, events, tale>>

\* A while after its last client leaves.
Unload ==
    /\ loaded /\ ~client /\ turn = NoTurn
    /\ loaded' = FALSE
    /\ UNCHANGED <<talk, memory, disk, asks, late, op, poll, events, tale>>

\* What carries a message: turn/start, which makes the caller a client of the
\* thread unless it goes into a turn that runs, and turn/steer, which goes
\* into the turn it names or nowhere.
TakesIt(call, m, id) ==
    IF call = "start" THEN loaded /\ m \notin Bad
                      ELSE turn.id = id /\ turn.by \in {"panel", "other"}

Effect(call, m, who) ==
    /\ took' = Append(took, m)
    /\ IF call = "start" /\ turn = NoTurn
       THEN client' = TRUE /\ Begins(who, TRUE)
       ELSE UNCHANGED <<turn, began, listed, active, client, info, activity>>

\* A call its caller gave up is made after all.
MadeLate(call) ==
    /\ call \in late /\ late' = late \ {call}
    /\ IF TakesIt(call.what, call.msg, call.turn)
       THEN Effect(call.what, call.msg, "other")
       ELSE UNCHANGED talk
    /\ UNCHANGED <<memory, disk, loaded, asks, op, poll, events, tale>>

----------------------------------------------------------------------------
(* A message: Send, Answer, and drain, which gives the oldest of the queue *)

Carriers == {"send", "answer", "drain"}

\* An order that ends without carrying its message says so to who gave it.
Told == told \cup (IF op.kind \in {"send", "answer"} THEN {op.msg} ELSE {})

\* The poll goes on once its own procedure ends.
Ended ==
    /\ op' = NoOp
    /\ poll' = CASE op.kind = "drain"  -> [poll EXCEPT !.at = "drop"]
                 [] op.kind = "keep"   -> [poll EXCEPT !.at = "drain"]
                 [] op.kind = "finish" -> [poll EXCEPT !.at = "seen"]
                 [] OTHER -> poll

Send(m) ==
    /\ up /\ m \in unsent /\ Room /\ unsent' = unsent \ {m}
    /\ Free
    /\ IF queue # << >>
       THEN queue' = Append(queue, m) /\ UNCHANGED op
       ELSE op' = [NoOp EXCEPT !.kind = "send", !.at = "status", !.msg = m] /\ UNCHANGED queue
    /\ UNCHANGED <<talk, memory, held, closing, rest, poll, events, doubted, told>>

Answer(m) ==
    /\ up /\ m \in unsent \cap Answers /\ Room /\ unsent' = unsent \ {m}
    /\ Free /\ op' = [NoOp EXCEPT !.kind = "answer", !.at = "status", !.msg = m]
    /\ UNCHANGED <<talk, memory, disk, rest, poll, events, doubted, told>>

Unqueue(m) ==
    /\ Free
    /\ \E i \in DOMAIN queue : queue[i] = m /\ queue' = Without(queue, i)
    /\ told' = told \cup {m}
    /\ UNCHANGED <<talk, memory, held, closing, rest, op, poll, events, unsent, doubted>>

Drain ==
    /\ poll.at = "drain" /\ Free
    /\ IF closing \/ queue = << >>
       THEN poll' = [poll EXCEPT !.at = "drop"] /\ UNCHANGED op
       ELSE /\ op' = [NoOp EXCEPT !.kind = "drain", !.at = "status", !.msg = Head(queue)]
            /\ UNCHANGED poll
    /\ UNCHANGED <<talk, memory, disk, rest, events, tale>>

\* The thread is looked at in two calls: its status first, then its turn.
LookStatus ==
    /\ Doing(Carriers \cup {"review"}, "status") /\ up
    /\ op' = [op EXCEPT !.at = "turns", !.busy = active]
    /\ UNCHANGED <<talk, memory, disk, rest, poll, events, tale>>

ListedTurn == IF listed THEN turn.id ELSE 0

\* Mutant: the oldest of the queue is given up like one the daemon refuses.
BusyDrops ==
    /\ queue' = CASE op.kind = "send"  -> Append(queue, op.msg)
                  [] op.kind = "drain" -> Tail(queue)
                  [] OTHER -> queue
    /\ told' = IF op.kind = "answer" THEN Told ELSE told
    /\ Ended

\* The turn that runs does not take the message: one sent waits, an answer is
\* refused, and the oldest of the queue stays there.
Busy ==
    /\ queue' = IF op.kind = "send" THEN Append(queue, op.msg) ELSE queue
    /\ told' = IF op.kind = "answer" THEN Told ELSE told
    /\ Ended

LookTurns ==
    /\ Doing(Carriers, "turns") /\ up
    /\ IF ListedTurn = 0 /\ op.busy
       THEN Busy
       ELSE /\ op' = [op EXCEPT !.turn = ListedTurn, !.at = IF ListedTurn = 0 THEN "start" ELSE "steer"]
            /\ UNCHANGED <<queue, told, poll>>
    /\ UNCHANGED <<talk, memory, held, closing, rest, events, unsent, doubted>>

\* The message went, or was refused; of the queue it has yet to be removed.
Went(at) == IF op.kind = "drain" THEN GoTo(at) /\ UNCHANGED poll ELSE Ended

Steer ==
    /\ Doing(Carriers, "steer") /\ up
    /\ IF TakesIt("steer", op.msg, op.turn)
       THEN Effect("steer", op.msg, "panel") /\ Went("remove")
       ELSE GoTo("again") /\ UNCHANGED <<talk, poll>>
    /\ UNCHANGED <<memory, disk, rest, events, tale>>

LookAgain ==
    /\ Doing(Carriers, "again") /\ up
    /\ IF ListedTurn # 0 THEN Busy ELSE GoTo("start") /\ UNCHANGED <<queue, told, poll>>
    /\ UNCHANGED <<talk, memory, held, closing, rest, events, unsent, doubted>>

\* A start the daemon refuses: the sender is told, or the message is dropped.
StartTurn ==
    /\ Doing(Carriers, "start") /\ up
    /\ IF TakesIt("start", op.msg, 0)
       THEN /\ Effect("start", op.msg, IF known THEN "panel" ELSE "other")
            /\ ours' = (ours \/ known) /\ subscribed' = (subscribed \/ known)
            /\ Went("remove") /\ UNCHANGED told
       ELSE /\ UNCHANGED <<talk, ours, subscribed>>
            /\ Went("refused") /\ told' = Told
    /\ UNCHANGED <<up, polled, known, anew, closed, pending, disk, rest, events, unsent, doubted>>

\* A message delivered or dropped leaves the queue, in memory and on the disk.
DrainRemove ==
    /\ op.kind = "drain" /\ op.at \in {"remove", "refused"}
    /\ queue' = Tail(queue)
    /\ IF Tail(queue) = << >>
       THEN Ended
       ELSE /\ op' = [NoOp EXCEPT !.kind = "drain", !.at = "status", !.msg = Head(Tail(queue))]
            /\ UNCHANGED poll
    /\ UNCHANGED <<talk, memory, held, closing, rest, events, tale>>

\* The call that carries the message gets no answer in time: it is made later,
\* never, or was made.
Unanswered ==
    /\ op.kind \in Carriers /\ op.at \in {"start", "steer"}
    /\ Event /\ Ended
    /\ doubted' = doubted \cup {op.msg} /\ told' = Told
    /\ \/ late' = late \cup {[what |-> op.at, msg |-> op.msg, turn |-> op.turn]} /\ UNCHANGED talk
       \/ UNCHANGED <<late, talk>>
       \/ TakesIt(op.at, op.msg, op.turn) /\ Effect(op.at, op.msg, "other") /\ UNCHANGED late
    /\ UNCHANGED <<memory, disk, loaded, asks, unsent>>

----------------------------------------------------------------------------
(* What keeps the link a client of the thread *)

\* Mutant: a link that is a client is not joined again, whatever the thread waits on.
KeepTrusting ==
    /\ poll.at = "keep" /\ Free
    /\ LET needed == info.active \/ pending # "none" \/ queue # << >>
           joins == ~subscribed /\ (held \/ (needed /\ (ours \/ pending # "none" \/ queue # << >>)))
           leaves == ~held /\ ~needed
           starts(at) == op' = [NoOp EXCEPT !.kind = "keep", !.at = at, !.busy = ours] /\ UNCHANGED <<poll, ours>>
       IN CASE known /\ joins -> starts("join")
            [] known /\ leaves /\ subscribed -> starts("reread")
            [] OTHER -> /\ poll' = [poll EXCEPT !.at = "drain"] /\ UNCHANGED op
                        /\ ours' = (ours /\ ~(known /\ leaves))
    /\ UNCHANGED <<talk, up, polled, known, subscribed, anew, closed, pending, disk, rest, events, tale>>

Keep ==
    /\ poll.at = "keep" /\ Free
    /\ LET asking == pending # "none"
           needed == info.active \/ asking \/ queue # << >>
           joins == IF held THEN ~subscribed \/ (info.waits /\ ~asking)
                    ELSE needed /\ ((info.waits /\ ~asking) \/ (~subscribed /\ (ours \/ asking \/ queue # << >>)))
           leaves == ~held /\ ~needed
           starts(at) == op' = [NoOp EXCEPT !.kind = "keep", !.at = at, !.busy = ours] /\ UNCHANGED <<poll, ours>>
       IN CASE known /\ joins -> starts("join")
            [] known /\ leaves /\ subscribed -> starts("reread")
            [] OTHER -> /\ poll' = [poll EXCEPT !.at = "drain"] /\ UNCHANGED op
                        /\ ours' = (ours /\ ~(known /\ leaves))
    /\ UNCHANGED <<talk, up, polled, known, subscribed, anew, closed, pending, disk, rest, events, tale>>

\* Mutant: the status alone is asked.
KeepRereadStatus ==
    /\ Doing({"keep"}, "reread") /\ up
    /\ IF active THEN Ended ELSE GoTo("leave") /\ UNCHANGED poll
    /\ UNCHANGED <<talk, memory, disk, rest, events, tale>>

\* Mutant: a thread the panel started a turn in is not asked what it runs, and stays.
KeepRereadOurs ==
    /\ Doing({"keep"}, "reread") /\ up
    /\ IF active \/ op.busy THEN Ended ELSE GoTo("leave") /\ UNCHANGED poll
    /\ UNCHANGED <<talk, memory, disk, rest, events, tale>>

\* The thread is asked again before the link leaves it: its status, and, once
\* the panel has started a turn, what it runs.
KeepReread ==
    /\ Doing({"keep"}, "reread") /\ up
    /\ IF active THEN Ended
       ELSE GoTo(IF op.busy THEN "running" ELSE "leave") /\ UNCHANGED poll
    /\ UNCHANGED <<talk, memory, disk, rest, events, tale>>

KeepRunning ==
    /\ Doing({"keep"}, "running") /\ up
    /\ IF ListedTurn # 0 THEN Ended ELSE GoTo("leave") /\ UNCHANGED poll
    /\ UNCHANGED <<talk, memory, disk, rest, events, tale>>

\* A failure to list the turns reads as none that runs.
KeepRunningFails ==
    /\ Doing({"keep"}, "running") /\ Event
    /\ GoTo("blind")
    /\ UNCHANGED <<talk, memory, disk, rest, poll, tale>>

\* A turn of the panel's that runs on in a thread it let go or forgot.
GivenUp(t) == [t EXCEPT !.by = CASE t.by = "panel" -> "other" [] t.by = "review" -> "deaf" [] OTHER -> t.by]

KeepLeave ==
    /\ op.kind = "keep" /\ op.at \in {"leave", "blind"} /\ up
    /\ client' = FALSE /\ subscribed' = FALSE /\ ours' = FALSE
    /\ turn' = IF op.at = "blind" THEN GivenUp(turn) ELSE turn
    /\ Ended
    /\ UNCHANGED <<began, listed, active, took, info, activity, up, polled, known, anew, closed, pending,
                   disk, rest, events, tale>>

\* A resume of a loaded thread makes the caller its client and brings the
\* request it waits on.
Joins == client' = TRUE /\ pending' = IF asks THEN "new" ELSE pending

KeepJoin ==
    /\ Doing({"keep"}, "join") /\ up
    /\ Joins /\ loaded' = TRUE /\ subscribed' = known
    /\ Ended
    /\ UNCHANGED <<turn, began, listed, active, took, info, activity, up, polled, known, ours, anew, closed,
                   disk, asks, late, events, tale>>

----------------------------------------------------------------------------
(* Orders of a person *)

\* What the link knows of a thread goes with it.
Removed ==
    /\ known' = FALSE /\ subscribed' = FALSE /\ ours' = FALSE /\ pending' = "none" /\ info' = Unheard

Begin(kind, at) == Free /\ up /\ Event /\ op' = [NoOp EXCEPT !.kind = kind, !.at = at]

OrderGiven ==
    /\ \/ known /\ (Begin("close", "status") \/ Begin("review", "status"))
       \/ Begin("resume", "join")
    /\ UNCHANGED <<talk, memory, disk, rest, poll, tale>>

\* The mark of a thread to close after its turn.
CloseAfterTurn ==
    /\ Free /\ Event /\ known /\ closing' = TRUE
    /\ UNCHANGED <<talk, memory, queue, held, rest, op, poll, tale>>

\* Close interrupts the turn only if the thread says active.
CloseStatus ==
    /\ Doing({"close"}, "status") /\ up
    /\ IF active THEN GoTo("turns") /\ UNCHANGED held ELSE GoTo("leave") /\ held' = FALSE
    /\ UNCHANGED <<talk, memory, queue, closing, rest, poll, events, tale>>

CloseTurns ==
    /\ Doing({"close"}, "turns") /\ up
    /\ op' = [op EXCEPT !.turn = ListedTurn, !.at = IF listed THEN "interrupt" ELSE "leave"]
    /\ held' = (held /\ listed)
    /\ UNCHANGED <<talk, memory, queue, closing, rest, poll, events, tale>>

\* A turn over meanwhile cannot be interrupted, and the close is refused.
CloseInterrupt ==
    /\ Doing({"close"}, "interrupt") /\ up
    /\ IF turn.id = op.turn
       THEN Ends /\ GoTo("leave") /\ held' = FALSE /\ UNCHANGED <<began, client, took>>
       ELSE op' = NoOp /\ UNCHANGED <<talk, asks, held>>
    /\ UNCHANGED <<memory, queue, closing, loaded, late, poll, events, tale>>

\* finishClose closes only a thread that is idle and runs no turn.
FinishStatus ==
    /\ Doing({"finish"}, "status") /\ up
    /\ IF active THEN Ended ELSE GoTo("turns") /\ UNCHANGED poll
    /\ UNCHANGED <<talk, memory, disk, rest, events, tale>>

FinishTurns ==
    /\ Doing({"finish"}, "turns") /\ up
    /\ IF listed THEN Ended ELSE GoTo("leave") /\ UNCHANGED poll
    /\ UNCHANGED <<talk, memory, disk, rest, events, tale>>

\* The thread is let go, and what waits for it goes with it.
CloseLeave ==
    /\ Doing({"close", "finish"}, "leave") /\ up
    /\ client' = FALSE /\ Removed
    /\ closed' = {op.turn} /\ queue' = << >> /\ held' = FALSE /\ closing' = FALSE
    /\ turn' = GivenUp(turn)
    /\ op' = NoOp
    /\ poll' = IF op.kind = "finish" THEN [poll EXCEPT !.at = "drop"] ELSE poll
    /\ UNCHANGED <<began, listed, active, took, activity, up, polled, anew, rest, events, tale>>

ResumeJoin ==
    /\ Doing({"resume"}, "join") /\ up
    /\ client' = TRUE /\ loaded' = TRUE /\ held' = TRUE /\ subscribed' = TRUE
    /\ closed' = {} /\ closing' = FALSE
    /\ known' = TRUE /\ anew' = TRUE
    /\ info' = [active |-> active, waits |-> asks]
    /\ pending' = IF asks THEN "new" ELSE IF active THEN pending ELSE "none"
    /\ op' = NoOp
    /\ UNCHANGED <<turn, began, listed, active, took, activity, up, polled, ours, queue, asks, late, poll,
                   events, tale>>

ReviewTurns ==
    /\ Doing({"review"}, "turns") /\ up
    /\ IF listed \/ op.busy THEN op' = NoOp ELSE GoTo("review")
    /\ UNCHANGED <<talk, memory, disk, rest, poll, events, tale>>

StartReview ==
    /\ Doing({"review"}, "review") /\ up
    /\ IF loaded /\ turn = NoTurn
       THEN /\ Begins(IF known THEN "review" ELSE "deaf", TRUE) /\ client' = TRUE
            /\ ours' = (ours \/ known) /\ subscribed' = (subscribed \/ known)
       ELSE UNCHANGED <<turn, began, listed, active, client, info, activity, ours, subscribed>>
    /\ op' = NoOp
    /\ UNCHANGED <<took, up, polled, known, anew, closed, pending, disk, rest, poll, events, tale>>

\* A call of another kind gets no answer, and its procedure ends with it; a
\* call that leaves or joins the thread, or starts a review, may have been made.
CallFails ==
    /\ \/ op.kind \in Carriers /\ op.at \in {"status", "turns", "again"}
       \/ op.kind \notin Carriers \cup {"none"} /\ op.at # "running"
    /\ Event /\ Ended /\ told' = Told
    /\ \/ UNCHANGED <<talk, loaded, pending>>
       \/ /\ op.at \in {"leave", "blind"} /\ client' = FALSE
          /\ UNCHANGED <<turn, began, listed, active, took, info, activity, loaded, pending>>
       \/ /\ op.at = "join" /\ Joins /\ loaded' = TRUE
          /\ UNCHANGED <<turn, began, listed, active, took, info, activity>>
       \/ /\ op.at = "review" /\ loaded /\ turn = NoTurn
          /\ Begins("deaf", TRUE) /\ client' = TRUE
          /\ UNCHANGED <<took, loaded, pending>>
    /\ UNCHANGED <<up, polled, known, subscribed, ours, anew, closed, disk, asks, late, unsent, doubted>>

----------------------------------------------------------------------------
(* The poll *)

\* Mutant: what waits for a thread that is gone is kept.
PollListKeeps ==
    /\ poll.at = "rest" /\ up /\ Free
    /\ anew' = FALSE
    /\ IF loaded
       THEN /\ activity' = "unread" /\ poll' = [AtRest EXCEPT !.at = "read"]
            /\ UNCHANGED <<closed, held>>
       ELSE /\ activity' = "gone" /\ poll' = [AtRest EXCEPT !.at = "drop"]
            /\ closed' = {} /\ held' = FALSE
    /\ UNCHANGED <<turn, began, listed, active, client, took, info, up, polled, known, subscribed, ours,
                   pending, queue, closing, rest, op, events, tale>>

\* The list of loaded threads: what the link kept of one the daemon has let
\* go is forgotten.
PollList ==
    /\ poll.at = "rest" /\ up /\ Free
    /\ anew' = FALSE
    /\ IF loaded
       THEN /\ activity' = "unread" /\ poll' = [AtRest EXCEPT !.at = "read"]
            /\ UNCHANGED <<closed, held, queue>>
       ELSE /\ activity' = "gone" /\ poll' = [AtRest EXCEPT !.at = "drop"]
            /\ closed' = {} /\ held' = FALSE /\ queue' = << >>
    /\ UNCHANGED <<turn, began, listed, active, client, took, info, up, polled, known, subscribed, ours,
                   pending, closing, rest, op, events, tale>>

PollRead ==
    /\ poll.at = "read" /\ up
    /\ activity' = IF active THEN "active" ELSE "idle"
    /\ pending' = IF pending = "new" THEN "old" ELSE pending
    /\ poll' = [poll EXCEPT !.active = active, !.waits = asks, !.at = IF loaded THEN "letgo" ELSE "drop"]
    /\ UNCHANGED <<turn, began, listed, active, client, took, info, up, polled, known, subscribed, ours,
                   anew, closed, disk, rest, op, events, tale>>

\* A thread that is not read is passed over for the round.
PollReadFails ==
    /\ poll.at \in {"read", "running"} /\ up /\ Event
    /\ poll' = [poll EXCEPT !.at = "drop"]
    /\ UNCHANGED <<talk, memory, disk, rest, op, tale>>

\* A thread the panel closed stays out, unless a turn runs in it.
LetGo ==
    /\ poll.at = "letgo"
    /\ poll' = [poll EXCEPT !.stopped = closed,
                            !.at = IF closed = {} THEN (IF closing THEN "finish" ELSE "seen")
                                   ELSE IF poll.active THEN "running" ELSE "drop"]
    /\ UNCHANGED <<talk, memory, disk, rest, op, events, tale>>

\* It is back with a turn that is not the one the close interrupted.
BackAgain ==
    /\ poll.at = "running" /\ up
    /\ LET back == listed /\ turn.id \notin poll.stopped
       IN /\ closed' = IF back THEN {} ELSE closed
          /\ poll' = [poll EXCEPT !.at = IF ~back THEN "drop" ELSE IF closing THEN "finish" ELSE "seen"]
    /\ UNCHANGED <<talk, up, polled, known, subscribed, ours, anew, pending, disk, rest, op, events, tale>>

FinishClose ==
    /\ poll.at = "finish" /\ Free /\ up
    /\ op' = [NoOp EXCEPT !.kind = "finish", !.at = "status"]
    /\ UNCHANGED <<talk, memory, disk, rest, poll, events, tale>>

Seen ==
    /\ poll.at = "seen"
    /\ IF closed # {}
       THEN poll' = [poll EXCEPT !.at = "drop"] /\ UNCHANGED <<known, anew, info, pending>>
       ELSE /\ known' = TRUE /\ anew' = TRUE
            /\ info' = [active |-> poll.active, waits |-> poll.waits]
            /\ pending' = IF pending = "old" /\ ~poll.active THEN "none" ELSE pending
            /\ poll' = [poll EXCEPT !.at = "keep", !.live = TRUE]
    /\ UNCHANGED <<turn, began, listed, active, client, took, activity, up, polled, subscribed, ours, closed,
                   disk, rest, op, events, tale>>

Drop ==
    /\ poll.at = "drop"
    /\ poll' = AtRest /\ polled' = TRUE
    /\ IF ~poll.live /\ ~anew
       THEN Removed /\ turn' = GivenUp(turn)
       ELSE UNCHANGED <<known, subscribed, ours, pending, info, turn>>
    /\ UNCHANGED <<began, listed, active, client, took, activity, up, anew, closed, disk, rest, op,
                   events, tale>>

----------------------------------------------------------------------------
(* Connections, falls, and a restart of the daemon *)

\* The connection is gone, and what the link knew with it.
Forget ==
    /\ up' = FALSE /\ client' = FALSE /\ late' = {}
    /\ Removed /\ polled' = FALSE /\ activity' = "nil"
    /\ poll' = AtRest /\ op' = NoOp

\* A turn that began and has not shown yet is one the link cannot know of.
LostSight == turn' = IF listed /\ active THEN turn ELSE GivenUp(turn)

ConnectionDrops ==
    /\ up /\ op.at \notin {"remove", "refused"} /\ Event
    /\ Forget /\ LostSight /\ told' = Told
    /\ UNCHANGED <<began, listed, active, took, anew, closed, disk, loaded, asks, unsent, doubted>>

\* The link dials again: at the next round, or at once when it is asked to.
Connect ==
    /\ ~up /\ up' = TRUE
    /\ UNCHANGED <<talk, polled, known, subscribed, ours, anew, closed, pending, disk, rest, op, poll, events, tale>>

\* The executor falls and is started again: its disk is left.
ExecutorFalls ==
    /\ Event /\ Forget /\ LostSight /\ closed' = {} /\ anew' = FALSE
    /\ doubted' = doubted \cup (IF op.at = "remove" THEN {op.msg} ELSE {}) /\ told' = Told
    /\ UNCHANGED <<began, listed, active, took, disk, loaded, asks, unsent>>

\* Mutant: the status alone says what runs.
RunningByStatus == activity = "active"

\* What RestartIdle counts as running, and whether it knows.
RunningTurns == activity = "active" \/ (known /\ ours)

Certain == up /\ polled /\ activity \notin {"nil", "unread"}

\* The daemon is restarted under the lock, which keeps the panel's own starts out.
RestartIdle ==
    /\ Free /\ Event
    /\ Certain /\ ~RunningTurns
    /\ Forget
    /\ turn' = NoTurn /\ listed' = FALSE /\ active' = FALSE /\ asks' = FALSE /\ loaded' = FALSE
    /\ UNCHANGED <<began, took, anew, closed, disk, tale>>

----------------------------------------------------------------------------
Deliver == LookStatus \/ LookTurns \/ Steer \/ LookAgain \/ StartTurn \/ DrainRemove
CloseOf == CloseStatus \/ CloseTurns \/ CloseInterrupt \/ FinishStatus \/ FinishTurns \/ CloseLeave
Procedure == \/ Deliver \/ CloseOf \/ KeepReread \/ KeepRunning \/ KeepLeave \/ KeepJoin
             \/ ResumeJoin \/ ReviewTurns \/ StartReview
Poll == PollList \/ PollRead \/ LetGo \/ BackAgain \/ FinishClose \/ Seen \/ Keep \/ Drain \/ Drop

Next ==
    \/ TurnShows \/ TurnEnds \/ Ask \/ Answered \/ Unload
    \/ \E who \in {"other", "deaf"} : OtherTurn(who)
    \/ \E call \in late : MadeLate(call)
    \/ \E m \in Msgs : Send(m) \/ Answer(m) \/ Unqueue(m)
    \/ OrderGiven \/ CloseAfterTurn \/ Procedure \/ Poll
    \/ Unanswered \/ CallFails \/ KeepRunningFails \/ PollReadFails
    \/ ConnectionDrops \/ Connect \/ ExecutorFalls \/ RestartIdle

Spec == Init /\ [][Next]_vars

\* A turn shows and ends; the link answers its calls, polls every two seconds
\* and dials every ten.
Fairness == WF_vars(TurnShows) /\ WF_vars(TurnEnds) /\ WF_vars(Procedure) /\ WF_vars(Poll) /\ WF_vars(Connect)
FairSpec == Spec /\ Fairness

----------------------------------------------------------------------------
Kinds  == Carriers \cup {"none", "keep", "close", "finish", "resume", "review"}
Places == {"none", "status", "turns", "steer", "again", "start", "remove", "refused",
           "reread", "running", "leave", "blind", "join", "interrupt", "review"}

\* The values of the variables; a procedure over keeps nothing of its message,
\* and the link takes no thread to wait on a person that it knows to be idle.
TypeOK ==
    /\ loaded \in BOOLEAN /\ client \in BOOLEAN /\ listed \in BOOLEAN /\ active \in BOOLEAN /\ asks \in BOOLEAN
    /\ up \in BOOLEAN /\ polled \in BOOLEAN /\ known \in BOOLEAN /\ subscribed \in BOOLEAN /\ ours \in BOOLEAN
    /\ anew \in BOOLEAN /\ held \in BOOLEAN /\ closing \in BOOLEAN
    /\ turn \in [id : Nat, by : {"nobody", "panel", "review", "other", "deaf"}]
    /\ began \in Nat
    /\ late \subseteq [what : {"start", "steer"}, msg : Msgs, turn : Nat]
    /\ info \in [active : BOOLEAN, waits : BOOLEAN] /\ (info.waits => info.active)
    /\ closed \subseteq Nat
    /\ activity \in {"nil", "gone", "unread", "active", "idle"}
    /\ pending \in {"none", "old", "new"}
    /\ queue \in Seq(Msgs) /\ took \in Seq(Msgs)
    /\ op \in [kind : Kinds, at : Places, msg : Msgs \cup {NoMsg}, turn : Nat, busy : BOOLEAN]
    /\ op.msg \in (IF op.kind \in Carriers THEN Msgs ELSE {NoMsg})
    /\ poll \in [at : {"rest", "read", "letgo", "running", "finish", "seen", "keep", "drain", "drop"},
                  live : BOOLEAN, active : BOOLEAN, waits : BOOLEAN, stopped : SUBSET Nat]
    /\ events \in 0 .. MaxEvents
    /\ unsent \subseteq Msgs /\ doubted \subseteq Msgs /\ told \subseteq Msgs

\* A message delivered and not removed yet waits no more.
Line == IF op.at = "remove" THEN Tail(queue) ELSE queue
\* A message on its way for the first time waits nowhere.
Fresh == unsent \cup (IF op.kind \in {"send", "answer"} THEN {op.msg} ELSE {})

Mailbox == INSTANCE CodexMailbox WITH fresh <- Fresh, waiting <- Line, taken <- took, shut <- closed # {}

\* The queue, the way past it and what is made late are the mailbox: no message
\* overtakes one that waits, and none is taken twice but one of whose delivery
\* nobody learned the end.  None is lost without a word to its sender but one
\* the daemon starts no turn with, and those of a thread that is closed or that
\* the daemon has let go: not one that meets a turn which takes none, nor one
\* that waits when a round of the poll, a call or the connection fails.
MessagesKept == Mailbox!Spec

\* drain brings what waits to the thread: a message leaves the queue, whatever
\* turns run, unless the thread was closed or is to close after a turn that
\* waits on a person.
QueuedGoes == \A m \in Msgs : Among(m, queue) ~> (~Among(m, queue) \/ closed # {} \/ (closing /\ asks))

\* A request a turn waits on comes to the link, whoever started the turn and
\* wherever the link was when it was made: keep joins the thread for it.
AskReaches == asks ~> (pending # "none" \/ ~asks \/ closed # {})

\* keep does not leave a thread while a turn of the panel's runs in it, as long
\* as the turns of the thread could be listed: the approval it asks for would
\* reach nobody.
StaysOnItsTurn == [][KeepLeave /\ op.at = "leave" => turn.by \notin {"panel", "review"}]_vars

\* A restart of an idle daemon ends no turn of the panel's in a thread it has
\* not closed or lost sight of, as it loses that of a turn which has not shown
\* yet when the connection goes.
SparesItsTurns == [][RestartIdle => turn.by \notin {"panel", "review"}]_vars

\* A thread the panel does not hold is left in the end, or the daemon would
\* keep it loaded for good.
ThreadIsLeft == subscribed ~> (~client \/ ~known \/ held \/ asks)
=============================================================================
