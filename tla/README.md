# aacpanel in TLA+

TLA+ models of the parts of [aacpanel](../src/README.md) that keep state across
processes, restarts and other people's clocks: what each promises, checked by
TLC on small instances and, where a proof is within reach, proved with TLAPS for
every instance. Paths below are under `src/internal/` unless they begin with
`src/`.

    tlc -workers 2 -config HeavyQueue.cfg MCHeavyQueue.tla     # one run
    tlapm HeavyQueueProofs.tla                                 # the proofs of one module

`PROJECT.json` has the list of runs, and for every definition the lines of the
source it stands for.

## The system

Three long-lived processes on one host (`src/ARCHITECTURE.md`, "Three
processes"), and the short-lived ones they talk to:

- **the service** (`src/cmd/aacpanel`, in a container): HTTP, the store in
  PostgreSQL, live updates to browsers. It does nothing on the host itself.
- **the agent** (`src/agent`, python): reads process tables and transcripts and
  hands snapshots to the service.
- **the executor** (`src/cmd/aacpanel-exec`): the only one that acts. It takes
  actions over a unix socket (`action/`), each with an id and a result kept for
  its retries; it keeps the queue of heavy runs (`heavy/`), the observers and
  alarms of the sessions (`observer/`) and a link to the daemon of each codex
  home (`codex/`).
- **a holder** for each session on the stream (`aacpanel-exec -hold`,
  `stream/`): the one process that writes to claude's input and reads its output.
- claude, codex, tmux, PostgreSQL and systemd (the user's manager): outside.

| Part | State it keeps | Operations | What is hard |
|---|---|---|---|
| Queue of heavy runs (`heavy/`, `executor/heavy.go`) | the line of waiting clients and the number of the last scope, in memory; the runs going live in scopes of systemd | join, leave, measure, admit, start a scope, verdict | the host is read in two halves; the executor falls and forgets, its scopes stay; a call to the manager is given up and done late; clients go away and come back |
| Holder (`stream/`) | queue of unread messages, busy, requests waiting for a person, tasks, shell commands, modes, in memory under `h.mu`; a summary file; lists of permits and of messages taken back | send, letter, shell, take back, answer a request, control, close; one reader of claude's events | requests interleave with the reader and with each other between two holds of the lock; answers come late; events come in an order that depends on claude's version; the pipe fails half way |
| Keeper of observers (`observer/`) | a record and a log of two files for each observer on the disk; what waits for a wake in memory | start, list, stop, tail; a look every second: read, gather, wake, end | falls between any two steps; a wake that went though it failed; a log moved aside; sessions that are gone or not reached; a stop during a look |
| Alarms (`observer/alarm.go`) | a file for each | set, cancel, ring | a fall between the ring and its record; a cancel during a ring |
| Outbox of codex threads (`codex/queue.go`) | messages and settings waiting for a turn, on the disk | send, answer, take back, drain | a fall or a lost answer after the daemon took a message; two ways into one thread |
| Link to the daemon of codex (`codex/link.go`, `start.go`, `replacement.go`, `restart.go`) | what it heard of each thread, whether it is a client of it, whether a turn of its own runs, requests, the threads closed, in memory under `mu`; the threads it holds and those to close after their turn, on the disk | poll, join, leave, start, resume, close at once or after the turn, review, restart of an idle daemon | every look is a call, and what it saw is old when it acts; the status lags behind the start of a turn; answers are lost and calls made late; the connection is cut, the executor falls, other clients use the thread |
| Restart at the cap of the context (`src/cmd/aacpanel/restarts.go`, `store/restarts.go`, `session/ready.go`, `executor/session_close.go`, `src/agent/collect/workers.py`) | a row for each conversation in the store | prepare, command, ready, remind, restart, force | three clocks: the snapshot's, the session's word and the loop's; a step is sent and its outcome lost; the service falls; the session works on, is closed, is replaced under its name |
| Switch of a session (`executor/switch.go`) | none: reads the holder's state, closes one process, starts another | switch | what is read is stale when the session is closed |
| Actions (`action/`) | results of the last minutes by id | execute, retry | a restart between an action and its retry |
| Hub (`hub/`) | the latest update of each kind, a channel per subscriber | publish, subscribe | a slow subscriber; updates out of order |
| Store, service, collector, agent, notifications, sign-in, hooks, launchers, installer, web | rows, files, browsers | | sequential requests over a database, parsing, one-off programs |

Who meets whom: the service asks the executor, the executor asks the holder,
and each passes the answer back with a timeout of its own; the holder's summary
file is read by the agent, whose snapshots the service restarts sessions by; a switch reads the holder's state and then closes
it, so everything in the holder's lists (queue, shells, requests, tasks) is what
stands between a person and a lost message; the observers and the queue ask the
user's manager for units which outlive the executor.

What makes each part correct:

- *heavy runs*: the runs going, grown to what they asked for, fit the machine;
  never more of them than slots, across restarts; strict order; the refusal at
  the door refuses exactly what could never go; a run told it is in a scope is;
  nobody waits for ever.
- *holder*: what claude has not read is in the queue, what it has read is not
  there for good; the session does not look free while claude answers; outputs
  go to their commands; one failed request does not take the session with it.
- *observers*: no line that should wake a session is lost, none is told twice
  without cause, the end comes last; no unit runs for nobody; a stopped
  observer is silent; a gone session leaves nothing behind.
- *outbox*: at most one turn for a message unless the answer was lost, in order;
  what waits does not wait for ever.
- *link*: it is a client where a turn of the panel's runs or a person is asked,
  and leaves everywhere else; a restart of an idle daemon ends no turn.
- *restart at the cap*: a session that said it is ready is not cut in the turn
  that said so; a failed step waits before it is tried again; every session
  told to prepare is restarted in the end.
- *switch*: nothing sent before it is lost by it. *actions*: an id is executed
  once. *hub*: a publisher never waits for a subscriber.

## The modules

| Module | Models | Checked by |
|---|---|---|
| `HeavyAdmit` | `heavy/admit.go`: the rules, on words of twice `Half` values | through `HeavyMemory` |
| `HeavyMemory` | the machine's memory under those rules: `executor/heavy.go` Measure, `heavy/queue.go` look | `heavy_memory` |
| `HeavyMemoryProofs` | theorems about `HeavyMemory` | tlapm |
| `TurnQueue` | the abstract promise of order: who is called, and who may quit | through `HeavyQueue` |
| `HeavyQueue` | `heavy/client.go`, `heavy/queue.go`, the scope calls of `executor/heavy.go` | `heavy_queue`, `heavy_queue_untold` |
| `HeavyQueueProofs` | theorems about `HeavyQueue` | tlapm |
| `HolderInput` | `stream/holder.go`, `stream/shell.go`: the input of claude | `holder_input`, `holder_shell`, `holder_same_text`, `holder_slow_cancel` |
| `HolderInputProofs` | the types of `HolderInput` and its state file | tlapm |
| `HolderQueueProofs` | the queue, the turns and the commands of `HolderInput` | tlapm |
| `ObserverKeeper` | `observer/keeper.go`, `read.go`, `run.go`, `panel.go` | `observer_log`, `observer_ends`, `observer_pause` |
| `ObserverKeeperProofs` | the places of observers and their lines | tlapm |
| `CodexMailbox` | the abstract promise of a thread's messages | through `CodexThread` |
| `CodexThread` | one thread and the link: `codex/queue.go`, `link.go`, `start.go`, `replacement.go`, `restart.go`, `commands.go`; the daemon from `codextest/server.go` | `codex_thread` |
| `CodexThreadProofs` | `CodexThread` implements `CodexMailbox`; its turns and its types | tlapm |
| `RestartCycle` | `src/cmd/aacpanel/restarts.go`, `store/restarts.go`, the collector's snapshot, the restart of the executor | `restart_cycle` |
| `RestartCycleProofs` | theorems about `RestartCycle` | tlapm |
| `SequenceLemmas` | lemmas about sequences which `HeavyMemoryProofs` and the two of the holder share | tlapm |
| `MC…` | values of the constants for TLC | |

An operator under a comment `Mutant:` is a plausible wrong version of the
definition that follows it. It is not part of the specification: put in place of
that definition it must make a run fail, which shows the property depends on
what the code does there.

### HeavyAdmit and HeavyMemory

`HeavyAdmit` has no variables. Sizes are words: a sum wraps at twice `Half`
(`2^64` in the code) and a comparison the code makes in `int64` is made on
signed values, so the boundary at `Half` is there to be reached. `Admit` says how many runs of the line go
in one pass and `Never` is the refusal at the door. `DoorIsRight`
(in `HeavyMemory`) compares the two, once the queue is idle, over every limits
and every ask below half a word. Asks from half a word up
(eight exbibytes in the code) do pass the door as negative numbers; no machine
description has one.

`HeavyMemory` puts runs on a machine. `ReadMachine` and `ReadRunsAndAdmit` are
the two halves of one measure; `Grow` and `End` may fall between them. What was
grown between the halves of the admitting pass is `slip`, and `ReserveKept` and
`BudgetKept` hold but for it: no bound on the code's side keeps it away, and
the run shows nothing else goes past the limits. What the sessions and the rest
of the host holds is constant. Pressure is a free choice at every measure.
`ReadMachine` takes the reads of the machine, its pressure and the slice
together, which the code makes one after another: what grows between those is in
the model grown after all of them.

The runs of `HeavyMemory` ask for something (`MemoryAssumption`). The code also
lets a run go that asks for nothing: a description may give no default size, and
such a run gets no ceiling. It may grow without bound, so the reserve and the
budget are no promise about it, and no bound is there to state one; the model is
of runs with a ceiling. The door treats such an ask like any other, and
`DoorIsRight` ranges over it.

### HeavyQueue and TurnQueue

`state` and `dial` are the clients: `new` → `asked` (request sent) → `holding`
(in the line) → `running`, with `redialing` when the queue fell silent. `keep`
is the one loop: `Measure`, `Look(k)` (k runs taken off the line), then for each
`AskManager`, and `Let` with the manager's word. `at` is where the manager put a
process; `late` are calls the queue gave up and the manager still has. A call
given up while the manager still has it, like an executor that goes away, is
one of the `MaxFaults`.
`GoAway` may come between any two steps and takes with it everything the
executor knows; `ComeBack` starts from nothing, beside the scopes that stay.
How many runs fit the memory is a choice of `Look`, bounded by the slots:
`HeavyMemory` is about that choice. `InOrder` is a refinement: under the mapping
`line <- waiting`, `here <- Holding` (the connections whose client is there) and
`called <- Called` (those taken off the line whose scope or verdict is on its
way) `HeavyQueue` implements `TurnQueue`, where the first of the line are called
and nobody else, a turn quits uncalled only once its client is gone, and only
who was called is told. A pass that let a run go from behind another
(`LookPastTheHead`) is no step of it.

A run started inside another (`Nested`) joins no queue when its parent has a
scope (`heldBy`), and joins when the parent was let go without one.

### HolderInput

`queue`, `busy`, `said`, `shells`, `accepted`, `printed` are the fields of the
holder; `pc` is where the goroutine of each message stands between the holds of
`h.mu` in `say`: listed → written → sent, or failing → failed. One action is one
hold of the lock or one write; the one exception is the word that a message is
started, which sets the session busy in one hold and takes the message off in the
next. The state file is saved after the hold that changed something: the
goroutine owes a save (`owing`), takes a summary (`Snapshot`, which waits for
`saveMu`, that is for nobody in `saving`), and writes it out (`WriteOut`); it
goes on only then, and every other step may come between. `saveMu` is held from
the summary to the rename, so an older summary is not written over a newer one;
without it (`SnapshotApart`) it is. A failed write takes a message off the queue
and saves nothing (`Unlist`): until the next save the file may name it, which is
why `FileIsCurrent` asks that no message has failed. Claude is outside the source: `pipe`, `inbox`,
`turn`, `running` and `out` model it as the contract tests and the handlers of
the code expect it, including both orders in which it reports a shell command
(`ShellOrders`), turns it begins itself, slash commands answered without a turn,
messages absorbed into a running turn, and an end at any moment. `jammed` says a
goroutine panicked with the lock held.

### ObserverKeeper

`disk` is the record, `watch` what the keeper has in memory of it, `look` the
one look under way with the step it stands at (reading → waking → settling, or
ending → removing), `call` the stops. Lines are numbered, a file of the log
holds `FileLines` of them, and a position is the file and the offset in it, as
the inode and the offset are in the code; two files exist at a time. Times are
choices: whether the seconds of gathering are over, whether the hour of an
unreachable daemon is over. `told`, `dropped`, `missed`, `paused`, `excused`,
`slipped`, `early`, `noticed`, `loose` and `cut` are history: what the session
heard and the reasons it may not have heard the rest. The executor falls between
any two steps (`Fall`) and `Load` is one step, since nothing else runs until it
is done.

A file of the log is known by its number, as in the code, and the file system
chooses it: `Inode` gives each file one, two files that exist together never the
same, and a file made once the first is replaced may have the number of that
one. Then `readOn` takes it for the file it stood in and goes on at the old
offset (`Mistaken`), and the lines before that are passed over with no word
that they were (`slipped`). Lines are of one length, so that an offset is a
number of lines, and one past the end of a shorter file reads nothing. The look
at a file's number and its opening are one step.

A unit that has not written its pid within `startGrace` is told to have ended
(`HasEnded`, for the observers in `Late`); its command may still run and print,
and is not read on (`early`). The absence of the session is a daemon that is not
reached (`away`), a thread the daemon does not list for some looks (`missed`),
or a session that is gone for good. A stop is the session's, which has to be
there, or the panel's, which writes a letter of it before it answers
(`StopNotices`); each observer is stopped once.

### CodexThread and CodexMailbox

One thread of the daemon is enough: the link keeps nothing of two threads
together but the lock `sub`, the connection and the rounds of the poll.

The daemon is `turn` (its number and whom it is by), `listed` and `active` (the
list of turns and the status each may lag behind `turn/start`), `client`,
`loaded`, `asks` and the calls it makes `late`, as the fake daemon of the tests
(`codextest/server.go`: Lag, Starting, EndAtSteer, Unload, Drop) has them. A
turn by `"panel"` or `"review"` is one the link knows it started; it becomes one
of another client's (`GivenUp`) where the link by its own word lets the thread
go or has forgotten it, and a start that got no answer is another's from the
first. That name is history, and no step reads it but through what the daemon
does with a review.

A procedure that holds `sub` is the record `op`: `Send`, `Answer`, `Drain` and
`OrderGiven` take the lock, and each call to the daemon is an action of its own
with the answer it got in `op`, so a turn may begin, end or ask between the
status and the list of turns (`LookStatus`, `LookTurns`), between the look and
the steer (`Steer`, `LookAgain`), between keep's two questions and its leave
(`KeepReread`, `KeepRunning`, `KeepLeave`). `poll` is the poll, which takes the
same lock for its list, for keep, drain and the close after the turn. A call
ends with no answer in `Unanswered` (it carries a message: made, never made, or
`MadeLate`) or `CallFails`. `Forget` is a cut connection; `ExecutorFalls` keeps
the disk alone.

`CodexMailbox` is what the sender is promised: a line, taken from its head, and
an answer that may pass it. A message leaves the line only by being taken, given
back to its sender (`told`), as one no turn can be started with (`Bad`, or a
thread the daemon has let go), or with a thread that is closed or unloaded: for
that the mailbox reads `Bad`, `loaded` and `shut`, which it does not set. A
drain that drops its head because the thread is busy, or a poll that empties
the queue of an open thread, is no step of it. Of a message in `doubted` less is
promised. Under the mapping a message already taken and not yet removed from the file waits no
more (`Line`), and one on its way waits nowhere yet (`Fresh`). `MessagesKept`
is the refinement.

Left out: settings, goals, terminals, usage and reports of turns; the reconnect
of a thread being moved; `Start` with a first message (`Init` stands for the
thread it leaves); a person who interrupts a turn (it ends, as `TurnEnds` has
it). Notifications are delivered when they are sent, and a connection that is
cut takes the calls under way with it.

### RestartCycle

One conversation, its row, and one session under its name. `cycle` is the row
(`store/restarts.go`), `loop` the loop of the service with the copy of the row
it read and the step it takes; `look` and `snap` are a read of the collector in
progress and the snapshot published. Moments are not kept: `afterReady`,
`afterCommand` and `moved` are the answers to the comparisons `nextRestart`
makes, and `attempted` and `reminded` say whether the grace since has passed
(`GracePasses`, which no delivery outlasts). `KeepRestartCycle` writes some
fields and merges others (`Kept`), and `ReadyRestartCycle` and
`BeginManualRestart` write between the read of the loop and its write.
`proc` is `"fresh"` when another conversation runs under the name: the restart
goes only to the conversation it names, a message to whoever has the name.
`asks` is a session that waits on a person, in a turn (a question, a permission)
or at its terminal: it is not idle for the loop, its turn does not end, and no
person need answer (`Answer` has no fairness).
`readyTurn` and `tried` are history.

A restart is refused for good in one way only: the executor's `closeGently`
falls back to a signal (`executor/switch.go` 211-219) when the session does not
close by itself, so what may fail is a process that outlives the wait. That is
one of the `MaxFaults`.

Left out: the intent, the cap itself (`auto` says the context is past it), the
restart a person or the session asks for at once.

## The runs

| Run | Instance | Shows |
|---|---|---|
| `heavy_memory` | words of 32 values (`Half` 16), 3 runs asking 2, 3, 4; no bound of slots, reserve 1, budget 6, total 9 | `BudgetKept`, `ReserveKept`, `DoorIsRight`; with fairness `NoRunIsStarved` |
| `heavy_queue` | 3 runs, the third inside the first, 2 slots, 1 fault (an executor that goes away or a late call) | `SlotsKept`, `UnitIsFree`, `AdmittedIsHeld`, the refinement `InOrder`; with fairness `OnlyItsOwnSlotStopsARun` |
| `heavy_queue_untold` | 2 runs, 1 slot, 1 fault | **violates** `QueueNeverStopsARun` |
| `holder_input` | a message, a slash command, a letter; taking back and closing; every save in two steps of its own; letters not beside a taking back (`Mixed`); 3 events unread | seven invariants of the input and of the state file |
| `holder_shell` | 2 shell commands, whose outputs are the only messages, both orders of claude's reports; saves in the step they follow (`SavesWait`), 4 events unread | the outputs and, with fairness, that every list empties |
| `holder_same_text` | 2 messages of one text, closing | **violates** `SessionGoesOn` |
| `holder_slow_cancel` | 1 message taken back | **violates** `TakenBackIsForgotten` |
| `observer_log` | 1 observer, 3 lines, a file each, the third with the number of the first, lines 1 and 3 wake; a unit that may be late; 1 fall, 1 absence of either kind, no end of the session | nothing lost but to a pause, nothing told twice, the end last; with fairness every line is told |
| `observer_ends` | 2 observers of one name that print nothing, 1 stop by the session or the panel, 1 fall, a session that goes | no unit for nobody, places, silence after a stop; with fairness a gone session leaves nothing |
| `observer_pause` | 1 observer, 2 lines | **violates** `ReadIsTold` |
| `codex_thread` | 2 messages, one of them refused as a turn and allowed as an answer; 2 events, 3 inputs in all | the refinement `MessagesKept`, `StaysOnItsTurn`, `SparesItsTurns`; with fairness `QueuedGoes`, `AskReaches`, `ThreadIsLeft` |
| `restart_cycle` | 2 acts (of persons, and of a session that starts work or asks), 1 fault | `ReadyTurnIsOver`, `RetryWaits`; with fairness `CycleEnds` |

### Why these bounds are enough

- Three runs are the least with somebody between the first and the last of a
  line; two slots the least where the count matters, and with the third run
  inside the first the least where a run waits for a slot of its own family. One fault takes the executor away at every step there is;
  the second falls on a state the first can leave behind only by doubling what
  `SlotsKept` already allows for, and the proofs hold for any number.
- The budget of `heavy_memory` is a unit tighter than the memory, so that both
  rules are the one that blocks in some state.
- A message and a slash command are the two ways a message leaves the queue; a
  letter is input that is not queued. Two commands are the least whose outputs
  can be swapped. `MaxOut` bounds what claude has written and nobody read: four
  events hold a whole turn. `holder_input`, with the saves in steps of their own
  and three and a half million states, has three: a turn and its result, with
  the reader behind them. There a letter is not written beside a message that
  is taken back (`Mixed`): each meets the messages, and the two have nothing in
  common but the write. `holder_shell` is about lists the state file does not
  have, and saves at once. The proofs know none of the three bounds.
- Three lines with a file each: when the third is written the first is gone, so
  the log has been read on, read from the file moved aside, skipped, and taken
  for the first by its number. What a session does that goes, and a second
  observer, are in `observer_ends`, where nothing is printed and nobody is away
  for a while; the proofs have them together. Two
  tries and two looks are the least at which the first is not the last.
- Two messages are the least that can overtake, and being both an answer and
  refused gives the second every way a message has. An event is an order of a
  person, a turn or a request of another client, a lost answer, a cut
  connection, a fall or a restart; turns the messages start, their ends, what
  lags and calls made late are free. Two events put any fault into any order;
  `MaxInputs` bounds events and messages together.
- Two acts are a message, work or a question into a cycle that somebody closes,
  resumes, replaces or presses the button for; answers, readiness, its repeats, the ends of turns
  and the passing of time are free.
- Two observers of one name and places for two: the name is what keeps the
  second out. That the places themselves are enough is only proved
  (`PlacesAreTheirs`): two observers never fill them.

`CHECK_DEADLOCK FALSE` stands where the instance ends by itself: every message
sent, every session closed, every observer gone. `HeavyQueue` and `HeavyMemory`
are checked for deadlock.

### Fairness

Goroutines run when they can (weak fairness of each step of the executor, the
holder and the keeper), systemd starts the executor again (`Restart=` of its
unit), and the manager answers or times out. Heavy runs end, and the host again
and again has memory for the head of the line when a slot is free (strong
fairness of `Look`, of the measure without pressure). Claude reads its input and
ends its turns; strong, because its steps wait for room in `out`. A look comes
round to each observer again and again: strong, as other looks come between;
gathering ends. A save waits for `saveMu`, which other saves take and let go, so
each is taken with strong fairness: a `sync.Mutex` of Go's lets nobody starve.
A turn of codex shows in the list and in the status, and ends once nobody is
asked; the link's calls are answered or fail, it polls every two seconds and
dials every ten. In the restart at the cap a turn ends and a message is read
unless the session waits on a person, the collector and the loop go round, and
time passes. That persons stop writing to a session is what `MaxActs` says, and
`CycleEnds` needs it (see below). Nobody is assumed to send, stop, cancel, close, fall, answer
a request, nor a wake to be taken.

## What the runs found

1. **A run can wait for its own slot** (`heavy_queue_untold`). If the executor
   goes away after the manager moved a client into its scope and before the
   verdict is written, the client dials and joins again (`heavy/client.go`
   wait) without asking `heldBy` a second time. With every slot taken it waits
   for ever, holding one. `OnlyItsOwnSlotStopsARun` shows this, and the same of
   a child that asked before its parent was moved late, is the only way.
2. **The echo of one message takes another's** (`holder_same_text`). `take`
   matches by id *or* text; of two messages with the same words the echo of the
   first may take the second, whose failed write then cuts the last element of
   an empty slice with `h.mu` held. The panic is recovered, the lock is not.
3. **A late answer to a cancel is lost** (`holder_slow_cancel`). The message
   claude took back stays in the queue, where it stands in the way of a switch.
4. **A pause writes down lines nobody was told** (`observer_pause`). The record
   written when the codex daemon stops or starts answering carries the offset
   in memory, past lines that wait for their wake; after a restart they are
   lost. `OnlyAPauseLoses` shows no other order of events loses one, but for a
   number of a file used again (below).

Seen on the way and excused in a property, by name: a message taken back from
an idle session leaves it busy until another turn ends (`TakenBack` in
`QuietIsFree`); an observer whose end is cut by a fall comes back, perhaps
beside one of the same name (`cut` in `PlacesAreKept`); a start or a stop of a
unit the manager finishes late leaves it without a record until the next
executor lists the units (`loose` in `UnitIsFollowed`).

Of the log of an observer:

- A file that has the number of the one the last look stood in, which is gone,
  is read on from the old offset: the lines before it are neither told nor said
  to be skipped (`slipped` in `OnlyAPauseLoses`). `observer/read.go` 41-44 has
  `skipped` say that lines were never read; it does not for these, nor at a
  first look that finds two files of which neither is the first.
- A unit later than `startGrace` to write its pid is told to have ended, and
  what its command prints after is not read (`early` in `EndComesLast`). The
  unit itself stays followed.

Of the threads of codex, each a path of the model that a property allows for:

- A close right after the panel's own `turn/start` trusts a status that lags
  (`codex/start.go` interrupt), interrupts nothing and leaves; the turn runs on,
  and the next poll takes the closed thread back as one another client works in,
  where `src/ARCHITECTURE.md` has the turn interrupted and the thread off the
  list unless another client starts one.
  The close after the turn asks for the turns too (`replacement.go`).
- Of a thread the panel holds, keep never clears `ours` (`link.go`, the case
  `held`): once a turn of the panel's ran there, `RestartIdle` counts the thread
  as busy for as long as it is held. That is safe, and a restart waits.
- A `thread/read` without an answer makes the round pass the thread over, and
  drop then forgets one that is loaded, with its subscription and `ours`
  (`PollReadFails`, `Drop`): what the panel started there is no longer known to
  be the panel's. `keep` reads a failed list of turns as no turn (`blind` in
  `KeepLeave`).
- A message whose sender waited for the lock goes into a thread closed
  meanwhile; a call given up and made late may follow the same message sent
  again or taken back (`doubted`).

Of the restart at the cap:

- Between the loop's decision and the close of the session a new turn may call
  `session_ready` again, and is cut: `ReadyTurnIsOver` speaks of the decision.
- A command or a reminder names the session, not the conversation, and may
  reach a replacement that came up under the name.
- A restart that closed the session and failed to bring one up, or whose
  outcome was not written, leaves the row ready: the conversation resumed from
  the archive is restarted once a snapshot shows it idle.
- A session that is ready but busy whenever it is looked at, or that says so
  again in turn after turn, is neither reminded nor forced (`nextRestart` only
  reminds an idle one): as long as somebody keeps writing to it the cycle stays
  open.
- Nor is one that waits on a person (`restarts.go` 69-73: a question, a
  permission or a dialog is not idle): told to prepare, and asked something
  nobody answers, it is not reminded, and so never restarted. That is
  `WaitsUnreminded`, the one other end `CycleEnds` allows. Once reminded it is
  restarted whatever it does, as `src/ARCHITECTURE.md` 213-215 has it.

## What is proved

`HeavyQueueProofs`, for any finite set of runs, any nesting, any number of
slots and faults (`QueueAssumption`, the only assumption):

| Theorem | Says | Along |
|---|---|---|
| `TypeCorrect` | `Spec => []TypeOK` | one step for each action |
| `SlotsAreKept` | `Spec => []SlotsKept` | `SlotsInv` |
| `UnitsAreFree` | `Spec => []UnitIsFree` | `UnitInv` |
| `AdmittedAreHeld` | `Spec => []AdmittedIsHeld` | `HeldInv` |
| `QueueIsALine` | `Spec => InOrder` (refinement of `TurnQueue`) | `TurnInv` |

`QueueIsALine` says more than that nobody enters twice: each step of `HeavyQueue`
is a step of `TurnQueue`, which calls only from the head and lets a turn quit
uncalled only once nobody waits for it.
`TypeCorrect` stands in the place of a run. None of the other four is inductive
alone. `SlotsKept` counts scopes; a pass admits by
a count it made earlier, so `SlotsInv` adds to the scopes those on their way
(taken off the line, asked of the manager) and the calls nobody waits for, and
says how far the measure of the pass can be behind the truth: only by late
calls. `UnitInv` says a scope that goes was either seen by the measure of this
pass or numbered in it, which is why a restart that numbers from one again does
no harm. `HeldInv` follows the word of the manager to the verdict, and says a
process leaves its scope only by ending. `TurnInv` ties the connections in the
line to the dials of their clients, so that nobody enters a line he stands in.
The lemmas on cardinality before each theorem (adding a scope, taking a run off
a sequence) rest on the library's facts about finite sets.

`HeavyMemoryProofs`, for any runs and asks, any limits, a word of any width:

| Theorem | Says | Along |
|---|---|---|
| `MemoryInvHolds` | `Spec => []MemoryInv` | itself |
| `MemoryTypes` | `Spec => []TypeOK` | `MemoryInv` |
| `ReserveIsKept` | `Spec => []ReserveKept` | `MemoryInv` |
| `BudgetIsKept` | `Spec => []BudgetKept` | `MemoryInv` |
| `DoorAgrees` | `Spec => []DoorIsRight` | the arithmetic of words |

It assumes of the sizes (`SizesAssumption`) what the arithmetic of `blocked`
needs and the code does not check: the total, the reserve and the budget are
below half a word, what the machine has past its reserve is no more than a
quarter of a word (`2^62` bytes), and without a budget no run asks for half a
word or more, which would pass the door as a negative number. With a budget the
door itself refuses such an ask, and nothing is assumed of it. `MemoryAssumption`
has every run ask for something (see above); `DoorAgrees` has no need of it.
TLC checks `MemoryInv` by its parts: the types, the reserve and the budget in
the run, the rest once on the same instance and on one without a budget.

A pass lets runs go by a measure taken before it, so `ReserveKept` is nothing a
step keeps by itself. `MemoryInv` says what the half already read has to do with
the present (`ReadThen`: what the runs hold now is past it by what they took
unseen at most), that only a run that goes holds anything, up to its ask
(`Held`), that each stands in one place and has passed the door (`Apart`), and
that what is still to come stays far from the end of the word (`Bounded`), which
is why no sum of the queue wraps. Of the pass itself: what the queue adds up is
what the runs going and those let go before are still to take (`LineIs`); as
long as that is within what the machine has past its reserve, not to be blocked
means that it fits with the next ask (`WhatFits`); and so, by induction over the
runs let go, all of them fit (`LetGo`). The sums are a recursive function
(`SumOf`), and what it does (one element more, one less, one changed, two added,
pointwise order) is proved by induction on the length through the least element
of the set of lengths where it fails (`Climbs` in `SequenceLemmas`), since the
library's rule of induction cannot be instantiated.

`CodexThreadProofs`, for any messages, any of them answers
or refused, and any bounds (`CodexAssumption`):

| Theorem | Says | Along |
|---|---|---|
| `MessagesAreKept` | `Spec => MessagesKept` (refinement of `CodexMailbox`) | `MailOK`, `Carried` |
| `TurnsAreKnown` | `Spec => []TurnOK` | one lemma for each group of actions |
| `StaysOnTurn` | `Spec => StaysOnItsTurn` | `TurnOK` |
| `SparesTurns` | `Spec => SparesItsTurns` | `TurnOK` |
| `LinkTypes` | `Spec => []TypeOK` | `Types`, `MailOK`, `TurnOK` |

The mailbox has three guards the types do not give: a message dropped for its
own sake is one no turn can be started with, a line dropped whole is that of a
thread closed or unloaded, and who is told that a message does not go has sent
it; `CodexThread` keeps `told` for the last. `Carried` says what the holder of
the lock knows of the queue: one that sends
found it empty and it still is, one that drains carries its head, and every call
made late carries a message in doubt. Most actions move no message and are
taken together (`Aside`); the others have a lemma each, which names the step of
the mailbox they are. `TurnOK` has two parts. `Known`: while a turn of the
panel's runs the thread is loaded, the list or the status shows the turn, and
either the link marks it as its own or the status it keeps does not say idle.
`Found`: what keep has found between two of its calls still holds at the next,
because the lock it holds keeps the panel's own starts out; so at the
unsubscribe no turn of the panel's runs.

`RestartCycleProofs`, for any bounds (`RestartAssumption`):

| Theorem | Says | Along |
|---|---|---|
| `RestartTypes` | `Spec => []TypeOK` | stands in the place of a run |
| `ReadyTurnEndsFirst` | `Spec => ReadyTurnIsOver` | `ReadyInv` |
| `FailedStepWaits` | `Spec => RetryWaits` | `RetryInv` |

`ReadyInv` dates the readings: one that began after the last word of readiness
and found the session idle can only have begun after the turn that said so was
over, whether it is published yet or not; the row the loop holds has no
readiness the database lacks. `RetryInv` says a step sent and not known to have
gone is written in the row of a cycle that is not done, or the loop still holds
it.

`ObserverKeeperProofs`, for any finite set of observers and names, any lengths of logs, files and looks, and any falls
(`KeeperAssumption`; `NoneAssumption` only says that "nothing" is not one of the
things):

| Theorem | Says | Along |
|---|---|---|
| `KeeperTypes`, `KeeperPlaces` | `Spec => []TypeOK`, `Spec => []PlaceInv` | each other |
| `UnitsAreFollowed` | `Spec => []UnitIsFollowed` | `PlaceInv` |
| `StoppedIsSilent` | `Spec => NoWordAfterStop` | `PlaceInv` |
| `PlacesAreTheirs` | `Spec => []PlacesAreKept` | `PlacesInv` |
| `KeeperLog` | `Spec => []LogInv` | `PlaceInv` |
| `LinesAreNotLost` | `Spec => []OnlyAPauseLoses` | `LogInv` |
| `LettersAreNew` | `Spec => []NothingToldTwice` | `LogInv` |
| `TheEndIsLast` | `Spec => []EndComesLast` | `LogInv` |

An observer is in four places at once, and the properties speak of two of them
at a time. `PlaceInv` says how all go together between any two steps: what is
followed is on the disk, what is on the disk of an executor that is up is
followed or being ended, a look reads only what is kept and ends only what no
stop ends, and a unit asked to stop has stopped or is `loose`. `PlacesInv`
counts among the places of a session those a start has taken and not filled.
`OnlyAPauseLoses` speaks of the disk alone, and the disk is written from the
look, which is made from the watch: `LogInv` says of each of the three that the
lines up to it were told, dropped, gone, passed over or paused, or wait in the
batch, and that what was told past it is excused. It needs of the arithmetic of a
look (`ReadsOn`) that it leaves no line between where it began and where it stands
that is not read or passed over, whatever numbers the files have; only that two
which exist together have two numbers is assumed. `EndComesLast` follows for
every observer not in `early`: of one told to have ended the log was read to its
end, or is being read.

`HolderInputProofs` and `HolderQueueProofs`, for any messages, slash commands,
texts, shell commands and letters, and any room in claude's pipe
(`InputAssumption`; `IdsAssumption` says that no two things have one id, which
in the code are random uuids):

| Theorem | Says | Along |
|---|---|---|
| `InputTypes` | `Spec => []TypeOK` | `Types` |
| `FileIsTrue` | `Spec => []FileIsCurrent` | `FileInv` |
| `OutputsAreTheirs` | `Spec => []OutputToItsCommand` | `ForecastInv`, `Commands` |
| `ShellsStay` | `Spec => []ShellStaysUntilPassed` | `ForecastInv`, `Commands` |

and under `DistinctTexts`, that no two messages of the session have the same
words:

| Theorem | Says | Along |
|---|---|---|
| `NothingUnreadIsForgotten` | `Spec => []UnreadIsQueued` | `Places`, `QueueInv` |
| `NothingDropsFromEmpty` | `Spec => []SessionGoesOn` | `Places`, `QueueInv` |
| `QueueIsPending` | `Spec => []QueuedIsPending` | `AllPending` |
| `AnswersAreSeen` | `Spec => []AnswerIsSeen` | `Begun` |
| `QuietSessionsAreFree` | `Spec => []QuietIsFree` | `Back`, `Promise`, `Owed` |

`DistinctTexts` is a hypothesis and no assumption of the module, for it is not
true of every session: `holder_same_text` shows that `SessionGoesOn` fails
without it, since `take` goes by the text too. It asks this of all the messages
of a session, where only those unread at one time would matter.

`Types` says more than `TypeOK`: of what kind of thing each line and each event
is. `FileInv` says of the state file that one goroutine saves at a time, and that
while nobody owes a save the last summary taken, on its way or in the file, is
what the holder knows. `Places` says a message is at one place of its way, which every claim about
the queue rests on: of one told of, claude has nothing left to read. A failed
write drops the last of the queue, whosever it is, so `UnreadIsQueued` is
nothing a step of one message keeps: `QueueInv` says that a write fails only
where claude reads nothing more, and counts. `Stuck` are the messages whose
goroutine may still drop one, `Dead` those in the queue that no word of claude's
will take off it, and there are never fewer of these; so the last of an empty
queue is never cut off. `Begun` dates the holder's knowledge of a turn: it read
that the turn began and no end is on its way, or that word is still on its way,
past every end, and what the turn answers is in the queue until then. `Owed`
says what a busy session waits for: a message on its way in or back, the turn
that runs, the end of a turn on its way. It needs `Promise` (a beginning on its
way has its end behind it, unless the turn runs) and `Back` (what claude gave
back is in the queue until `Unqueue` takes it off).

`OutputToItsCommand` is not inductive, nor made so by any claim about the
lists: whether `accepted` and `printed` go together with the next output is a
matter of the order of all the words on their way. `ForecastInv` reads them
ahead: from what the holder has `accepted` and `printed`, taken through every
event of `out` in order, each end and each output meets that of its own command,
and what is left at the end is exactly what claude is at (`running`). Each step
of claude adds a word at the far end, and the reader takes one from the near
end. `Commands` is `Places` for commands, and says which word is the last.

Only model-checked: the liveness properties, since neither fairness nor ENABLED
is within the prover's reach (`NoRunIsStarved`, `OnlyItsOwnSlotStopsARun`,
`EveryMessageLeaves`, `EveryCommandEnds`, `LinesAreTold`, `GoneLeaveNothing`,
`QueuedGoes`, `AskReaches`, `ThreadIsLeft`, `CycleEnds`). Every invariant, every
action property and both refinements the passing runs check are proved, those of
`HolderInput` that say so under `DistinctTexts`.

## What is not modelled

- Words: the lines said to a person, the text of letters and of errors, the
  views the panel shows of each part. No property is about them.
- Of the holder: requests and permits, settings, background tasks, compaction,
  the socket.
- Alarms: an observer without a unit and a log, with the same record and the
  same falls.
- Of codex and of the restart at the cap: what their sections above leave out.
- The switch of a session and the actions of the executor: they keep no state
  but a cache of results; what is hard there is in the holder, in tmux and in
  systemd, each of which would have to be composed with them.
- Of the keeper: the number of observers on the whole host, records and logs
  that cannot be read or written, two stops of one observer at once (the second
  finds it gone), lines of different lengths, a file moved aside between the
  look at its inode and its opening.
- Heavy runs that ask for no memory and run without a ceiling.
- Memory the queue does not answer for: sessions and other programs that grow.
- The store, the service and the web client: requests over a database whose
  transactions are its own; parsers, launchers, hooks, the installer and
  cryptography: functions of their input, or sequences on one host run by hand.

## The plan

Done: `HeavyAdmit`, `HeavyMemory`, `HeavyQueue` with `TurnQueue`, `HolderInput`,
`ObserverKeeper`, `CodexThread` with `CodexMailbox`, `RestartCycle`, with every
safety property of them proved. What is left, in this order:

1. An abstract specification of the holder's input (a message is unread, then
   answered or given back, in order) that `HolderInput` implements: the places
   are proved, the order is not stated.
2. `HolderRequests`: permission requests answered twice, permits on the disk,
   modes set and reported; and the switch of a session composed with the queue
   of `HolderInput`.
3. `DistinctTexts` asked only of the messages unread at one time.
