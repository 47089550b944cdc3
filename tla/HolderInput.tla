---------------------------- MODULE HolderInput -----------------------------
(***************************************************************************)
(* What the holder of a stream session knows of the input it has written   *)
(* to claude: the queue of messages claude has not read, whether claude    *)
(* works, the shell commands it runs for the person, and the state file    *)
(* the collector reads (internal/stream/holder.go and shell.go).           *)
(*                                                                         *)
(* One goroutine reads what claude writes, one event after another; every  *)
(* request of the panel and every output passed on is a goroutine of its   *)
(* own. They meet under h.mu, and say takes it, leaves it to write, and    *)
(* takes it again. Whoever changed what the state file tells saves it once *)
(* h.mu is let go, other steps coming between: it takes a summary under    *)
(* h.mu and writes it out, both under saveMu, and goes on only then.       *)
(* Claude is outside the repository: it is modelled by the events the code *)
(* and its contract captures expect of it.                                 *)
(***************************************************************************)
EXTENDS Integers, Sequences, FiniteSets, SequencesExt

CONSTANTS Msgs,        \* messages of the person, each sent once
          Slash,       \* those that are slash commands claude runs itself
          TextOf,      \* the text of each
          Cmds,        \* shell commands of the person, each run once
          Letters,     \* letters of other sessions, each written once
          None,        \* no output noted
          Self,        \* a turn claude begins with no word of a message
          ShellOrders, \* whether claude reports a command ended before its output
          MayCancel,   \* the person takes messages back
          MayClose,    \* the session is closed, or claude falls
          Mixed,       \* bound: letters come where messages are taken back
          SavesWait,   \* bound: other steps come between a change and its save
          MaxOut       \* bound: events claude has written and nobody read

ASSUME InputAssumption ==
    /\ Slash \subseteq Msgs
    /\ DOMAIN TextOf = Msgs
    /\ ShellOrders \subseteq BOOLEAN
    /\ {MayCancel, MayClose, Mixed, SavesWait} \subseteq BOOLEAN
    /\ MaxOut \in Nat

VARIABLES
    \* the holder, under h.mu
    queue,       \* state.Queue, the ids of the messages claude has not read
    busy,        \* state.Busy
    said,        \* state.Said
    shells,      \* state.Shells
    accepted,    \* commands reported ended before their output
    printed,     \* the output noted before the end of its command
    jammed,      \* a goroutine fell with h.mu held
    \* the holder, elsewhere
    pc,          \* where the goroutine of each message or output stands
    output,      \* the output each command's passing carries
    cancel,      \* where the cancelling of each message stands
    closed,      \* stdin is closed
    owing,       \* the goroutines that have yet to save the state file
    saving,      \* the summaries taken and not written out yet, and by whom
    file,        \* the state file
    withdrawn,   \* the list of messages taken back
    \* claude
    alive,
    newer,       \* it reports a command ended before its output
    pipe,        \* lines written to its input, not read yet
    inbox,       \* messages it has read and not taken up
    turn,        \* the messages its turn answers
    running,     \* the shell command that runs, a sequence of none or one
    out          \* events it has written, not read by the holder

holderState == <<queue, busy, said, shells, accepted, printed, jammed>>
files == <<owing, saving, file>>
holderRest == <<pc, output, cancel, closed, files, withdrawn>>
claude == <<alive, newer, pipe, inbox, turn, running, out>>
vars == <<holderState, holderRest, claude>>

-----------------------------------------------------------------------------

\* The message that carries the output of a command, under an id of its own.
Out(c) == <<"output of", c>>
Outs == {Out(c) : c \in Cmds}
Says == Msgs \union Outs

\* Only a person writes the same text twice.
Text(s) == IF s \in Msgs THEN TextOf[s] ELSE s

Inputs == Says \union Letters

\* The ids are uuids: none is that of two things.
ASSUME IdsAssumption ==
    /\ Msgs \intersect Outs = {}
    /\ Says \intersect (Letters \union Cmds) = {}
    /\ Letters \intersect Cmds = {}
    /\ Self \notin Inputs \union Cmds
    /\ None \notin Cmds

Line(kind, id) == [kind |-> kind, id |-> id]
Event(type, id) == [type |-> type, id |-> id]

Summary == [busy |-> busy, queue |-> queue]

\* The goroutines that save: the one that reads, those of the messages and
\* letters, and those that take a message back.
Reading == <<"reading">>
Withdrawing(m) == <<"taking back", m>>
Savers == IF ~ SavesWait THEN {}
          ELSE Inputs \union {Reading} \union {Withdrawing(m) : m \in Msgs}

Steps == {"idle", "listed", "written", "failing", "sent", "failed"}

TypeOK ==
    /\ queue \in Seq(Says)
    /\ {busy, said, jammed, closed, alive, newer} \subseteq BOOLEAN
    /\ shells \in Seq(Cmds)
    /\ accepted \in Seq(Cmds)
    /\ printed \in Cmds \union {None}
    /\ pc \in [Inputs \union Cmds -> Steps]
    /\ output \in [Cmds -> Cmds \union {None}]
    /\ cancel \in [Msgs -> {"none", "asked", "taken", "given up", "done"}]
    /\ withdrawn \subseteq Msgs
    /\ owing \subseteq Savers
    /\ \A w \in saving : w.by \in Savers
    /\ ToSet(inbox) \subseteq Inputs
    /\ ToSet(turn) \subseteq Inputs \union {Self}
    /\ Len(running) <= 1
    /\ Len(out) <= MaxOut

Init ==
    /\ queue = <<>>
    /\ busy = FALSE
    /\ said = FALSE
    /\ shells = <<>>
    /\ accepted = <<>>
    /\ printed = None
    /\ jammed = FALSE
    /\ pc = [s \in Inputs \union Cmds |-> "idle"]
    /\ output = [c \in Cmds |-> None]
    /\ cancel = [m \in Msgs |-> "none"]
    /\ closed = FALSE
    /\ owing = {} /\ saving = {} /\ file = Summary
    /\ withdrawn = {}
    /\ alive = TRUE
    /\ newer \in ShellOrders
    /\ pipe = <<>>
    /\ inbox = <<>>
    /\ turn = <<>>
    /\ running = <<>>
    /\ out = <<>>

\* h.mu is let go, and a save follows.
Owe(g) == IF SavesWait THEN /\ owing' = owing \union {g}
                            /\ UNCHANGED <<saving, file>>
                       ELSE /\ file' = Summary'
                            /\ UNCHANGED <<owing, saving>>
Owes(g) == g \in owing \/ \E w \in saving : w.by = g
Goes(s, step) == pc' = [pc EXCEPT ![s] = step]
Writable == alive /\ ~ closed

-----------------------------------------------------------------------------
(* saveSummary: a summary is taken under h.mu and written out after it.    *)

\* Mutant: saveMu is not held, and two of them run side by side.
SnapshotApart(g) ==
    /\ ~ jammed
    /\ g \in owing
    /\ owing' = owing \ {g}
    /\ saving' = saving \union {[by |-> g, sum |-> Summary]}
    /\ UNCHANGED <<pc, output, cancel, closed, file, withdrawn>>
    /\ UNCHANGED <<holderState, claude>>

Snapshot(g) ==
    /\ ~ jammed
    /\ g \in owing
    /\ saving = {}
    /\ owing' = owing \ {g}
    /\ saving' = {[by |-> g, sum |-> Summary]}
    /\ UNCHANGED <<pc, output, cancel, closed, file, withdrawn>>
    /\ UNCHANGED <<holderState, claude>>

WriteOut ==
    /\ \E w \in saving : file' = w.sum /\ saving' = saving \ {w}
    /\ UNCHANGED <<pc, output, cancel, closed, owing, withdrawn>>
    /\ UNCHANGED <<holderState, claude>>

-----------------------------------------------------------------------------
(* say, in the goroutine of a request or of an output passed on.           *)

\* A message is asked for by the person; an output once it is known whose.
Due(s) == \A c \in Cmds : s = Out(c) => output[c] # None

List(s) ==
    /\ ~ jammed
    /\ pc[s] = "idle"
    /\ Due(s)
    /\ queue' = Append(queue, s)
    /\ busy' = TRUE
    /\ Goes(s, "listed")
    /\ UNCHANGED <<said, shells, accepted, printed, jammed>>
    /\ UNCHANGED <<output, cancel, closed, files, withdrawn>>
    /\ UNCHANGED claude

Write(s) ==
    /\ pc[s] = "listed"
    /\ IF Writable THEN /\ pipe' = Append(pipe, Line("message", s))
                        /\ Goes(s, "written")
                   ELSE /\ Goes(s, "failing")
                        /\ UNCHANGED pipe
    /\ UNCHANGED holderState
    /\ UNCHANGED <<output, cancel, closed, files, withdrawn>>
    /\ UNCHANGED <<alive, newer, inbox, turn, running, out>>

\* The write failed: the last of the queue is dropped, whosever it is. From an
\* empty queue the slice falls with h.mu held, and nothing lets it go.
Unlist(s) ==
    /\ ~ jammed
    /\ pc[s] = "failing"
    /\ IF queue = <<>> THEN /\ jammed' = TRUE
                            /\ UNCHANGED queue
                       ELSE /\ queue' = Front(queue)
                            /\ UNCHANGED jammed
    /\ Goes(s, "failed")
    /\ UNCHANGED <<busy, said, shells, accepted, printed>>
    /\ UNCHANGED <<output, cancel, closed, files, withdrawn>>
    /\ UNCHANGED claude

\* A message is on its way, or a letter.
Settle(s) ==
    /\ ~ jammed
    /\ pc[s] = "written"
    /\ said' = TRUE
    /\ Goes(s, "sent")
    /\ UNCHANGED <<queue, busy, shells, accepted, printed, jammed>>
    /\ Owe(s)
    /\ UNCHANGED <<output, cancel, closed, withdrawn>>
    /\ UNCHANGED claude

\* Mutant: a letter is queued as a message is.
QueueLetter(l) ==
    /\ pc[l] = "idle"
    /\ Writable
    /\ Mixed \/ \A m \in Msgs : cancel[m] = "none"
    /\ queue' = Append(queue, l)
    /\ pipe' = Append(pipe, Line("message", l))
    /\ Goes(l, "written")
    /\ UNCHANGED <<busy, said, shells, accepted, printed, jammed>>
    /\ UNCHANGED <<output, cancel, closed, files, withdrawn>>
    /\ UNCHANGED <<alive, newer, inbox, turn, running, out>>

\* A letter is not the person's message: it is neither queued nor waited for.
WriteLetter(l) ==
    /\ pc[l] = "idle"
    /\ Writable
    /\ Mixed \/ \A m \in Msgs : cancel[m] = "none"
    /\ pipe' = Append(pipe, Line("message", l))
    /\ Goes(l, "written")
    /\ UNCHANGED holderState
    /\ UNCHANGED <<output, cancel, closed, files, withdrawn>>
    /\ UNCHANGED <<alive, newer, inbox, turn, running, out>>

-----------------------------------------------------------------------------
(* A shell command of the person: shell, and the end of passOutput.        *)

Run(c) ==
    /\ ~ jammed
    /\ pc[c] = "idle"
    /\ shells' = Append(shells, c)
    /\ Goes(c, "listed")
    /\ UNCHANGED <<queue, busy, said, accepted, printed, jammed>>
    /\ UNCHANGED <<output, cancel, closed, files, withdrawn>>
    /\ UNCHANGED claude

WriteRun(c) ==
    /\ pc[c] = "listed"
    /\ IF Writable THEN /\ pipe' = Append(pipe, Line("command", c))
                        /\ Goes(c, "sent")
                   ELSE /\ Goes(c, "failing")
                        /\ UNCHANGED pipe
    /\ UNCHANGED holderState
    /\ UNCHANGED <<output, cancel, closed, files, withdrawn>>
    /\ UNCHANGED <<alive, newer, inbox, turn, running, out>>

\* Mutant: a command is done with once it has ended.
PassedOnceEnded(c) == pc[c] = "failing" \/ output[c] # None

\* Mutant: only a command that was not written is dropped.
PassedUnwritten(c) == pc[c] = "failing"

\* The command is done with: it was not written, or its output is on its way.
Passed(c) == pc[c] = "failing" \/ (pc[Out(c)] \in {"sent", "failed"} /\ ~ Owes(Out(c)))

DropShell(c) ==
    /\ ~ jammed
    /\ c \in ToSet(shells)
    /\ Passed(c)
    /\ shells' = RemoveFirst(shells, c)
    /\ UNCHANGED <<queue, busy, said, accepted, printed, jammed>>
    /\ UNCHANGED holderRest
    /\ UNCHANGED claude

-----------------------------------------------------------------------------
(* Taking a message back: cancel_async_message, and unqueue.               *)

AskBack(m) ==
    /\ MayCancel
    /\ Mixed \/ \A l \in Letters : pc[l] = "idle"
    /\ ~ jammed
    /\ cancel[m] = "none"
    /\ pc[m] = "sent"
    /\ Writable
    /\ cancel' = [cancel EXCEPT ![m] = "asked"]
    /\ pipe' = Append(pipe, Line("cancel", m))
    /\ UNCHANGED holderState
    /\ UNCHANGED <<pc, output, closed, files, withdrawn>>
    /\ UNCHANGED <<alive, newer, inbox, turn, running, out>>

\* controlWait is over: the answer, when it comes, finds nobody waiting.
GiveUp(m) ==
    /\ ~ jammed
    /\ cancel[m] = "asked"
    /\ cancel' = [cancel EXCEPT ![m] = "given up"]
    /\ UNCHANGED holderState
    /\ UNCHANGED <<pc, output, closed, files, withdrawn>>
    /\ UNCHANGED claude

\* Mutant: a message taken back stays in the queue.
UnqueueNothing(m) ==
    /\ ~ jammed
    /\ cancel[m] = "taken"
    /\ cancel' = [cancel EXCEPT ![m] = "done"]
    /\ withdrawn' = withdrawn \union {m}
    /\ UNCHANGED holderState
    /\ Owe(Withdrawing(m))
    /\ UNCHANGED <<pc, output, closed>>
    /\ UNCHANGED claude

\* An id stands in the queue once, so the first is every one of them.
Unqueue(m) ==
    /\ ~ jammed
    /\ cancel[m] = "taken"
    /\ cancel' = [cancel EXCEPT ![m] = "done"]
    /\ queue' = RemoveFirst(queue, m)
    /\ withdrawn' = IF m \in ToSet(queue) THEN withdrawn \union {m} ELSE withdrawn
    /\ UNCHANGED <<busy, said, shells, accepted, printed, jammed>>
    /\ Owe(Withdrawing(m))
    /\ UNCHANGED <<pc, output, closed>>
    /\ UNCHANGED claude

-----------------------------------------------------------------------------
(* The reading goroutine: handle, one event of claude's, a save it owes    *)
(* for it, and the next event.                                             *)

Reads(type) == /\ ~ jammed
               /\ ~ Owes(Reading)
               /\ out # <<>>
               /\ Head(out).type = type
               /\ out' = Tail(out)
               /\ UNCHANGED <<alive, newer, pipe, inbox, turn, running>>

\* Mutant: whatever claude says of a message, the first of the queue goes.
TakenFirst(id, texts) == IF queue = <<>> THEN queue ELSE Tail(queue)

\* Mutant: only the first of the queue is looked at.
TakenAtHead(id, texts) ==
    IF queue # <<>> /\ (Head(queue) = id \/ Text(Head(queue)) \in texts)
    THEN Tail(queue) ELSE queue

\* The queue without the first message of the id or, where one is given, of
\* the text: take.
Matches(q, id, texts) == q = id \/ Text(q) \in texts

Taken(id, texts) ==
    LET hits == {i \in DOMAIN queue : Matches(queue[i], id, texts)}
    IN  IF hits = {} THEN queue
        ELSE LET first == CHOOSE i \in hits : \A j \in hits : i <= j
             IN  RemoveAt(queue, first)

\* Mutant: "started" only takes the message off the queue.
OnStartedQuiet ==
    /\ Reads("started")
    /\ queue' = Taken(Head(out).id, {})
    /\ UNCHANGED <<busy, said, shells, accepted, printed, jammed>>
    /\ Owe(Reading)
    /\ UNCHANGED <<pc, output, cancel, closed, withdrawn>>

\* "started" of a message begins a turn; that of a shell command does not.
OnStarted ==
    /\ Reads("started")
    /\ LET id == Head(out).id
       IN  /\ busy' = (busy \/ id \notin ToSet(shells))
           /\ queue' = Taken(id, {})
    /\ UNCHANGED <<said, shells, accepted, printed, jammed>>
    /\ Owe(Reading)
    /\ UNCHANGED <<pc, output, cancel, closed, withdrawn>>

\* The output of a command is handed to the goroutine that passes it on.
PassOn(c, of) == output' = [output EXCEPT ![c] = of]

\* The end of a shell command: shellEnded.
OnShellEnded ==
    /\ Reads("completed")
    /\ LET c == Head(out).id
       IN  /\ c \in ToSet(shells)
           /\ IF printed = None THEN /\ accepted' = Append(accepted, c)
                                     /\ UNCHANGED output
                                ELSE /\ PassOn(c, printed)
                                     /\ UNCHANGED accepted
    /\ printed' = None
    /\ UNCHANGED <<queue, busy, said, shells, jammed>>
    /\ UNCHANGED <<pc, cancel, closed, files, withdrawn>>

OnCompleted ==
    /\ Reads("completed")
    /\ Head(out).id \notin ToSet(shells)
    /\ queue' = Taken(Head(out).id, {})
    /\ UNCHANGED <<busy, said, shells, accepted, printed, jammed>>
    /\ IF queue' = queue THEN UNCHANGED files ELSE Owe(Reading)
    /\ UNCHANGED <<pc, output, cancel, closed, withdrawn>>

\* The echo of a message claude has read.
OnEcho ==
    /\ Reads("echo")
    /\ LET s == Head(out).id
       IN  queue' = Taken(s, {Text(s)})
    /\ UNCHANGED <<busy, said, shells, accepted, printed, jammed>>
    /\ IF queue' = queue THEN UNCHANGED files ELSE Owe(Reading)
    /\ UNCHANGED <<pc, output, cancel, closed, withdrawn>>

\* Mutant: whichever it is, it is the first command's that waits for one.
OnPrintedFirst(type) ==
    /\ Reads(type)
    /\ IF accepted = <<>>
       THEN /\ printed' = IF shells = <<>> THEN printed ELSE Head(out).id
            /\ UNCHANGED <<accepted, output>>
       ELSE /\ PassOn(Head(accepted), Head(out).id)
            /\ accepted' = Tail(accepted)
            /\ UNCHANGED printed
    /\ UNCHANGED <<queue, busy, said, shells, jammed>>
    /\ UNCHANGED <<pc, cancel, closed, files, withdrawn>>

\* The output of a shell command, or claude's word that it did not run one:
\* shellPrinted.
OnPrinted(type) ==
    /\ Reads(type)
    /\ LET of == Head(out).id
           at == IF type = "not run" THEN Len(accepted) ELSE 1
       IN  IF accepted = <<>>
           THEN /\ printed' = IF shells = <<>> THEN printed ELSE of
                /\ UNCHANGED <<accepted, output>>
           ELSE /\ PassOn(accepted[at], of)
                /\ accepted' = RemoveAt(accepted, at)
                /\ UNCHANGED printed
    /\ UNCHANGED <<queue, busy, said, shells, jammed>>
    /\ UNCHANGED <<pc, cancel, closed, files, withdrawn>>

OnInit ==
    /\ Reads("init")
    /\ busy' = TRUE
    /\ UNCHANGED <<queue, said, shells, accepted, printed, jammed>>
    /\ Owe(Reading)
    /\ UNCHANGED <<pc, output, cancel, closed, withdrawn>>

\* Mutant: the end of a turn does not free the session.
OnResultBusy ==
    /\ Reads("result")
    /\ UNCHANGED holderState
    /\ Owe(Reading)
    /\ UNCHANGED <<pc, output, cancel, closed, withdrawn>>

OnResult ==
    /\ Reads("result")
    /\ busy' = FALSE
    /\ UNCHANGED <<queue, said, shells, accepted, printed, jammed>>
    /\ Owe(Reading)
    /\ UNCHANGED <<pc, output, cancel, closed, withdrawn>>

\* The answer to a control is handed to the goroutine that waits for it.
OnResponse(type) ==
    /\ Reads(type)
    /\ LET m == Head(out).id
       IN  cancel' = IF cancel[m] # "asked" THEN cancel
                     ELSE [cancel EXCEPT ![m] = IF type = "cancelled" THEN "taken" ELSE "done"]
    /\ UNCHANGED holderState
    /\ UNCHANGED <<pc, output, closed, files, withdrawn>>

Reader == \/ OnStarted \/ OnShellEnded \/ OnCompleted \/ OnEcho
          \/ \E type \in {"printed", "not run"} : OnPrinted(type)
          \/ OnInit \/ OnResult
          \/ \E type \in {"cancelled", "not cancelled"} : OnResponse(type)

\* OpClose: nothing more is written.
Close ==
    /\ MayClose
    /\ ~ closed
    /\ closed' = TRUE
    /\ UNCHANGED holderState
    /\ UNCHANGED <<pc, output, cancel, files, withdrawn>>
    /\ UNCHANGED claude

-----------------------------------------------------------------------------
(* Claude.                                                                 *)

Tells(events) == /\ Len(out) + Len(events) <= MaxOut
                 /\ out' = out \o events

ReadMessage ==
    /\ pipe # <<>>
    /\ Head(pipe).kind = "message"
    /\ pipe' = Tail(pipe)
    /\ inbox' = Append(inbox, Head(pipe).id)
    /\ UNCHANGED <<alive, newer, turn, running, out>>

\* A newer claude reports a command started and ended at once, and turns down
\* a second one while the first runs. An older one runs them in turn.
ReadCommand ==
    /\ pipe # <<>>
    /\ Head(pipe).kind = "command"
    /\ pipe' = Tail(pipe)
    /\ LET c == Head(pipe).id
       IN  IF ~ newer
           THEN /\ running = <<>>
                /\ running' = <<c>>
                /\ UNCHANGED out
           ELSE LET taken == <<Event("started", c), Event("completed", c)>>
                IN  IF running = <<>>
                    THEN /\ running' = <<c>>
                         /\ Tells(taken)
                    ELSE /\ Tells(Append(taken, Event("not run", c)))
                         /\ UNCHANGED running
    /\ UNCHANGED <<alive, newer, inbox, turn>>

ReadCancel ==
    /\ pipe # <<>>
    /\ Head(pipe).kind = "cancel"
    /\ pipe' = Tail(pipe)
    /\ LET m == Head(pipe).id
       IN  IF m \in ToSet(inbox)
           THEN /\ inbox' = RemoveFirst(inbox, m)
                /\ Tells(<<Event("cancelled", m)>>)
           ELSE /\ Tells(<<Event("not cancelled", m)>>)
                /\ UNCHANGED inbox
    /\ UNCHANGED <<alive, newer, turn, running>>

\* Between turns the next message begins one.
BeginTurn ==
    /\ turn = <<>>
    /\ inbox # <<>>
    /\ LET s == Head(inbox)
       IN  /\ s \notin Slash
           /\ turn' = <<s>>
           /\ Tells(<<Event("started", s), Event("echo", s)>>)
    /\ inbox' = Tail(inbox)
    /\ UNCHANGED <<alive, newer, pipe, running>>

\* A slash command is run on the spot and never echoed.
RunSlash ==
    /\ turn = <<>>
    /\ inbox # <<>>
    /\ Head(inbox) \in Slash
    /\ LET s == Head(inbox)
       IN  Tells(<<Event("started", s), Event("completed", s), Event("result", s)>>)
    /\ inbox' = Tail(inbox)
    /\ UNCHANGED <<alive, newer, pipe, turn, running>>

\* A message that comes while a turn runs may be taken into it; a letter is
\* kept for the end of the turn.
Absorb ==
    /\ turn # <<>>
    /\ inbox # <<>>
    /\ LET s == Head(inbox)
       IN  /\ s \in Says \ Slash
           /\ turn' = Append(turn, s)
           /\ Tells(<<Event("echo", s), Event("started", s)>>)
    /\ inbox' = Tail(inbox)
    /\ UNCHANGED <<alive, newer, pipe, running>>

\* A turn for the news of a background task; a message it has read goes first.
\* Bound: it leaves room for the longest other word claude may have to write.
BeginOwnTurn ==
    /\ alive
    /\ turn = <<>>
    /\ inbox = <<>>
    /\ Len(out) + 3 <= MaxOut
    /\ turn' = <<Self>>
    /\ Tells(<<Event("init", Self)>>)
    /\ UNCHANGED <<alive, newer, pipe, inbox, running>>

\* The message that began the turn is completed after its result, one taken in
\* on the way before it.
EndTurn ==
    /\ turn # <<>>
    /\ LET done(s) == Event("completed", s)
           absorbed == [i \in 1 .. Len(turn) - 1 |-> done(turn[i + 1])]
           first == IF Head(turn) = Self THEN <<>> ELSE <<done(Head(turn))>>
       IN  Tells(absorbed \o <<Event("result", Head(turn))>> \o first)
    /\ turn' = <<>>
    /\ UNCHANGED <<alive, newer, pipe, inbox, running>>

CommandEnds ==
    /\ running # <<>>
    /\ LET c == Head(running)
       IN  Tells(IF newer THEN <<Event("printed", c)>>
                 ELSE <<Event("printed", c), Event("completed", c)>>)
    /\ running' = <<>>
    /\ UNCHANGED <<alive, newer, pipe, inbox, turn>>

\* Claude ends or falls; of its last events any number are lost with its pipe.
Exit ==
    /\ MayClose
    /\ alive
    /\ alive' = FALSE
    /\ pipe' = <<>>
    /\ inbox' = <<>>
    /\ turn' = <<>>
    /\ running' = <<>>
    /\ \E n \in 0 .. Len(out) : out' = SubSeq(out, 1, n)
    /\ UNCHANGED newer

TakeUp == BeginTurn \/ RunSlash \/ Absorb
ReadLine == ReadMessage \/ ReadCommand \/ ReadCancel

Claude == /\ TakeUp \/ ReadLine \/ BeginOwnTurn \/ EndTurn \/ CommandEnds \/ Exit
          /\ UNCHANGED <<holderState, holderRest>>

-----------------------------------------------------------------------------

Saying(s) == List(s) \/ Write(s) \/ Unlist(s) \/ Settle(s)
Running(c) == Run(c) \/ WriteRun(c) \/ DropShell(c)
Cancelling(m) == AskBack(m) \/ GiveUp(m) \/ Unqueue(m)

Saves == (\E g \in Savers : Snapshot(g)) \/ WriteOut

Next == \/ \E s \in Says : Saying(s)
        \/ \E l \in Letters : WriteLetter(l) \/ Settle(l)
        \/ \E c \in Cmds : Running(c)
        \/ \E m \in Msgs : Cancelling(m)
        \/ Saves
        \/ Reader
        \/ Close
        \/ Claude

Spec == Init /\ [][Next]_vars

\* The goroutines of the holder run, and claude reads its input, takes up what
\* it has read and ends its turns and its commands. That a person sends a
\* message or runs a command, and that claude begins a turn on its own, is not
\* a matter of fairness. Fairness on claude is strong: its steps wait again and
\* again for the holder to read what it wrote (MaxOut).
Fairness ==
    /\ WF_vars(Reader)
    /\ WF_vars(WriteOut) /\ \A g \in Savers : SF_vars(Snapshot(g))
    /\ \A s \in Says : WF_vars(Write(s) \/ Unlist(s) \/ Settle(s))
    /\ \A c \in Cmds : WF_vars(List(Out(c))) /\ WF_vars(WriteRun(c)) /\ WF_vars(DropShell(c))
    /\ \A m \in Msgs : WF_vars(Unqueue(m))
    /\ SF_vars(TakeUp /\ Claude)
    /\ SF_vars(ReadLine /\ Claude)
    /\ SF_vars(EndTurn /\ Claude)
    /\ SF_vars(CommandEnds /\ Claude)

FairSpec == Spec /\ Fairness

-----------------------------------------------------------------------------

\* Claude has the message, or will read it, and has said nothing of it yet.
Unread(s) == Line("message", s) \in ToSet(pipe) \/ s \in ToSet(inbox)

Open == alive /\ ~ closed

\* The queue is what the panel shows as not read yet and what stands in the way
\* of a switch: a message claude has not read is in it, whoever sends, takes
\* back or passes on another one meanwhile.
UnreadIsQueued == Open => \A s \in Says : Unread(s) => s \in ToSet(queue)

\* Word of the message is on its way, or the goroutine that forgets it is.
WordOf(s) == \/ \E e \in ToSet(out) : /\ e.id = s
                                       /\ e.type \in {"started", "echo", "completed", "cancelled"}
             \/ s \in Msgs /\ cancel[s] = "taken"

\* The holder stopped waiting for claude's word on the message.
GivenUp(s) == s \in Msgs /\ cancel[s] = "given up"

\* Nothing else stays in the queue: a message claude read, ran or gave back and
\* the holder did not forget would stand in the way of a switch for good. The
\* one exception is a message whose taking back claude did not answer in time.
QueuedIsPending ==
    Open => \A s \in ToSet(queue) :
                pc[s] = "listed" \/ Unread(s) \/ WordOf(s) \/ GivenUp(s)

\* "unqueue forgets a message claude took back: it will never be read, and a
\* queue that still held it would stand in the way of a switch for good", one
\* claude took back after controlWait among them.
TakenBackIsForgotten ==
    Open => \A s \in ToSet(queue) : GivenUp(s) => Unread(s) \/ WordOf(s)

\* The session never looks free while claude answers a message of the person
\* or the output of a command: it is busy, or something is in the queue.
AnswerIsSeen ==
    Open /\ ToSet(turn) \intersect Says # {} => busy \/ queue # <<>>

AtRest == /\ Open
          /\ pipe = <<>> /\ inbox = <<>> /\ out = <<>> /\ turn = <<>>
          /\ \A s \in Says : pc[s] \in {"idle", "sent"}

\* With nothing left to read, to write or to answer the session is free, unless
\* a message was taken back: then no result comes for it.
TakenBack(m) == m \in withdrawn \/ cancel[m] \in {"taken", "given up"}
QuietIsFree == AtRest /\ (\A m \in Msgs : ~ TakenBack(m)) => ~ busy

\* Between the panel's command and the message that carries its output, the
\* command is among those that hold a switch back.
Unpassed(c) ==
    \/ Line("command", c) \in ToSet(pipe)
    \/ c \in ToSet(running)
    \/ \E e \in ToSet(out) : e.id = c
    \/ output[c] # None /\ pc[Out(c)] \in {"idle", "listed"}

ShellStaysUntilPassed == Open => \A c \in Cmds : Unpassed(c) => c \in ToSet(shells)

\* What a command printed goes into the conversation under that command, in
\* either order claude reports its end and its output.
OutputToItsCommand == \A c \in Cmds : output[c] \in {None, c}

\* The state file the collector reads says what the holder knows whenever no
\* message is half sent and no goroutine has yet to save it: no change is left
\* unsaved, and no older summary is written over a newer one, in whatever order
\* the goroutines that changed something come to their saves.
FileIsCurrent ==
    /\ Open
    /\ \A s \in Says : pc[s] \in {"idle", "sent"}
    /\ owing = {} /\ saving = {}
    => file = Summary

\* "A mistake in answering one request costs that request, not the session":
\* no goroutine falls with h.mu held.
SessionGoesOn == ~ jammed

\* While the session goes on, every message leaves the queue, and every command
\* the list of those running: neither stands in the way of a switch for good.
EveryMessageLeaves ==
    \A s \in Says : s \in ToSet(queue) ~> s \notin ToSet(queue) \/ ~ Open
EveryCommandEnds ==
    \A c \in Cmds : c \in ToSet(shells) ~> c \notin ToSet(shells) \/ ~ Open
=============================================================================
