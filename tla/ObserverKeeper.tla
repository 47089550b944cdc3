--------------------------- MODULE ObserverKeeper ---------------------------
(***************************************************************************)
(* The observers of one session (internal/observer): the executor starts   *)
(* the command of each in a unit of its own, reads what it prints from a   *)
(* log of two files, wakes the session with a letter of the lines, and     *)
(* keeps in a record how far it has read. The executor may fall between    *)
(* any two steps; the units and the records stay, and the next executor    *)
(* takes them back.                                                        *)
(*                                                                         *)
(* One goroutine looks at one observer after another. A start and a stop   *)
(* are goroutines of their own; a look and a stop hold the observer's busy *)
(* lock, here look and call. The lines of a command are numbered; the      *)
(* file that holds line i is the ((i - 1) div FileLines + 1)st it wrote.   *)
(***************************************************************************)
EXTENDS Integers, FiniteSets, FiniteSetsExt

CONSTANTS Obs,         \* the observers the session asks for, each once
          Name,        \* the name of each
          Lines,       \* how many lines its command prints at most
          Worth,       \* the lines it wakes the session for
          Inode,       \* the number the file system gives each file of its log
          MayStop,     \* those that may be stopped
          Absences,    \* what becomes of a thread of codex for a while: its daemon
                       \* is not reached (away), or does not list it (missed)
          PerSession,  \* as many observers as a session keeps
          FileLines,   \* lines in a file of the log before it is moved aside
          LookLines,   \* lines one look reads (readMax)
          WakeTries,   \* wakes tried before the lines are dropped
          GoneSteps,   \* looks in a row that find the session gone
          MaxFalls,    \* bound: falls of the executor
          MaxAway,     \* bound: times that happens
          MayGo,       \* bound: the session may go for good
          Late,        \* bound: the observers whose unit may be late to run them
          None         \* no record, no watch, nothing held

ASSUME KeeperAssumption ==
    /\ IsFiniteSet(Obs)
    /\ DOMAIN Name = Obs
    /\ Lines \in [Obs -> Nat]
    /\ \A o \in Obs : Worth[o] \subseteq 1 .. Lines[o]
    \* a file is made beside the one moved aside: later it may have its number
    /\ \A o \in Obs : /\ Inode[o] \in [1 .. Lines[o] -> Nat]
                      /\ \A f \in 1 .. Lines[o] - 1 : Inode[o][f] # Inode[o][f + 1]
    /\ MayStop \subseteq Obs /\ Late \subseteq Obs
    /\ MayGo \in BOOLEAN
    /\ Absences \subseteq {"away", "missed"}
    /\ {PerSession, FileLines, LookLines, WakeTries, GoneSteps} \subseteq Nat \ {0}
    /\ {MaxFalls, MaxAway} \subseteq Nat

VARIABLES
    \* outside the executor
    owner,       \* the session: there, away, missed or gone
    unit,        \* the unit of each observer
    ran,         \* the observers whose unit has written its pid
    printed,     \* the lines its command has printed
    disk,        \* its record
    \* the executor
    up,          \* it is there
    kept,        \* the observers it keeps
    watch,       \* each as it follows it, or followed it last
    look,        \* where its look stands
    call,        \* where the stop of each stands
    pressed,     \* the observers whose stop came from the panel
    starting,    \* the observer being started
    \* history
    told,        \* what the session was told of each
    dropped,     \* what was dropped after WakeTries
    missed,      \* lines gone from the log before they were read
    slipped,     \* lines passed over, their file taken for one that is gone
    paused,      \* what waited when the session's absence was written down
    excused,     \* what may be told twice
    early,       \* observers taken for ended, their unit late to run them
    noticed,     \* observers the session had the panel's letter of
    loose,       \* units the manager's answer said nothing true of
    cut,         \* observers whose end was cut by a fall
    falls, aways \* counters of the bounds

outside == <<owner, unit, ran, printed>>
following == <<kept, watch>>
calls == <<call, pressed, starting>>
counters == <<falls, aways>>
account == <<told, dropped, missed, slipped, paused, excused>>
history == <<account, early, noticed, loose, cut>>
vars == <<outside, disk, up, following, look, calls, history, counters>>

-----------------------------------------------------------------------------

\* Told with the lines: that the command ended, and how.
TheEnd == 0

Cursor == [inode : Nat, offset : Nat]
Record == [at : Cursor, away : BOOLEAN, ended : BOOLEAN]
NewRecord == [at |-> [inode |-> 0, offset |-> 0], away |-> FALSE, ended |-> FALSE]

\* rec is the record as the keeper has it, batch the lines waiting for a wake.
Watch == [rec : Record, ready : BOOLEAN, batch : SUBSET Nat, ended : BOOLEAN,
          tries : Nat, gone : Nat]

\* What stands for nothing is nothing else.
ASSUME NoneAssumption == None \notin Obs /\ None \notin Record /\ None \notin Watch

Taken(rec) == [rec |-> rec, ready |-> TRUE, batch |-> {}, ended |-> FALSE,
               tries |-> 0, gone |-> 0]

Look == [at : {"reading", "waking", "settling"}, of : Obs, rec : Record,
         final : BOOLEAN, changed : BOOLEAN]
        \union [at : {"ending", "removing"}, of : Obs]
Idle == [at |-> "idle"]

TypeOK ==
    /\ owner \in {"there", "away", "missed", "gone"}
    /\ unit \in [Obs -> {"none", "runs", "ended"}]
    /\ printed \in [Obs -> Nat] /\ \A o \in Obs : printed[o] <= Lines[o]
    /\ disk \in [Obs -> Record \union {None}]
    /\ up \in BOOLEAN
    /\ kept \subseteq Obs
    /\ watch \in [Obs -> Watch \union {None}] /\ \A o \in kept : watch[o] # None
    /\ look = Idle \/ look \in Look
    /\ call \in [Obs -> {"none", "waits", "ending", "removing", "noticing", "answered"}]
    /\ starting \in Obs \union {None}
    /\ {told, dropped, missed, slipped, paused, excused} \subseteq [Obs -> SUBSET Nat]
    /\ {ran, pressed, early, noticed, loose, cut} \subseteq SUBSET Obs

Init ==
    /\ owner = "there"
    /\ unit = [o \in Obs |-> "none"]
    /\ ran = {}
    /\ printed = [o \in Obs |-> 0]
    /\ disk = [o \in Obs |-> None]
    /\ up = TRUE
    /\ kept = {}
    /\ watch = [o \in Obs |-> None]
    /\ look = Idle
    /\ call = [o \in Obs |-> "none"]
    /\ pressed = {}
    /\ starting = None
    /\ told = [o \in Obs |-> {}]
    /\ dropped = [o \in Obs |-> {}]
    /\ missed = [o \in Obs |-> {}]
    /\ slipped = [o \in Obs |-> {}]
    /\ paused = [o \in Obs |-> {}]
    /\ excused = [o \in Obs |-> {}]
    /\ early = {}
    /\ noticed = {}
    /\ loose = {}
    /\ cut = {}
    /\ falls = 0
    /\ aways = 0

Looking(o) == look # Idle /\ look.of = o
Stopping(o) == call[o] \in {"ending", "removing"}

-----------------------------------------------------------------------------
(* The log: readOn.                                                        *)

\* The newest file of the log, and the lines a file holds.
Newest(o) == IF printed[o] = 0 THEN 0 ELSE (printed[o] - 1) \div FileLines + 1
\* Mutant: the last line of a file is taken for an unfinished one.
HoldsButLast(o, file) == Min({FileLines, printed[o] - (file - 1) * FileLines}) - 1

Holds(o, file) == Min({FileLines, printed[o] - (file - 1) * FileLines})

\* Where a look begins. A file is known by its number: one made after the file
\* the last look stood in was removed may have the number of that one, and is
\* read from where the other was read to. Of no file yet, the file moved aside
\* comes first; of a file that is gone, the file there now.
From(o, at) ==
    LET new == Newest(o)
    IN  CASE at.inode = 0 -> [inode |-> Max({1, new - 1}), offset |-> 0]
          [] at.inode # 0 /\ Inode[o][at.inode] = Inode[o][new] ->
                 [inode |-> new, offset |-> at.offset]
          [] at.inode # 0 /\ Inode[o][at.inode] # Inode[o][new]
                          /\ new > 1 /\ Inode[o][at.inode] = Inode[o][new - 1] ->
                 [inode |-> new - 1, offset |-> at.offset]
          [] OTHER -> [inode |-> new, offset |-> 0]

Position(at) == IF at.inode = 0 THEN 0 ELSE (at.inode - 1) * FileLines + at.offset

\* The file of the look is another than the last look stood in, and has its number.
Mistaken(o, at) == /\ at.inode \notin {0, From(o, at).inode}
                   /\ Inode[o][at.inode] = Inode[o][From(o, at).inode]

\* The lines a look passes over.
Passed(o, at) == IF Newest(o) = 0 THEN {} ELSE Position(at) + 1 .. Position(From(o, at))

ReadOn(o, at) ==
    IF Newest(o) = 0 THEN [lines |-> {}, next |-> at, more |-> FALSE]
    ELSE LET from == From(o, at)
             n == Min({LookLines, Max({0, Holds(o, from.inode) - from.offset})})
             eof == from.offset + n >= Holds(o, from.inode)
             aside == from.inode < Newest(o)
         IN  [lines |-> Position(from) + 1 .. Position(from) + n,
              next  |-> IF aside /\ eof THEN [inode |-> Newest(o), offset |-> 0]
                        ELSE [from EXCEPT !.offset = @ + n],
              more  |-> aside \/ ~ eof]

-----------------------------------------------------------------------------
(* A look at an observer: lookAt, with the observer held.                  *)

\* Mutant: whether the observer is still kept is not asked once it is held.
CanLookThoughStopped(o) == /\ up /\ look = Idle
                           /\ watch[o] # None /\ watch[o].ready
                           /\ ~ Stopping(o)

CanLook(o) == /\ up /\ look = Idle
              /\ watch[o] # None /\ watch[o].ready
              /\ ~ Stopping(o)
              /\ o \in kept

\* The absence of the session is written down when it begins and when it is
\* over, with the record in memory as it stands.
Noted(o, away, gone, ended) ==
    LET rec == [watch[o].rec EXCEPT !.away = away]
    IN  /\ watch' = [watch EXCEPT ![o].rec = rec, ![o].gone = gone, ![o].ended = ended]
        /\ IF rec = watch[o].rec THEN UNCHANGED <<disk, paused>>
           ELSE /\ disk' = [disk EXCEPT ![o] = rec]
                /\ paused' = [paused EXCEPT ![o] = @ \union watch[o].batch]

\* The unit has written its pid.
Begun(o) == o \in ran \/ o \notin Late

\* Whether the command has ended is read before the log is, until the end was
\* told. One whose unit has written no pid is taken for ended once startGrace
\* is over: when it is over is a choice.
HasEnded(o, over) ==
    \/ watch[o].ended
    \/ /\ ~ watch[o].rec.ended
       /\ IF Begun(o) THEN unit[o] # "runs" ELSE over

LookOn(o, over) ==
    /\ CanLook(o)
    /\ owner = "there"
    /\ over => ~ Begun(o)
    /\ Noted(o, FALSE, 0, HasEnded(o, over))
    /\ early' = IF HasEnded(o, over) /\ unit[o] = "runs" THEN early \union {o} ELSE early
    /\ look' = IF watch[o].rec.ended THEN Idle
               ELSE [at |-> "reading", of |-> o, rec |-> watch'[o].rec,
                     final |-> FALSE, changed |-> FALSE]
    /\ UNCHANGED <<outside, up, kept, calls, counters>>
    /\ UNCHANGED <<told, dropped, missed, slipped, excused, noticed, loose, cut>>

LookAway(o) ==
    /\ CanLook(o)
    /\ owner = "away"
    /\ Noted(o, TRUE, 0, watch[o].ended)
    /\ UNCHANGED <<outside, up, kept, look, calls>>
    /\ UNCHANGED <<told, dropped, missed, slipped, excused, early, noticed, loose, cut, counters>>

LookGone(o) ==
    /\ CanLook(o)
    /\ owner \in {"missed", "gone"}
    /\ watch[o].gone + 1 < GoneSteps
    /\ Noted(o, FALSE, watch[o].gone + 1, watch[o].ended)
    /\ UNCHANGED <<outside, up, kept, look, calls>>
    /\ UNCHANGED <<told, dropped, missed, slipped, excused, early, noticed, loose, cut, counters>>

\* Mutant: one look more than is ever counted.
GoneForGoodLate(o) == owner \in {"missed", "gone"} /\ watch[o].gone > GoneSteps

\* A daemon of codex that is not reached is waited for an hour in all: when
\* the hour is over is a choice.
GoneForGood(o) == \/ owner \in {"missed", "gone"} /\ watch[o].gone + 1 >= GoneSteps
                  \/ owner = "away" /\ watch[o].rec.away

LookLeaves(o) ==
    /\ CanLook(o)
    /\ GoneForGood(o)
    /\ kept' = kept \ {o}
    /\ look' = [at |-> "ending", of |-> o]
    /\ UNCHANGED <<outside, disk, up, watch, calls, history, counters>>

\* Mutant: the end is told before the log is read to its end.
FinalAtOnce(ended, more) == ended

Final(ended, more) == ended /\ ~ more

\* The lines of the log, and whether a wake is due: when the seconds of
\* gathering are over is a choice.
ReadLog(due) ==
    /\ look.at = "reading"
    /\ LET o == look.of
           w == watch[o]
           read == ReadOn(o, w.rec.at)
           batch == w.batch \union (read.lines \intersect Worth[o])
           rec == [look.rec EXCEPT !.at = read.next]
           final == Final(w.ended, read.more)
       IN  /\ due => batch # {}
           /\ IF Mistaken(o, w.rec.at)
              THEN /\ slipped' = [slipped EXCEPT ![o] = @ \union Passed(o, w.rec.at)]
                   /\ UNCHANGED missed
              ELSE /\ missed' = [missed EXCEPT ![o] = @ \union Passed(o, w.rec.at)]
                   /\ UNCHANGED slipped
           /\ watch' = [watch EXCEPT ![o].batch = batch]
           /\ look' = [look EXCEPT !.at = IF final \/ due THEN "waking" ELSE "settling",
                                   !.rec = rec, !.final = final, !.changed = rec # w.rec]
    /\ UNCHANGED <<outside, disk, up, kept, calls, counters>>
    /\ UNCHANGED <<told, dropped, paused, excused, early, noticed, loose, cut>>

\* What the letter of a wake says.
Letter == watch[look.of].batch \union (IF look.final THEN {TheEnd} ELSE {})

\* The wake went, or it was tried for the last time.
Done(taken) ==
    LET o == look.of
    IN  /\ watch' = [watch EXCEPT ![o].batch = {}, ![o].tries = 0]
        /\ look' = [look EXCEPT !.at = "settling", !.rec.ended = @ \/ look.final,
                                !.changed = @ \/ look.final \/ taken]

WakeTaken ==
    /\ look.at = "waking"
    /\ owner = "there"
    /\ told' = [told EXCEPT ![look.of] = @ \union Letter]
    /\ Done(TRUE)
    /\ UNCHANGED <<outside, disk, up, kept, calls, counters>>
    /\ UNCHANGED <<dropped, missed, slipped, paused, excused, early, noticed, loose, cut>>

\* The session did not take it, or took it and the keeper did not learn it did.
WakeFailed(taken) ==
    /\ look.at = "waking"
    /\ taken => owner = "there"
    /\ LET o == look.of
           last == watch[o].tries + 1 = WakeTries
       IN  /\ IF last THEN Done(FALSE)
              ELSE /\ watch' = [watch EXCEPT ![o].tries = @ + 1]
                   /\ look' = [look EXCEPT !.at = "settling"]
           /\ dropped' = IF last THEN [dropped EXCEPT ![o] = @ \union Letter] ELSE dropped
           /\ IF taken THEN /\ told' = [told EXCEPT ![o] = @ \union Letter]
                            /\ excused' = [excused EXCEPT ![o] = @ \union Letter]
              ELSE UNCHANGED <<told, excused>>
    /\ UNCHANGED <<outside, disk, up, kept, calls, counters>>
    /\ UNCHANGED <<missed, slipped, paused, early, noticed, loose, cut>>

\* Mutant: the record is written whether or not lines wait for a wake.
ToWriteAtOnce(o) == look.changed

\* What is read is kept as read only once its wake went.
ToWrite(o) == look.changed /\ watch[o].batch = {}

Settle ==
    /\ look.at = "settling"
    /\ LET o == look.of
       IN  /\ watch' = [watch EXCEPT ![o].rec = look.rec]
           /\ disk' = IF ToWrite(o) THEN [disk EXCEPT ![o] = look.rec] ELSE disk
    /\ look' = Idle
    /\ UNCHANGED <<outside, up, kept, calls, history, counters>>

-----------------------------------------------------------------------------
(* The end of an observer: endHeld, for a stop or for a look.              *)

\* Mutant: the stop is called with a context that is over.
UnitStopsNot(o) == UNCHANGED <<unit, loose>>

\* The manager stops the unit, or does not in time.
UnitStops(o) ==
    \/ /\ unit' = [unit EXCEPT ![o] = "ended"]
       /\ UNCHANGED loose
    \/ /\ unit[o] = "runs"
       /\ loose' = loose \union {o}
       /\ UNCHANGED unit

\* The session asks, which has to be found for it, or the panel does.
StopAsked(o, press) ==
    /\ up
    /\ press \/ owner = "there"
    /\ o \in MayStop \intersect kept /\ watch[o].ready
    /\ call[o] = "none"
    /\ call' = [call EXCEPT ![o] = "waits"]
    /\ pressed' = IF press THEN pressed \union {o} ELSE pressed \ {o}
    /\ UNCHANGED <<outside, disk, up, following, look, starting, history, counters>>

\* The stop holds the observer, once a look at it is over, and keeps it no
\* more; one that ended meanwhile is answered for.
StopHolds(o) ==
    /\ call[o] = "waits"
    /\ ~ Looking(o)
    /\ call' = [call EXCEPT ![o] = IF o \in kept THEN "ending" ELSE "answered"]
    /\ kept' = kept \ {o}
    /\ UNCHANGED <<outside, disk, up, watch, look, pressed, starting, history, counters>>

StopEnds(o) ==
    /\ call[o] = "ending"
    /\ call' = [call EXCEPT ![o] = "removing"]
    /\ UnitStops(o)
    /\ UNCHANGED <<owner, ran, printed, disk, up, following, look, pressed, starting>>
    /\ UNCHANGED <<account, early, noticed, cut, counters>>

StopRemoves(o) ==
    /\ call[o] = "removing"
    /\ call' = [call EXCEPT ![o] = IF o \in pressed THEN "noticing" ELSE "answered"]
    /\ disk' = [disk EXCEPT ![o] = None]
    /\ UNCHANGED <<outside, up, following, look, pressed, starting, history, counters>>

\* The panel's stop is answered once the session was written to of it.
StopNotices(o, taken) ==
    /\ call[o] = "noticing"
    /\ call' = [call EXCEPT ![o] = "answered"]
    /\ taken => owner = "there"
    /\ noticed' = IF taken THEN noticed \union {o} ELSE noticed
    /\ UNCHANGED <<outside, disk, up, following, look, pressed, starting>>
    /\ UNCHANGED <<account, early, loose, cut, counters>>

LookEnds ==
    /\ look.at = "ending"
    /\ look' = [look EXCEPT !.at = "removing"]
    /\ UnitStops(look.of)
    /\ UNCHANGED <<owner, ran, printed, disk, up, following, calls>>
    /\ UNCHANGED <<account, early, noticed, cut, counters>>

LookRemoves ==
    /\ look.at = "removing"
    /\ look' = Idle
    /\ disk' = [disk EXCEPT ![look.of] = None]
    /\ watch' = [watch EXCEPT ![look.of] = None]
    /\ UNCHANGED <<outside, up, kept, calls, history, counters>>

-----------------------------------------------------------------------------
(* Start.                                                                  *)

\* Mutant: the names are not compared.
PlaceOfAnyName(o) == Cardinality(kept) < PerSession

Place(o) == /\ \A p \in kept : Name[p] # Name[o]
            /\ Cardinality(kept) < PerSession

\* The place is taken and the record written before the unit is started. The
\* starts are one after another; each observer is asked for once.
StartWrites(o) ==
    /\ up /\ owner = "there"
    /\ starting = None
    /\ watch[o] = None /\ disk[o] = None /\ unit[o] = "none"
    /\ Place(o)
    /\ kept' = kept \union {o}
    /\ watch' = [watch EXCEPT ![o] = [Taken(NewRecord) EXCEPT !.ready = FALSE]]
    /\ disk' = [disk EXCEPT ![o] = NewRecord]
    /\ starting' = o
    /\ UNCHANGED <<outside, up, look, call, pressed, history, counters>>

UnitStarts ==
    /\ starting # None
    /\ unit' = [unit EXCEPT ![starting] = "runs"]
    /\ watch' = [watch EXCEPT ![starting].ready = TRUE]
    /\ starting' = None
    /\ UNCHANGED <<owner, ran, printed, disk, up, kept, look, call, pressed, history, counters>>

\* The unit did not start, or callWait was over before the manager said it had.
UnitFails(runs) ==
    /\ starting # None
    /\ unit' = [unit EXCEPT ![starting] = IF runs THEN "runs" ELSE "ended"]
    /\ loose' = IF runs THEN loose \union {starting} ELSE loose
    /\ kept' = kept \ {starting}
    /\ watch' = [watch EXCEPT ![starting] = None]
    /\ disk' = [disk EXCEPT ![starting] = None]
    /\ starting' = None
    /\ UNCHANGED <<owner, ran, printed, up, look, call, pressed>>
    /\ UNCHANGED <<account, early, noticed, cut, counters>>

-----------------------------------------------------------------------------
(* The executor falls, and the next takes back what it finds: load.        *)

\* What the session was told, and the record on the disk does not say so.
Unwritten(o) ==
    {i \in told[o] :
        /\ disk[o] # None
        /\ IF i = TheEnd THEN ~ disk[o].ended ELSE i > Position(disk[o].at)}

Ending(o) == Stopping(o) \/ (Looking(o) /\ look.at \in {"ending", "removing"})

Fall ==
    /\ up
    /\ falls < MaxFalls
    /\ falls' = falls + 1
    /\ up' = FALSE
    /\ kept' = {}
    /\ watch' = [o \in Obs |-> None]
    /\ look' = Idle
    /\ call' = [o \in Obs |-> IF call[o] = "answered" THEN "answered" ELSE "none"]
    /\ starting' = None
    /\ excused' = [o \in Obs |-> excused[o] \union Unwritten(o)]
    /\ cut' = cut \union {o \in Obs : Ending(o)}
    /\ \/ UNCHANGED unit
       \/ /\ starting # None   \* the manager had the call already
          /\ unit' = [unit EXCEPT ![starting] = "runs"]
    /\ UNCHANGED <<owner, ran, printed, disk, pressed, aways>>
    /\ UNCHANGED <<told, dropped, missed, slipped, paused, early, noticed, loose>>

\* Mutant: the directory is taken back, whatever became of the record in it.
BackOfEach(o) == Taken(disk[o])

\* Mutant: an observer is followed from the start of its log again.
BackAnew(o) == IF disk[o] = None THEN None ELSE Taken(NewRecord)

Back(o) == IF disk[o] = None THEN None ELSE Taken(disk[o])

\* A unit no record names is stopped, unless the units were not listed.
Load ==
    /\ ~ up
    /\ up' = TRUE
    /\ kept' = {o \in Obs : disk[o] # None}
    /\ watch' = [o \in Obs |-> Back(o)]
    /\ LET stray == {o \in Obs : unit[o] = "runs" /\ disk[o] = None}
       IN  \/ /\ unit' = [o \in Obs |-> IF o \in stray THEN "ended" ELSE unit[o]]
              /\ UNCHANGED loose
           \/ /\ loose' = loose \union stray
              /\ UNCHANGED unit
    /\ UNCHANGED <<owner, ran, printed, disk, look, calls>>
    /\ UNCHANGED <<account, early, noticed, cut, counters>>

-----------------------------------------------------------------------------
(* The command in its unit, and the session.                               *)

\* The observer in the unit writes its pid before it starts the command.
Begins(o) ==
    /\ unit[o] = "runs" /\ disk[o] # None
    /\ ~ Begun(o)
    /\ ran' = ran \union {o}
    /\ UNCHANGED <<owner, unit, printed, disk, up, following, look, calls, history, counters>>

Prints(o) ==
    /\ unit[o] = "runs" /\ disk[o] # None
    /\ Begun(o)
    /\ printed[o] < Lines[o]
    /\ printed' = [printed EXCEPT ![o] = @ + 1]
    /\ UNCHANGED <<owner, unit, ran, disk, up, following, look, calls, history, counters>>

\* It ends with a word of how, or its unit is killed whole: the keeper tells
\* both as the end.
CommandEnds(o) ==
    /\ unit[o] = "runs"
    /\ unit' = [unit EXCEPT ![o] = "ended"]
    /\ UNCHANGED <<owner, ran, printed, disk, up, following, look, calls, history, counters>>

OwnerGoes ==
    /\ MayGo /\ owner # "gone"
    /\ owner' = "gone"
    /\ UNCHANGED <<unit, ran, printed, disk, up, following, look, calls, history, counters>>

\* The daemon is not reached, or misses the thread for some reads.
OwnerIsAway(as) ==
    /\ owner = "there"
    /\ aways < MaxAway
    /\ aways' = aways + 1
    /\ owner' = as
    /\ UNCHANGED <<unit, ran, printed, disk, up, following, look, calls, history, falls>>

OwnerIsBack ==
    /\ owner \in {"away", "missed"}
    /\ owner' = "there"
    /\ UNCHANGED <<unit, ran, printed, disk, up, following, look, calls, history, counters>>

-----------------------------------------------------------------------------

LookAt(o) == (\E over \in BOOLEAN : LookOn(o, over)) \/ LookAway(o) \/ LookGone(o) \/ LookLeaves(o)
Reads == \E due \in BOOLEAN : ReadLog(due)
Wakes == WakeTaken \/ \E taken \in BOOLEAN : WakeFailed(taken)
LookGoesOn == Reads \/ Wakes \/ Settle \/ LookEnds \/ LookRemoves
StopGoesOn(o) == \/ StopHolds(o) \/ StopEnds(o) \/ StopRemoves(o)
                 \/ \E taken \in BOOLEAN : StopNotices(o, taken)
Stop(o) == (\E press \in BOOLEAN : StopAsked(o, press)) \/ StopGoesOn(o)
Starts == UnitStarts \/ \E runs \in BOOLEAN : UnitFails(runs)
Environment == \/ \E o \in Obs : Begins(o) \/ Prints(o) \/ CommandEnds(o)
               \/ OwnerGoes \/ OwnerIsBack
               \/ \E as \in Absences : OwnerIsAway(as)

Next == \/ \E o \in Obs : LookAt(o) \/ Stop(o) \/ StartWrites(o)
        \/ LookGoesOn
        \/ Starts
        \/ Fall \/ Load
        \/ Environment

Spec == Init /\ [][Next]_vars

\* The executor runs again after a fall, looks at each observer again and
\* again, and the seconds of gathering pass; the goroutines of a start and of
\* a stop run. Nothing is assumed of the session, its commands or the wakes.
Fairness ==
    /\ WF_vars(Load)
    /\ \A o \in Obs : SF_vars(LookAt(o))
    /\ WF_vars(LookGoesOn) /\ SF_vars(ReadLog(TRUE))
    /\ WF_vars(Starts)
    /\ \A o \in MayStop : WF_vars(StopGoesOn(o))

FairSpec == Spec /\ Fairness

-----------------------------------------------------------------------------

\* What the record on the disk has as read, and nobody was told, though the
\* log had it: an executor started again does not read it either.
ReadUntold(o) ==
    IF disk[o] = None THEN {}
    ELSE {i \in Worth[o] : i <= Position(disk[o].at)} \ (told[o] \union dropped[o] \union missed[o])

\* "What is read is kept as read only once its wake went, so a crash between
\* the two costs a second letter, never a lost one" (ARCHITECTURE.md).
ReadIsTold == \A o \in Obs : ReadUntold(o) = {}

\* A record says more than was told only of the lines that waited when the
\* absence of the session was written down and of those of a file taken for one
\* that is gone: no other order of looks, wakes, drops and falls loses a line.
OnlyAPauseLoses == \A o \in Obs : ReadUntold(o) \subseteq paused[o] \union slipped[o]

\* A letter repeats only what the keeper could not know was told: lines of a
\* wake it was told had failed, or of one a fall came after, before the record.
NothingToldTwice ==
    look # Idle /\ look.at = "waking" => Letter \intersect told[look.of] \subseteq excused[look.of]

\* The lines there is an account of: told, dropped, or lost in a way that is known.
Accounted(o) == told[o] \union dropped[o] \union missed[o] \union slipped[o] \union paused[o]

\* When the session has heard that a command ended it has heard every line of it
\* that woke, but for those accounted for and those of a command whose unit was
\* later than startGrace.
EndComesLast ==
    \A o \in Obs \ early :
        TheEnd \in told[o] => Worth[o] \intersect 1 .. printed[o] \subseteq Accounted(o)

\* No unit runs for nobody: the executor follows it, or is starting or ending
\* it, or the manager did not do or say what it was asked.
UnitIsFollowed ==
    up => \A o \in Obs :
        unit[o] = "runs" => o \in kept \union loose \/ starting = o \/ Ending(o)

\* A session keeps so many observers, each of its own name, through falls too.
\* One whose end was cut by a fall comes back beside those started meanwhile.
PlacesAreKept ==
    LET own == kept \ cut
    IN  /\ Cardinality(own) <= PerSession
        /\ \A o, p \in own : Name[o] = Name[p] => o = p

\* Once a stop is answered the session hears of the observer no more, whatever
\* look was under way: of the panel's stop it has heard before.
NoWordAfterStop ==
    [][\A o \in Obs : call[o] = "answered" =>
            told'[o] = told[o] /\ (o \in noticed' => o \in noticed)]_vars

\* A session that is gone leaves no record and no observer that is followed.
GoneLeaveNothing ==
    owner = "gone" ~> \A o \in Obs : disk[o] = None /\ o \notin kept

\* With its session there for good there is, again and again, a moment when each
\* line its command printed and it wakes for is accounted for, unless the observer
\* is ended first or was taken for ended too early.
LinesAreTold ==
    <>[](owner = "there") =>
        \A o \in Obs : []<>(\/ Worth[o] \intersect 1 .. printed[o] \subseteq Accounted(o)
                            \/ disk[o] = None
                            \/ o \in early)
=============================================================================
