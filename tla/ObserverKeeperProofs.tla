------------------------ MODULE ObserverKeeperProofs ------------------------
(***************************************************************************)
(* What TLAPS proves of the places of observers in ObserverKeeper, for any *)
(* observers, lines and bounds: the types, that no unit runs for nobody,   *)
(* that a stop answered is the end of it, and that a session keeps no more *)
(* observers than it may.                                                  *)
(*                                                                         *)
(* An observer is in four places: kept by the executor, on the disk, in a  *)
(* unit of the manager, and held by a look, a stop or a start.  PlaceInv   *)
(* says how they go together between any two steps, falls included.        *)
(*                                                                         *)
(* And of their lines, for any length of a log and of its files and any    *)
(* numbers of the files: no line is lost but to a pause or to a file taken *)
(* for one that is gone, a letter repeats only what the keeper could not   *)
(* know was told, and the word of the end comes last unless it comes too   *)
(* early.  A record is a claim about lines the keeper reads never again.   *)
(* LogInv says of each place a record is in (the disk, the watch and the   *)
(* look) that the lines up to it are accounted for, or wait in the batch   *)
(* of the watch, and that what was told past it is excused.                *)
(***************************************************************************)
EXTENDS ObserverKeeper, FiniteSetTheorems, TLAPS

\* The steps of a look that reads; the others end the observer.
Steps == {"reading", "waking", "settling"}

\* Its unit was asked to stop: it has, or the manager did not stop it.
Stopped(o) == unit[o] = "ended" \/ (unit[o] = "runs" /\ o \in loose)

\* Nobody asked for it yet.
Fresh(o) == disk[o] = None /\ unit[o] = "none"

Followed(o) ==
    /\ Fresh(o) => watch[o] = None /\ call[o] = "none"
    /\ watch[o] # None => up
    /\ o \in kept => watch[o] # None /\ disk[o] # None /\ call[o] \in {"none", "waits"}
    /\ up /\ disk[o] # None => o \in kept \/ Ending(o)
    /\ up /\ unit[o] = "runs" => disk[o] # None \/ o \in loose

Started(o) ==
    starting = o => o \in kept /\ ~watch[o].ready /\ unit[o] = "none" /\ call[o] = "none"

Called(o) ==
    /\ call[o] \in {"waits", "ending", "removing", "noticing"} => up
    /\ Stopping(o) => disk[o] # None
    /\ call[o] = "removing" => Stopped(o)
    /\ call[o] \in {"noticing", "answered"} => disk[o] = None

Each(o) == Followed(o) /\ Started(o) /\ Called(o)

Looked ==
    look # Idle =>
        /\ up
        /\ watch[look.of] # None /\ watch[look.of].ready /\ disk[look.of] # None
        /\ look.at \in Steps <=> look.of \in kept
        /\ ~Stopping(look.of)
        /\ look.at = "removing" => Stopped(look.of)

PlaceInv == Looked /\ \A o \in Obs : Each(o)

----------------------------------------------------------------------------
(* The log *)

\* The least of two numbers is one of them and above none.
LEMMA Least ==
    ASSUME NEW m \in Int, NEW n \in Int
    PROVE  Min({m, n}) \in {m, n} /\ Min({m, n}) <= m /\ Min({m, n}) <= n
<1> DEFINE Is(x) == x \in {m, n} /\ \A y \in {m, n} : x <= y
<1>1. \E x : Is(x)
  <2>1. CASE m <= n
    BY <2>1
  <2>2. CASE n <= m
    BY <2>2
  <2> QED
    BY <2>1, <2>2
<1>2. Is(CHOOSE x \in {m, n} : \A y \in {m, n} : x <= y)
  BY <1>1
<1> QED
  BY <1>2 DEF Min

\* The greatest of two numbers is one of them and below none.
LEMMA Greatest ==
    ASSUME NEW m \in Int, NEW n \in Int
    PROVE  Max({m, n}) \in {m, n} /\ Max({m, n}) >= m /\ Max({m, n}) >= n
<1> DEFINE Is(x) == x \in {m, n} /\ \A y \in {m, n} : x >= y
<1>1. \E x : Is(x)
  <2>1. CASE m >= n
    BY <2>1
  <2>2. CASE n >= m
    BY <2>2
  <2> QED
    BY <2>1, <2>2
<1>2. Is(CHOOSE x \in {m, n} : \A y \in {m, n} : x >= y)
  BY <1>1
<1> QED
  BY <1>2 DEF Max

\* The lines before a file of the log.
Before(file) == (file - 1) * FileLines

\* The sizes of the log and of a look are numbers from 1 on.
LEMMA Sizes == FileLines \in Nat \ {0} /\ LookLines \in Nat \ {0}
BY KeeperAssumption

\* The files of the log follow one another without a gap.
LEMMA Files ==
    /\ \A i \in Int : Before(i) \in Int
    /\ \A i, j \in Int : j = i + 1 => Before(j) = Before(i) + FileLines
    /\ \A i, j \in Int : i < j => Before(i) + FileLines <= Before(j)
<1>1. FileLines \in Nat \ {0}
  BY Sizes
<1>2. \A i \in Int : Before(i) \in Int
  BY <1>1 DEF Before
<1>3. \A i, j \in Int : j = i + 1 => Before(j) = Before(i) + FileLines
  BY <1>1 DEF Before
<1>4. ASSUME NEW i \in Int, NEW j \in Int, i < j
      PROVE  Before(i) + FileLines <= Before(j)
  <2> DEFINE d == j - i - 1
  <2>1. d \in Nat
    BY <1>4
  <2>2. d * FileLines \in Nat
    BY <1>1, <2>1
  <2>3. Before(j) = Before(i) + FileLines + d * FileLines
    BY <1>1 DEF Before
  <2>4. Before(i) \in Int
    BY <1>2
  <2> HIDE DEF d
  <2> QED
    BY <1>1, <2>2, <2>3, <2>4
<1> QED
  BY <1>2, <1>3, <1>4

\* The newest file has the last line.
LEMMA NewestHasTheLast ==
    ASSUME NEW o \in Obs, printed[o] \in Nat
    PROVE  /\ Newest(o) \in Nat
           /\ Newest(o) = 0 <=> printed[o] = 0
           /\ printed[o] # 0 => Before(Newest(o)) < printed[o] /\ printed[o] <= Before(Newest(o)) + FileLines
<1>1. CASE printed[o] = 0
  BY <1>1 DEF Newest
<1>2. CASE printed[o] # 0
  <2> DEFINE p == printed[o] - 1
             n == p \div FileLines
  <2>1. p \in Nat /\ FileLines \in Nat \ {0}
    BY <1>2, KeeperAssumption
  <2>2. n \in Nat /\ n * FileLines <= p /\ p < (n + 1) * FileLines
    BY <2>1
  <2>3. Newest(o) = n + 1
    BY <1>2 DEF Newest
  <2>4. Before(Newest(o)) = n * FileLines /\ (n + 1) * FileLines = n * FileLines + FileLines
    BY <2>1, <2>2, <2>3 DEF Before
  <2> QED
    BY <1>2, <2>1, <2>2, <2>3, <2>4
<1> QED
  BY <1>1, <1>2

\* Where a look begins in a log that is there: at the first line of a file, or as
\* far in it as the last look stood in a file of that number.
LEMMA FromAFile ==
    ASSUME NEW o \in Obs, printed[o] \in Nat, printed[o] # 0, NEW at \in Cursor
    PROVE  /\ From(o, at) \in Cursor
           /\ From(o, at).inode # 0 /\ From(o, at).inode \in {Newest(o) - 1, Newest(o)}
           /\ \/ at.inode = 0 /\ From(o, at).offset = 0
              \/ at.inode # 0 /\ From(o, at).offset = at.offset
                 /\ (at.inode = Newest(o) => From(o, at).inode = Newest(o))
              \/ at.inode \notin {0, Newest(o)}
                 /\ From(o, at).offset = 0 /\ From(o, at).inode = Newest(o)
<1> DEFINE new == Newest(o)
           SameAsNew == Inode[o][at.inode] = Inode[o][new]
           SameAsOld == new > 1 /\ Inode[o][at.inode] = Inode[o][new - 1]
<1>1. new \in Nat \ {0} /\ at.inode \in Nat /\ at.offset \in Nat
  BY NewestHasTheLast DEF Cursor
<1>2. CASE at.inode = 0
  <2>1. From(o, at) = [inode |-> Max({1, new - 1}), offset |-> 0]
    BY <1>2 DEF From
  <2> DEFINE f == Max({1, new - 1})
  <2>2. 1 \in Int /\ new - 1 \in Int
    BY <1>1
  <2>3. f \in {1, new - 1} /\ f >= 1 /\ f >= new - 1
    BY <2>2, Greatest, Zenon
  <2> HIDE DEF new
  <2>4. f \in Nat \ {0} /\ f \in {new - 1, new}
    BY <1>1, <2>3
  <2> QED
    BY <1>2, <2>1, <2>4 DEF Cursor, new
<1>3. CASE at.inode # 0 /\ SameAsNew
  <2>1. From(o, at) = [inode |-> new, offset |-> at.offset]
    BY <1>3 DEF From
  <2> QED
    BY <1>1, <1>3, <2>1 DEF Cursor
<1>4. CASE at.inode # 0 /\ ~SameAsNew /\ SameAsOld
  <2>1. From(o, at) = [inode |-> new - 1, offset |-> at.offset]
    BY <1>4 DEF From
  <2>2. at.inode # new /\ new - 1 \in Nat \ {0}
    BY <1>1, <1>4
  <2> QED
    BY <1>1, <1>4, <2>1, <2>2 DEF Cursor
<1>5. CASE at.inode # 0 /\ ~SameAsNew /\ ~SameAsOld
  <2>1. From(o, at) = [inode |-> new, offset |-> 0]
    BY <1>5 DEF From
  <2>2. at.inode # new
    BY <1>5
  <2> QED
    BY <1>1, <1>5, <2>1, <2>2 DEF Cursor
<1> QED
  BY <1>2, <1>3, <1>4, <1>5

\* What one look reads of a log that is there: n lines from where it begins.
ReadLength(o, at) ==
    Min({LookLines, Max({0, Holds(o, From(o, at).inode) - From(o, at).offset})})

\* What a look reads of a file, and where it stands after.
LEMMA ReadingOn ==
    ASSUME NEW o \in Obs, printed[o] \in Nat, printed[o] # 0, NEW at \in Cursor
    PROVE  LET from == From(o, at)
               n == ReadLength(o, at)
               next == ReadOn(o, at).next
           IN  /\ n \in Nat
               /\ ReadOn(o, at).lines = Position(from) + 1 .. Position(from) + n
               /\ next \in Cursor /\ next.inode \in {from.inode, Newest(o)}
               /\ from.offset <= FileLines
                     => Position(next) = Position(from) + n /\ next.offset <= FileLines
               /\ ~ReadOn(o, at).more => Position(next) >= printed[o]
<1> DEFINE from == From(o, at)
           n == ReadLength(o, at)
           next == ReadOn(o, at).next
           new == Newest(o)
           holds == Holds(o, from.inode)
           left == Max({0, holds - from.offset})
           eof == from.offset + n >= holds
           aside == from.inode < new
<1>1. new \in Nat \ {0} /\ Before(new) < printed[o] /\ printed[o] <= Before(new) + FileLines
  BY NewestHasTheLast
<1> HIDE DEF new
<1>2. from \in Cursor /\ from.inode \in Nat /\ from.offset \in Nat /\ from.inode # 0
      /\ from.inode \in {new - 1, new}
  BY FromAFile DEF Cursor, new
<1>3. /\ holds \in {FileLines, printed[o] - Before(from.inode)}
      /\ holds <= FileLines /\ holds <= printed[o] - Before(from.inode)
      /\ holds \in Int /\ holds > 0
      /\ aside => holds = FileLines /\ new = from.inode + 1
      /\ ~aside => holds = printed[o] - Before(new) /\ from.inode = new
  <2> HIDE DEF from, holds
  <2>1. /\ Before(new) = Before(new - 1) + FileLines
        /\ Before(new) \in Int /\ Before(new - 1) \in Int /\ FileLines \in Nat \ {0}
    <3> DEFINE older == new - 1
    <3>1. older \in Int /\ new \in Int /\ new = older + 1
      BY <1>1
    <3> HIDE DEF older
    <3>2. Before(new) = Before(older) + FileLines /\ Before(new) \in Int /\ Before(older) \in Int
      BY <3>1, Files
    <3> QED
      BY <3>2, Sizes DEF older
  <2>2. holds = Min({FileLines, printed[o] - Before(from.inode)})
    BY DEF Holds, Before, holds
  <2>3. Before(from.inode) \in Int
    BY <1>2, <2>1
  <2>5. FileLines \in Int /\ printed[o] - Before(from.inode) \in Int
    BY <2>1, <2>3
  <2>4. holds \in {FileLines, printed[o] - Before(from.inode)} /\ holds <= FileLines
        /\ holds <= printed[o] - Before(from.inode)
    BY Least, <2>2, <2>5, Zenon
  <2>6. CASE from.inode = new
    BY <1>1, <2>1, <2>4, <2>6
  <2>7. CASE from.inode = new - 1
    <3>1. Before(from.inode) = Before(new) - FileLines
      BY <2>1, <2>7
    <3>2. printed[o] - Before(from.inode) > FileLines
      BY <1>1, <2>1, <3>1
    <3>3. holds = FileLines
      BY <2>1, <2>3, <2>4, <3>2
    <3> QED
      BY <1>1, <2>1, <2>3, <2>4, <2>7, <3>3
  <2> QED
    BY <1>2, <2>6, <2>7
<1>4. n \in Nat /\ (n = 0 \/ n <= holds - from.offset)
  <2>1. n = Min({LookLines, left})
    BY DEF ReadLength
  <2>2. 0 \in Int /\ holds - from.offset \in Int
    BY <1>2, <1>3
  <2>3. left \in {0, holds - from.offset} /\ left >= 0
    BY <2>2, Greatest, Zenon
  <2> HIDE DEF left, holds, n
  <2>4. left \in Int /\ LookLines \in Int
    BY <2>2, <2>3, Sizes
  <2>5. n \in {LookLines, left} /\ n <= left
    BY <2>1, <2>4, Least, Zenon
  <2>6. n \in Nat
    BY <2>3, <2>4, <2>5, Sizes
  <2> QED
    BY <2>2, <2>3, <2>5, <2>6
<1>5. /\ ReadOn(o, at).lines = Position(from) + 1 .. Position(from) + n
      /\ next = IF aside /\ eof THEN [inode |-> new, offset |-> 0]
                ELSE [from EXCEPT !.offset = @ + n]
      /\ ReadOn(o, at).more = (aside \/ ~eof)
  BY <1>1 DEF ReadOn, ReadLength, new
<1> HIDE DEF from, n, next, holds, left
<1>8. from.offset <= FileLines => from.offset + n <= FileLines
  BY <1>2, <1>3, <1>4, Sizes
<1>6. CASE aside /\ eof
  <2>1. next.inode = new /\ next.offset = 0
    BY <1>5, <1>6
  <2>2. Position(next) = Before(new) /\ Position(from) = Before(from.inode) + from.offset
    BY <1>1, <1>2, <2>1, Files DEF Position, Before
  <2>3. Before(new) = Before(from.inode) + FileLines /\ Before(from.inode) \in Int
    BY <1>2, <1>3, <1>6, Files
  <2>4. from.offset <= FileLines => Position(next) = Position(from) + n
    BY <1>2, <1>3, <1>4, <1>6, <1>8, <2>2, <2>3, Sizes
  <2>5. next \in Cursor
    BY <1>1, <1>5, <1>6 DEF Cursor
  <2>6. ReadOn(o, at).more
    BY <1>5, <1>6
  <2> QED
    BY <1>4, <1>5, <2>1, <2>4, <2>5, <2>6, Sizes DEF from, n, next, new
<1>7. CASE ~(aside /\ eof)
  <2>1. next = [from EXCEPT !.offset = @ + n]
    BY <1>5, <1>7
  <2>2. next.inode = from.inode /\ next.offset = from.offset + n
    BY <1>2, <2>1 DEF Cursor
  <2>3. from.offset + n \in Nat
    BY <1>2, <1>4
  <2>4. next \in Cursor
    BY <1>2, <2>1, <2>3 DEF Cursor
  <2>5. Position(next) = Before(from.inode) + from.offset + n /\ Position(from) = Before(from.inode) + from.offset
    BY <1>2, <1>4, <2>2, Files DEF Position, Before
  <2>6. ~ReadOn(o, at).more => Position(next) >= printed[o]
    <3> SUFFICES ASSUME ~ReadOn(o, at).more PROVE Position(next) >= printed[o]
      OBVIOUS
    <3>1. eof /\ ~aside
      BY <1>5
    <3>2. from.offset + n >= holds /\ holds = printed[o] - Before(new) /\ from.inode = new
      BY <1>3, <3>1
    <3>3. Before(new) \in Int
      BY <1>1, Files
    <3> QED
      BY <1>2, <1>3, <1>4, <2>5, <3>2, <3>3
  <2>7. Position(next) = Position(from) + n
    <3>1. Before(from.inode) \in Int
      BY <1>2, Files
    <3> QED
      BY <1>2, <1>4, <2>5, <3>1
  <2> QED
    BY <1>2, <1>4, <1>5, <1>8, <2>2, <2>4, <2>6, <2>7 DEF from, n, next, new
<1> QED
  BY <1>6, <1>7

----------------------------------------------------------------------------
(* Records, watches and looks *)

\* A record taken back is followed with nothing read and nothing ended.
LEMMA TakenIsAWatch ==
    ASSUME NEW rec \in Record
    PROVE  /\ Taken(rec) \in Watch /\ [Taken(rec) EXCEPT !.ready = FALSE] \in Watch
           /\ Taken(rec).rec = rec /\ Taken(rec).batch = {} /\ ~Taken(rec).ended /\ Taken(rec).ready
           /\ [Taken(rec) EXCEPT !.ready = FALSE].rec = rec
           /\ [Taken(rec) EXCEPT !.ready = FALSE].batch = {}
           /\ ~[Taken(rec) EXCEPT !.ready = FALSE].ended
           /\ ~[Taken(rec) EXCEPT !.ready = FALSE].ready
BY DEF Taken, Watch

\* A new record stands before the first file.
LEMMA NewIsARecord ==
    NewRecord \in Record /\ NewRecord.at.inode = 0 /\ NewRecord.at.offset = 0 /\ ~NewRecord.ended
BY DEF NewRecord, Record, Cursor

Looks == [at : Steps, of : Obs, rec : Record, final : BOOLEAN, changed : BOOLEAN]

\* A look is of an observer, and where it stands says of what kind it is.
LEMMA LookStands ==
    ASSUME look = Idle \/ look \in Look
    PROVE  /\ look = Idle <=> look.at = "idle"
           /\ look # Idle => look.of \in Obs /\ look.at \in Steps \cup {"ending", "removing"}
           /\ look.at \in Steps => look \in Looks
<1>1. CASE look = Idle
  BY <1>1 DEF Idle, Steps
<1>2. CASE look \in Looks
  BY <1>2 DEF Looks, Idle, Steps
<1>3. CASE look \in [at : {"ending", "removing"}, of : Obs]
  BY <1>3 DEF Idle, Steps
<1> QED
  BY <1>1, <1>2, <1>3 DEF Look, Looks, Steps

\* What is written down of the session's absence, and nothing else.
LEMMA NotedDoes ==
    ASSUME TypeOK, NEW o \in Obs, watch[o] # None,
           NEW away \in BOOLEAN, NEW gone \in Nat, NEW ended \in BOOLEAN,
           Noted(o, away, gone, ended)
    PROVE  /\ watch' \in [Obs -> Watch \cup {None}] /\ disk' \in [Obs -> Record \cup {None}]
           /\ paused' \in [Obs -> SUBSET Nat]
           /\ watch'[o] \in Watch /\ watch'[o].ready = watch[o].ready
           /\ watch'[o].batch = watch[o].batch /\ watch'[o].ended = ended
           /\ watch'[o].rec.at = watch[o].rec.at /\ watch'[o].rec.ended = watch[o].rec.ended
           /\ \/ disk' = disk /\ paused' = paused
              \/ disk'[o] = watch'[o].rec /\ paused'[o] = paused[o] \cup watch[o].batch
           /\ \A p \in Obs \ {o} : watch'[p] = watch[p] /\ disk'[p] = disk[p] /\ paused'[p] = paused[p]
<1> DEFINE w == watch[o]
           rec == [w.rec EXCEPT !.away = away]
           new == [w EXCEPT !.rec = rec, !.gone = gone, !.ended = ended]
<1>1. w \in Watch /\ w.rec \in Record /\ w.batch \in SUBSET Nat
  BY DEF TypeOK, Watch
<1>2. rec \in Record /\ rec.at = w.rec.at /\ rec.ended = w.rec.ended
  BY <1>1 DEF Record
<1>3. /\ new \in Watch /\ new.rec = rec /\ new.ready = w.ready /\ new.batch = w.batch
      /\ new.ended = ended
  BY <1>1, <1>2 DEF Watch
<1>4. watch' = [watch EXCEPT ![o] = new]
  BY DEF Noted
<1>5. \/ disk' = disk /\ paused' = paused
      \/ disk' = [disk EXCEPT ![o] = rec] /\ paused' = [paused EXCEPT ![o] = @ \cup w.batch]
  BY DEF Noted
<1> HIDE DEF w, rec, new
<1>6. /\ watch' \in [Obs -> Watch \cup {None}] /\ watch'[o] = new
      /\ \A p \in Obs \ {o} : watch'[p] = watch[p]
  BY <1>3, <1>4 DEF TypeOK
<1>7. /\ disk' \in [Obs -> Record \cup {None}] /\ paused' \in [Obs -> SUBSET Nat]
      /\ \/ disk' = disk /\ paused' = paused
         \/ disk'[o] = rec /\ paused'[o] = paused[o] \cup w.batch
      /\ \A p \in Obs \ {o} : disk'[p] = disk[p] /\ paused'[p] = paused[p]
  <2>1. disk \in [Obs -> Record \cup {None}] /\ paused \in [Obs -> SUBSET Nat]
    BY DEF TypeOK
  <2> QED
    BY <1>1, <1>2, <1>5, <2>1
<1> QED
  BY <1>2, <1>3, <1>6, <1>7 DEF w

\* A position counts the lines before it.
LEMMA PositionIsANumber ==
    ASSUME NEW at \in Cursor
    PROVE  Position(at) \in Nat /\ (at.inode # 0 => Position(at) = Before(at.inode) + at.offset)
<1>1. at.inode \in Nat /\ at.offset \in Nat
  BY DEF Cursor
<1>2. CASE at.inode = 0
  BY <1>2 DEF Position
<1>3. CASE at.inode # 0
  <2>1. at.inode - 1 \in Nat /\ FileLines \in Nat
    BY <1>1, <1>3, Sizes
  <2>2. (at.inode - 1) * FileLines \in Nat
    BY <2>1
  <2> QED
    BY <1>1, <1>3, <2>2 DEF Position, Before
<1> QED
  BY <1>2, <1>3

\* What a look reads, and the record it would leave.
LEMMA ReadLogDoes ==
    ASSUME TypeOK, look.at = "reading", watch[look.of] # None,
           NEW due \in BOOLEAN, ReadLog(due)
    PROVE  LET o == look.of
               read == ReadOn(o, watch[o].rec.at)
           IN  /\ watch' \in [Obs -> Watch \cup {None}] /\ watch'[o] \in Watch
               /\ watch'[o].rec = watch[o].rec /\ watch'[o].ready = watch[o].ready
               /\ watch'[o].ended = watch[o].ended
               /\ watch'[o].batch = watch[o].batch \cup (read.lines \cap Worth[o])
               /\ \A p \in Obs \ {o} : watch'[p] = watch[p]
               /\ look' \in Looks /\ look'.at \in {"waking", "settling"} /\ look'.of = o
               /\ look'.rec.at = read.next /\ look'.rec.ended = look.rec.ended
               /\ look'.final = Final(watch[o].ended, read.more)
               /\ missed' \in [Obs -> SUBSET Nat] /\ slipped' \in [Obs -> SUBSET Nat]
               /\ missed[o] \subseteq missed'[o] /\ slipped[o] \subseteq slipped'[o]
               /\ Passed(o, watch[o].rec.at) \subseteq missed'[o] \cup slipped'[o]
               /\ \A p \in Obs \ {o} : missed'[p] = missed[p] /\ slipped'[p] = slipped[p]
<1> DEFINE o == look.of
           w == watch[o]
           read == ReadOn(o, w.rec.at)
           batch == w.batch \cup (read.lines \cap Worth[o])
           rec == [look.rec EXCEPT !.at = read.next]
           final == Final(w.ended, read.more)
           passed == Passed(o, w.rec.at)
           step == IF final \/ due THEN "waking" ELSE "settling"
<1>1. o \in Obs /\ look \in Looks /\ look.rec \in Record
  BY LookStands DEF TypeOK, Idle, Steps, Looks
<1>2. /\ w \in Watch /\ w.rec \in Record /\ w.batch \in SUBSET Nat /\ w.ended \in BOOLEAN
      /\ w.rec.at \in Cursor /\ printed[o] \in Nat
  BY <1>1 DEF TypeOK, Watch, Record
<1>3. read.next \in Cursor /\ read.lines \subseteq Nat /\ read.more \in BOOLEAN /\ passed \subseteq Nat
  <2>1. CASE printed[o] = 0
    <3>1. Newest(o) = 0
      BY <2>1, <1>1, <1>2, NewestHasTheLast
    <3> QED
      BY <1>2, <3>1 DEF ReadOn, Passed
  <2>2. CASE printed[o] # 0
    <3> DEFINE from == From(o, w.rec.at)
    <3>1. /\ read.lines = Position(from) + 1 .. Position(from) + ReadLength(o, w.rec.at)
          /\ read.next \in Cursor /\ ReadLength(o, w.rec.at) \in Nat
      BY <1>1, <1>2, <2>2, ReadingOn
    <3>2. from \in Cursor
      BY <1>1, <1>2, <2>2, FromAFile
    <3>4. read.more \in BOOLEAN
      BY <1>1, <1>2, <2>2, NewestHasTheLast DEF ReadOn
    <3>5. Position(from) \in Nat /\ Position(w.rec.at) \in Nat
      BY <1>2, <3>2, PositionIsANumber
    <3>6. read.lines \subseteq Nat
      BY <3>1, <3>5
    <3>7. passed \subseteq Nat
      BY <3>5 DEF Passed
    <3> QED
      BY <3>1, <3>4, <3>6, <3>7
  <2> QED
    BY <2>1, <2>2
<1>4. /\ watch' = [watch EXCEPT ![o].batch = batch]
      /\ look' = [look EXCEPT !.at = step, !.rec = rec, !.final = final, !.changed = rec # w.rec]
      /\ \/ missed' = [missed EXCEPT ![o] = @ \cup passed] /\ slipped' = slipped
         \/ slipped' = [slipped EXCEPT ![o] = @ \cup passed] /\ missed' = missed
  BY DEF ReadLog
<1>5. rec \in Record /\ rec.at = read.next /\ rec.ended = look.rec.ended
  BY <1>1, <1>3 DEF Record
<1>6. final \in BOOLEAN /\ step \in {"waking", "settling"} /\ batch \in SUBSET Nat
  BY <1>2, <1>3 DEF Final
<1> HIDE DEF o, w, read, batch, rec, final, passed, step
<1>7. /\ look' \in Looks /\ look'.at = step /\ look'.of = o /\ look'.rec = rec /\ look'.final = final
  BY <1>1, <1>4, <1>5, <1>6 DEF Looks, Steps, o
<1>8. /\ watch' \in [Obs -> Watch \cup {None}] /\ watch'[o] \in Watch
      /\ watch'[o].rec = w.rec /\ watch'[o].ready = w.ready /\ watch'[o].ended = w.ended
      /\ watch'[o].batch = batch
      /\ \A p \in Obs \ {o} : watch'[p] = watch[p]
  <2> DEFINE new == [w EXCEPT !.batch = batch]
  <2>1. watch' = [watch EXCEPT ![o] = new]
    BY <1>4 DEF w
  <2>2. /\ new \in Watch /\ new.rec = w.rec /\ new.ready = w.ready /\ new.ended = w.ended
        /\ new.batch = batch
    BY <1>2, <1>6 DEF Watch
  <2>3. watch \in [Obs -> Watch \cup {None}]
    BY DEF TypeOK
  <2> HIDE DEF new
  <2> QED
    BY <1>1, <2>1, <2>2, <2>3
<1>9. /\ missed' \in [Obs -> SUBSET Nat] /\ slipped' \in [Obs -> SUBSET Nat]
      /\ missed[o] \subseteq missed'[o] /\ slipped[o] \subseteq slipped'[o]
      /\ passed \subseteq missed'[o] \cup slipped'[o]
      /\ \A p \in Obs \ {o} : missed'[p] = missed[p] /\ slipped'[p] = slipped[p]
  <2>1. missed \in [Obs -> SUBSET Nat] /\ slipped \in [Obs -> SUBSET Nat]
    BY DEF TypeOK
  <2> QED
    BY <1>1, <1>3, <1>4, <2>1
<1> QED
  BY <1>5, <1>6, <1>7, <1>8, <1>9 DEF o, w, read, batch, final, passed

\* What is left of a look once its wake is tried: all the same but for the batch
\* and the word of the end.
Woken(o) ==
    /\ watch' \in [Obs -> Watch \cup {None}] /\ watch'[o] \in Watch
    /\ watch'[o].rec = watch[o].rec /\ watch'[o].ready = watch[o].ready
    /\ watch'[o].ended = watch[o].ended
    /\ \A p \in Obs \ {o} : watch'[p] = watch[p]
    /\ look' \in Looks /\ look'.at = "settling" /\ look'.of = o
    /\ look'.rec.at = look.rec.at /\ look'.final = look.final

\* A wake that went or was tried for the last time leaves no batch.
LEMMA DoneDoes ==
    ASSUME TypeOK, look.at = "waking", watch[look.of] # None,
           NEW taken \in BOOLEAN, Done(taken)
    PROVE  /\ Woken(look.of) /\ watch'[look.of].batch = {}
           /\ look'.rec.ended = (look.rec.ended \/ look.final)
<1> DEFINE o == look.of
           w == watch[o]
           new == [w EXCEPT !.batch = {}, !.tries = 0]
           rec == [look.rec EXCEPT !.ended = @ \/ look.final]
           left == [look EXCEPT !.at = "settling", !.rec = rec, !.changed = @ \/ look.final \/ taken]
<1>1. look \in Looks /\ o \in Obs /\ look.rec \in Record
  BY LookStands DEF TypeOK, Idle, Steps, Looks
<1>2. w \in Watch
  BY <1>1 DEF TypeOK
<1>3. /\ new \in Watch /\ new.rec = w.rec /\ new.ready = w.ready /\ new.ended = w.ended /\ new.batch = {}
  BY <1>2 DEF Watch
<1>4. rec \in Record /\ rec.at = look.rec.at /\ rec.ended = (look.rec.ended \/ look.final)
  BY <1>1 DEF Record, Looks
<1>5. left \in Looks /\ left.at = "settling" /\ left.of = o /\ left.rec = rec /\ left.final = look.final
  BY <1>1, <1>4 DEF Looks, Steps
<1>6. watch' = [watch EXCEPT ![o] = new]
  BY DEF Done
<1>7. look' = left
  BY DEF Done
<1>8. watch \in [Obs -> Watch \cup {None}]
  BY DEF TypeOK
<1> HIDE DEF new, rec, left
<1> QED
  BY <1>1, <1>3, <1>4, <1>5, <1>6, <1>7, <1>8 DEF Woken

\* How a wake ends: what the session was told of it, and what the keeper knows.
LEMMA WakesDo ==
    ASSUME TypeOK, look.at = "waking", watch[look.of] # None, Wakes
    PROVE  LET o == look.of IN
           /\ Woken(o) /\ Letter \in SUBSET Nat
           /\ told' \in [Obs -> SUBSET Nat] /\ dropped' \in [Obs -> SUBSET Nat]
           /\ excused' \in [Obs -> SUBSET Nat]
           /\ \A p \in Obs \ {o} : /\ told'[p] = told[p] /\ dropped'[p] = dropped[p]
                                   /\ excused'[p] = excused[p]
           /\ told'[o] \in {told[o], told[o] \cup Letter}
           /\ excused'[o] \in {excused[o], excused[o] \cup Letter}
           /\ \/ /\ watch'[o].batch = {} /\ look'.rec.ended = (look.rec.ended \/ look.final)
                 /\ Letter \subseteq told'[o] \cup dropped'[o]
                 /\ dropped[o] \subseteq dropped'[o]
              \/ watch'[o].batch = watch[o].batch /\ look'.rec = look.rec /\ dropped' = dropped
                 /\ (told' # told => excused'[o] = excused[o] \cup Letter)
<1> DEFINE o == look.of
           w == watch[o]
<1>1. look \in Looks /\ o \in Obs /\ look.rec \in Record
  BY LookStands DEF TypeOK, Idle, Steps, Looks
<1>2. w \in Watch /\ Letter \in SUBSET Nat
  BY <1>1 DEF TypeOK, Watch, Letter, TheEnd
<1>3. /\ told \in [Obs -> SUBSET Nat] /\ dropped \in [Obs -> SUBSET Nat]
      /\ excused \in [Obs -> SUBSET Nat]
  BY DEF TypeOK
<1>4. CASE WakeTaken
  <2>1. /\ Woken(o) /\ watch'[o].batch = {} /\ look'.rec.ended = (look.rec.ended \/ look.final)
    BY <1>4, DoneDoes DEF WakeTaken
  <2>2. /\ told' = [told EXCEPT ![o] = @ \cup Letter] /\ dropped' = dropped /\ excused' = excused
    BY <1>4 DEF WakeTaken
  <2> QED
    BY <1>1, <1>2, <1>3, <2>1, <2>2
<1>5. ASSUME NEW taken \in BOOLEAN, WakeFailed(taken), w.tries + 1 = WakeTries
      PROVE  /\ Woken(o) /\ watch'[o].batch = {} /\ look'.rec.ended = (look.rec.ended \/ look.final)
             /\ dropped' = [dropped EXCEPT ![o] = @ \cup Letter]
  BY <1>5, DoneDoes DEF WakeFailed
<1>6. ASSUME NEW taken \in BOOLEAN, WakeFailed(taken), w.tries + 1 # WakeTries
      PROVE  /\ Woken(o) /\ watch'[o].batch = w.batch /\ look'.rec = look.rec
             /\ dropped' = dropped
  <2> DEFINE new == [w EXCEPT !.tries = @ + 1]
             left == [look EXCEPT !.at = "settling"]
  <2>1. watch' = [watch EXCEPT ![o] = new] /\ look' = left /\ dropped' = dropped
    BY <1>6 DEF WakeFailed
  <2>2. /\ new \in Watch /\ new.rec = w.rec /\ new.ready = w.ready /\ new.ended = w.ended
        /\ new.batch = w.batch
    BY <1>2 DEF Watch
  <2>3. left \in Looks /\ left.at = "settling" /\ left.of = o /\ left.rec = look.rec /\ left.final = look.final
    BY <1>1 DEF Looks, Steps
  <2>4. watch \in [Obs -> Watch \cup {None}]
    BY DEF TypeOK
  <2> HIDE DEF new, left
  <2> QED
    BY <1>1, <2>1, <2>2, <2>3, <2>4 DEF Woken
<1>7. ASSUME NEW taken \in BOOLEAN, WakeFailed(taken)
      PROVE  \/ told' = [told EXCEPT ![o] = @ \cup Letter] /\ excused' = [excused EXCEPT ![o] = @ \cup Letter]
             \/ told' = told /\ excused' = excused
  BY <1>7 DEF WakeFailed
<1>8. ASSUME NEW taken \in BOOLEAN, WakeFailed(taken)
      PROVE  \/ /\ Woken(o) /\ watch'[o].batch = {} /\ look'.rec.ended = (look.rec.ended \/ look.final)
                /\ dropped' = [dropped EXCEPT ![o] = @ \cup Letter]
             \/ /\ Woken(o) /\ watch'[o].batch = w.batch /\ look'.rec = look.rec
                /\ dropped' = dropped
  BY <1>5, <1>6, <1>8
<1>9. CASE \E taken \in BOOLEAN : WakeFailed(taken)
  <2>1. PICK taken \in BOOLEAN : WakeFailed(taken)
    BY <1>9
  <2>2. \/ told' = [told EXCEPT ![o] = @ \cup Letter] /\ excused' = [excused EXCEPT ![o] = @ \cup Letter]
        \/ told' = told /\ excused' = excused
    BY <1>7, <2>1
  <2>3. /\ told' \in [Obs -> SUBSET Nat] /\ excused' \in [Obs -> SUBSET Nat]
        /\ \A p \in Obs \ {o} : told'[p] = told[p] /\ excused'[p] = excused[p]
        /\ told'[o] \in {told[o], told[o] \cup Letter}
        /\ excused'[o] \in {excused[o], excused[o] \cup Letter}
        /\ told' # told => excused'[o] = excused[o] \cup Letter
    BY <1>1, <1>2, <1>3, <2>2
  <2>4. \/ /\ Woken(o) /\ watch'[o].batch = {} /\ look'.rec.ended = (look.rec.ended \/ look.final)
           /\ dropped' = [dropped EXCEPT ![o] = @ \cup Letter]
        \/ /\ Woken(o) /\ watch'[o].batch = w.batch /\ look'.rec = look.rec
           /\ dropped' = dropped
    BY <1>8, <2>1
  <2> QED
    BY <1>1, <1>2, <1>3, <2>3, <2>4
<1> QED
  BY <1>4, <1>9 DEF Wakes

\* A look over leaves its record in memory, and on the disk when nothing waits.
LEMMA SettleDoes ==
    ASSUME TypeOK, watch[look.of] # None, Settle
    PROVE  LET o == look.of IN
           /\ o \in Obs /\ look \in Looks /\ look' = Idle
           /\ watch' \in [Obs -> Watch \cup {None}] /\ disk' \in [Obs -> Record \cup {None}]
           /\ watch'[o] \in Watch /\ watch'[o].rec = look.rec /\ watch'[o].ready = watch[o].ready
           /\ watch'[o].batch = watch[o].batch /\ watch'[o].ended = watch[o].ended
           /\ \/ disk' = disk
              \/ disk'[o] = look.rec /\ watch[o].batch = {}
           /\ \A p \in Obs \ {o} : watch'[p] = watch[p] /\ disk'[p] = disk[p]
<1> DEFINE o == look.of
           w == watch[o]
           new == [w EXCEPT !.rec = look.rec]
<1>1. look \in Looks /\ o \in Obs /\ look.rec \in Record /\ w \in Watch /\ look' = Idle
  BY LookStands DEF TypeOK, Idle, Steps, Looks, Settle
<1>2. /\ new \in Watch /\ new.rec = look.rec /\ new.ready = w.ready /\ new.ended = w.ended
      /\ new.batch = w.batch
  BY <1>1 DEF Watch
<1>3. watch' = [watch EXCEPT ![o] = new] /\ watch \in [Obs -> Watch \cup {None}]
  BY DEF Settle, TypeOK
<1>4. \/ disk' = disk
      \/ disk' = [disk EXCEPT ![o] = look.rec] /\ w.batch = {}
  BY DEF Settle, ToWrite
<1>5. disk \in [Obs -> Record \cup {None}]
  BY DEF TypeOK
<1> HIDE DEF new
<1> QED
  BY <1>1, <1>2, <1>3, <1>4, <1>5

----------------------------------------------------------------------------
(* Types *)

\* One watch is set, and the others stay.
LEMMA WatchSet ==
    ASSUME watch \in [Obs -> Watch \cup {None}], \A p \in kept : watch[p] # None,
           NEW o \in Obs, NEW w \in Watch, watch' = [watch EXCEPT ![o] = w], kept' \subseteq kept \cup {o}
    PROVE  /\ watch' \in [Obs -> Watch \cup {None}] /\ \A p \in kept' : watch'[p] # None
           /\ watch'[o] = w /\ \A p \in Obs \ {o} : watch'[p] = watch[p]
BY NoneAssumption

LEMMA InitTypes == Init => TypeOK
BY KeeperAssumption DEF Init, TypeOK

\* The looks that write down the session's absence.
Notes(o) == (\E over \in BOOLEAN : LookOn(o, over)) \/ LookAway(o) \/ LookGone(o)

\* They take an observer for ended that is, or that is early.
LEMMA NotingLooks ==
    ASSUME NEW o \in Obs, TypeOK, Notes(o)
    PROVE  /\ CanLook(o)
           /\ \E away \in BOOLEAN, gone \in Nat, ended \in BOOLEAN :
                 /\ Noted(o, away, gone, ended)
                 /\ ended => watch[o].ended \/ unit[o] # "runs" \/ o \in early'
           /\ UNCHANGED <<outside, up, kept, calls, told, dropped, missed, slipped, excused, noticed, loose, cut>>
           /\ early \subseteq early' /\ early' \subseteq Obs
           /\ \/ look' = Idle
              \/ /\ look' \in Looks /\ look'.at = "reading" /\ look'.of = o /\ look'.rec = watch'[o].rec
                 /\ ~look'.final /\ ~watch[o].rec.ended
<1>1. CanLook(o) /\ watch[o] \in Watch
  BY DEF Notes, LookOn, LookAway, LookGone, CanLook, TypeOK
<1>2. watch[o].ended \in BOOLEAN /\ watch[o].gone \in Nat /\ early \subseteq Obs
  BY <1>1 DEF Watch, Record, TypeOK
<1>3. ASSUME NEW over \in BOOLEAN, LookOn(o, over)
      PROVE  /\ Noted(o, FALSE, 0, HasEnded(o, over)) /\ HasEnded(o, over) \in BOOLEAN
             /\ HasEnded(o, over) => watch[o].ended \/ unit[o] # "runs" \/ o \in early'
             /\ early \subseteq early' /\ early' \subseteq Obs
             /\ UNCHANGED <<outside, up, kept, calls, told, dropped, missed, slipped, excused, noticed, loose, cut>>
             /\ \/ look' = Idle
                \/ /\ look' \in Looks /\ look'.at = "reading" /\ look'.of = o /\ look'.rec = watch'[o].rec
                   /\ ~look'.final /\ ~watch[o].rec.ended
  <2> DEFINE has == HasEnded(o, over)
  <2>0. has \in BOOLEAN
    BY <1>2 DEF HasEnded
  <2>1. Noted(o, FALSE, 0, has)
    BY <1>3 DEF LookOn
  <2>6. early' = IF has /\ unit[o] = "runs" THEN early \cup {o} ELSE early
    BY <1>3 DEF LookOn
  <2> HIDE DEF has
  <2>2. watch'[o] \in Watch
    BY <1>1, <2>0, <2>1, NotedDoes, NoneAssumption
  <2>3. \/ look' = Idle
        \/ /\ look' = [at |-> "reading", of |-> o, rec |-> watch'[o].rec, final |-> FALSE, changed |-> FALSE]
           /\ ~watch[o].rec.ended
    BY <1>3 DEF LookOn
  <2>4. watch'[o].rec \in Record
    BY <2>2 DEF Watch
  <2> DEFINE begun == [at |-> "reading", of |-> o, rec |-> watch'[o].rec, final |-> FALSE, changed |-> FALSE]
  <2>5. /\ begun \in Looks /\ begun.at = "reading" /\ begun.of = o /\ begun.rec = watch'[o].rec
        /\ ~begun.final
    BY <2>4 DEF Looks, Steps
  <2>7. UNCHANGED <<outside, up, kept, calls, told, dropped, missed, slipped, excused, noticed, loose, cut>>
    BY <1>3 DEF LookOn
  <2>8. has => unit[o] # "runs" \/ o \in early'
    BY <2>6
  <2>9. early \subseteq early' /\ early' \subseteq Obs
    BY <1>2, <2>6
  <2>10. \/ look' = Idle
         \/ /\ look' \in Looks /\ look'.at = "reading" /\ look'.of = o /\ look'.rec = watch'[o].rec
            /\ ~look'.final /\ ~watch[o].rec.ended
    BY <2>3, <2>5
  <2> QED
    BY <2>0, <2>1, <2>7, <2>8, <2>9, <2>10 DEF has
<1>6. CASE \E over \in BOOLEAN : LookOn(o, over)
  <2>1. PICK over \in BOOLEAN : LookOn(o, over)
    BY <1>6
  <2>2. 0 \in Nat /\ FALSE \in BOOLEAN
    OBVIOUS
  <2>3. HasEnded(o, over) \in BOOLEAN
    BY <1>3, <2>1
  <2>4. /\ Noted(o, FALSE, 0, HasEnded(o, over))
        /\ HasEnded(o, over) => watch[o].ended \/ unit[o] # "runs" \/ o \in early'
    BY <1>3, <2>1
  <2>5. \E away \in BOOLEAN, gone \in Nat, ended \in BOOLEAN :
            /\ Noted(o, away, gone, ended)
            /\ ended => watch[o].ended \/ unit[o] # "runs" \/ o \in early'
    BY <2>2, <2>3, <2>4
  <2> QED
    BY <1>1, <1>3, <2>1, <2>5
<1>4. CASE LookAway(o)
  BY <1>1, <1>2, <1>4 DEF LookAway, CanLook
<1>5. CASE LookGone(o)
  <2>1. watch[o].gone + 1 \in Nat
    BY <1>2
  <2>2. Noted(o, FALSE, watch[o].gone + 1, watch[o].ended)
    BY <1>5 DEF LookGone
  <2> QED
    BY <1>1, <1>2, <1>5, <2>1, <2>2 DEF LookGone, CanLook
<1> QED
  BY <1>4, <1>5, <1>6 DEF Notes

\* The steps keep the types: a look that begins,
LEMMA LookTypes ==
    ASSUME TypeOK, NEW o \in Obs, LookAt(o)
    PROVE  TypeOK'
<1>1. CASE Notes(o)
  <2>1. PICK away \in BOOLEAN, gone \in Nat, ended \in BOOLEAN : Noted(o, away, gone, ended)
    BY <1>1, NotingLooks
  <2>2. /\ CanLook(o) /\ watch[o] # None /\ early' \subseteq Obs
        /\ UNCHANGED <<outside, up, kept, calls, told, dropped, missed, slipped, excused, noticed, loose, cut>>
    BY <1>1, NotingLooks DEF CanLook
  <2>3. look' = Idle \/ look' \in Look
    BY <1>1, NotingLooks DEF Look, Looks, Steps
  <2>4. /\ watch' \in [Obs -> Watch \cup {None}] /\ disk' \in [Obs -> Record \cup {None}]
        /\ paused' \in [Obs -> SUBSET Nat] /\ watch'[o] # None
        /\ \A p \in Obs \ {o} : watch'[p] = watch[p]
    BY <2>1, <2>2, NotedDoes, NoneAssumption
  <2> QED
    BY <2>2, <2>3, <2>4 DEF TypeOK, outside, calls
<1>2. CASE LookLeaves(o)
  <2>1. look' \in Look
    BY <1>2 DEF LookLeaves, Look
  <2> QED
    BY <1>2, <2>1 DEF LookLeaves, TypeOK, outside, calls, account, history, counters
<1> QED
  BY <1>1, <1>2 DEF LookAt, Notes

\* a look that goes on,
LEMMA ReadTypes ==
    ASSUME TypeOK, PlaceInv, Reads \/ Wakes \/ Settle \/ LookEnds \/ LookRemoves
    PROVE  TypeOK'
<1>1. look # Idle /\ look.of \in Obs /\ watch[look.of] # None
  BY LookStands DEF TypeOK, PlaceInv, Looked, Reads, ReadLog, Wakes, WakeTaken, WakeFailed, Settle,
                    LookEnds, LookRemoves, Idle
<1>2. CASE Reads
  <2>1. PICK due \in BOOLEAN : ReadLog(due)
    BY <1>2 DEF Reads
  <2>2. look.at = "reading"
    BY <2>1 DEF ReadLog
  <2>3. /\ watch' \in [Obs -> Watch \cup {None}] /\ watch'[look.of] # None
        /\ \A p \in Obs \ {look.of} : watch'[p] = watch[p]
        /\ look' \in Look /\ missed' \in [Obs -> SUBSET Nat] /\ slipped' \in [Obs -> SUBSET Nat]
    BY <1>1, <2>1, <2>2, ReadLogDoes, NoneAssumption DEF Look, Looks, Steps
  <2>4. UNCHANGED <<outside, disk, up, kept, calls, told, dropped, paused, excused, early, noticed, loose, cut>>
    BY <2>1 DEF ReadLog
  <2> QED
    BY <2>3, <2>4 DEF TypeOK, outside, calls
<1>3. CASE Wakes
  <2>1. look.at = "waking"
    BY <1>3 DEF Wakes, WakeTaken, WakeFailed
  <2>2. /\ watch' \in [Obs -> Watch \cup {None}] /\ watch'[look.of] # None
        /\ \A p \in Obs \ {look.of} : watch'[p] = watch[p]
        /\ look' \in Look /\ told' \in [Obs -> SUBSET Nat] /\ dropped' \in [Obs -> SUBSET Nat]
        /\ excused' \in [Obs -> SUBSET Nat]
    BY <1>1, <1>3, <2>1, WakesDo, NoneAssumption DEF Woken, Look, Looks, Steps
  <2>3. UNCHANGED <<outside, disk, up, kept, calls, missed, slipped, paused, early, noticed, loose, cut>>
    BY <1>3 DEF Wakes, WakeTaken, WakeFailed
  <2> QED
    BY <2>2, <2>3 DEF TypeOK, outside, calls
<1>4. CASE Settle
  <2>1. /\ watch' \in [Obs -> Watch \cup {None}] /\ watch'[look.of] # None
        /\ disk' \in [Obs -> Record \cup {None}]
        /\ \A p \in Obs \ {look.of} : watch'[p] = watch[p]
        /\ look' = Idle
    BY <1>1, <1>4, SettleDoes, NoneAssumption
  <2> QED
    BY <1>4, <2>1 DEF Settle, TypeOK, outside, calls, account, history, counters
<1>5. CASE LookEnds
  <2>1. look \in [at : {"ending", "removing"}, of : Obs] /\ look' \in Look
    BY <1>1, <1>5 DEF LookEnds, TypeOK, Look, Idle
  <2>2. unit' \in [Obs -> {"none", "runs", "ended"}] /\ loose' \in SUBSET Obs
    BY <1>1, <1>5 DEF LookEnds, UnitStops, TypeOK
  <2> QED
    BY <1>5, <2>1, <2>2 DEF LookEnds, TypeOK, following, calls, account, counters
<1>6. CASE LookRemoves
  <2>1. look.of \notin kept
    BY <1>1, <1>6 DEF LookRemoves, PlaceInv, Looked, Steps
  <2> QED
    BY <1>1, <1>6, <2>1 DEF LookRemoves, TypeOK, outside, calls, account, history, counters
<1> QED
  BY <1>2, <1>3, <1>4, <1>5, <1>6

\* a stop,
LEMMA StopTypes ==
    ASSUME TypeOK, NEW o \in Obs, Stop(o)
    PROVE  TypeOK'
<1> USE DEF TypeOK, outside, following, calls, account, history, counters
<1>1. ASSUME NEW press \in BOOLEAN, StopAsked(o, press) PROVE TypeOK'
  BY <1>1 DEF StopAsked
<1>2. CASE StopHolds(o)
  BY <1>2 DEF StopHolds
<1>3. CASE StopEnds(o)
  <2>1. unit' \in [Obs -> {"none", "runs", "ended"}] /\ loose' \in SUBSET Obs
    BY <1>3 DEF StopEnds, UnitStops
  <2> QED
    BY <1>3, <2>1 DEF StopEnds
<1>4. CASE StopRemoves(o)
  BY <1>4 DEF StopRemoves
<1>5. ASSUME NEW taken \in BOOLEAN, StopNotices(o, taken) PROVE TypeOK'
  BY <1>5 DEF StopNotices
<1> QED
  BY <1>1, <1>2, <1>3, <1>4, <1>5 DEF Stop, StopGoesOn

\* a start,
LEMMA StartTypes ==
    ASSUME TypeOK, PlaceInv, Starts \/ \E o \in Obs : StartWrites(o)
    PROVE  TypeOK'
<1>4. watch \in [Obs -> Watch \cup {None}] /\ \A p \in kept : watch[p] # None
  BY DEF TypeOK
<1>1. ASSUME NEW o \in Obs, StartWrites(o) PROVE TypeOK'
  <2>1. [Taken(NewRecord) EXCEPT !.ready = FALSE] \in Watch /\ NewRecord \in Record
    BY NewIsARecord, TakenIsAWatch
  <2>2. watch' = [watch EXCEPT ![o] = [Taken(NewRecord) EXCEPT !.ready = FALSE]]
    BY <1>1 DEF StartWrites
  <2>3. watch' \in [Obs -> Watch \cup {None}] /\ \A p \in kept' : watch'[p] # None
    <3>1. kept' = kept \cup {o}
      BY <1>1 DEF StartWrites
    <3> QED
      BY <1>4, <2>1, <2>2, <3>1, WatchSet
  <2> QED
    BY <1>1, <2>1, <2>3 DEF StartWrites, TypeOK, outside, account, history, counters
<1>2. CASE UnitStarts
  <2>1. starting \in Obs /\ watch[starting] \in Watch
    BY <1>2, NoneAssumption DEF UnitStarts, PlaceInv, Each, Started, TypeOK
  <2> DEFINE new == [watch[starting] EXCEPT !.ready = TRUE]
  <2>2. new \in Watch /\ watch' = [watch EXCEPT ![starting] = new]
    BY <1>2, <2>1 DEF UnitStarts, Watch
  <2> HIDE DEF new
  <2>3. watch' \in [Obs -> Watch \cup {None}] /\ \A p \in kept' : watch'[p] # None
    <3>1. kept' = kept
      BY <1>2 DEF UnitStarts
    <3> QED
      BY <1>4, <2>1, <2>2, <3>1, WatchSet
  <2> QED
    BY <1>2, <2>1, <2>3 DEF UnitStarts, TypeOK, account, history, counters
<1>3. ASSUME NEW runs \in BOOLEAN, UnitFails(runs) PROVE TypeOK'
  BY <1>3 DEF UnitFails, TypeOK, account
<1> QED
  BY <1>1, <1>2, <1>3 DEF Starts

\* a fall and the executor after it,
LEMMA FallTypes ==
    ASSUME TypeOK, Fall \/ Load
    PROVE  TypeOK'
<1>1. CASE Fall
  <2>1. \A o \in Obs : Unwritten(o) \in SUBSET Nat
    BY DEF Unwritten, TypeOK
  <2>2. excused' \in [Obs -> SUBSET Nat]
    BY <1>1, <2>1 DEF Fall, TypeOK
  <2>3. unit' \in [Obs -> {"none", "runs", "ended"}] /\ cut' \in SUBSET Obs
    BY <1>1 DEF Fall, TypeOK
  <2>4. watch' \in [Obs -> Watch \cup {None}] /\ \A p \in kept' : watch'[p] # None
    BY <1>1 DEF Fall
  <2>5. call' \in [Obs -> {"none", "waits", "ending", "removing", "noticing", "answered"}]
    BY <1>1 DEF Fall
  <2>6. up' \in BOOLEAN /\ kept' \subseteq Obs /\ look' = Idle /\ starting' \in Obs \cup {None}
    BY <1>1 DEF Fall
  <2>7. UNCHANGED <<owner, ran, printed, disk, pressed, told, dropped, missed, slipped, paused, early,
                    noticed, loose>>
    BY <1>1 DEF Fall
  <2> QED
    BY <2>2, <2>3, <2>4, <2>5, <2>6, <2>7 DEF TypeOK
<1>2. CASE Load
  <2>1. \A o \in Obs : Back(o) \in Watch \cup {None} /\ (disk[o] # None => Back(o) # None)
    <3> SUFFICES ASSUME NEW o \in Obs
                 PROVE  Back(o) \in Watch \cup {None} /\ (disk[o] # None => Back(o) # None)
      OBVIOUS
    <3>1. CASE disk[o] = None
      BY <3>1 DEF Back
    <3>2. CASE disk[o] # None
      <4>1. disk[o] \in Record
        BY <3>2 DEF TypeOK
      <4>2. Taken(disk[o]) \in Watch
        BY <4>1, TakenIsAWatch
      <4> QED
        BY <3>2, <4>2, NoneAssumption DEF Back
    <3> QED
      BY <3>1, <3>2
  <2>2. watch' \in [Obs -> Watch \cup {None}] /\ \A o \in kept' : watch'[o] # None
    BY <1>2, <2>1 DEF Load
  <2>3. unit' \in [Obs -> {"none", "runs", "ended"}] /\ loose' \in SUBSET Obs
    BY <1>2 DEF Load, TypeOK
  <2> QED
    BY <1>2, <2>2, <2>3 DEF Load, TypeOK, calls, account
<1> QED
  BY <1>1, <1>2

\* the commands and the session.
LEMMA EnvironmentTypes ==
    ASSUME TypeOK, Environment
    PROVE  TypeOK'
<1> USE DEF TypeOK, outside, following, calls, account, history, counters
<1>1. ASSUME NEW o \in Obs, Prints(o) PROVE TypeOK'
  <2>1. Lines[o] \in Nat
    BY KeeperAssumption
  <2> QED
    BY <1>1, <2>1 DEF Prints
<1>2. ASSUME NEW o \in Obs, CommandEnds(o) PROVE TypeOK'
  BY <1>2 DEF CommandEnds
<1>3. CASE OwnerGoes \/ OwnerIsBack
  BY <1>3 DEF OwnerGoes, OwnerIsBack
<1>4. ASSUME NEW as \in Absences, OwnerIsAway(as) PROVE TypeOK'
  <2>1. as \in {"away", "missed"}
    BY KeeperAssumption
  <2> QED
    BY <1>4, <2>1 DEF OwnerIsAway
<1>5. ASSUME NEW o \in Obs, Begins(o) PROVE TypeOK'
  BY <1>5 DEF Begins
<1> QED
  BY <1>1, <1>2, <1>3, <1>4, <1>5 DEF Environment

LEMMA StepTypes ==
    ASSUME TypeOK, PlaceInv, [Next]_vars
    PROVE  TypeOK'
<1>1. CASE UNCHANGED vars
  BY <1>1 DEF vars, TypeOK, outside, following, calls, account, history, counters
<1> QED
  BY <1>1, LookTypes, ReadTypes, StopTypes, StartTypes, FallTypes, EnvironmentTypes DEF Next, LookGoesOn

----------------------------------------------------------------------------
(* Where each observer stands *)

LEMMA InitPlaces == Init => PlaceInv
BY NoneAssumption DEF Init, PlaceInv, Looked, Each, Followed, Started, Called, Fresh, Stopping

\* A step that leaves alone all that says where an observer stands.
LEMMA SamePlaces ==
    ASSUME PlaceInv, UNCHANGED <<unit, disk, up, kept, watch, look, call, starting, loose>>
    PROVE  PlaceInv'
BY DEF PlaceInv, Looked, Each, Followed, Started, Called, Fresh, Ending, Looking, Stopping, Stopped

\* A step that only writes in a watch or in a record leaves them there.
LEMMA WritingKeepsPlaces ==
    ASSUME TypeOK, PlaceInv, NEW o \in Obs, o \in kept, ~Stopping(o), watch'[o] \in Watch,
           watch'[o].ready = watch[o].ready, disk'[o] # None,
           \A p \in Obs \ {o} : watch'[p] = watch[p] /\ (disk'[p] = disk[p]),
           UNCHANGED <<unit, up, kept, call, starting, loose>>,
           look # Idle => look.of = o /\ look.at \in Steps,
           look' # Idle => look'.of = o /\ look'.at \in Steps /\ watch[o].ready
    PROVE  PlaceInv'
<1>1. watch[o] # None /\ watch'[o] # None /\ up /\ disk[o] # None
  BY NoneAssumption DEF PlaceInv, Each, Followed
<1>2. ASSUME NEW p \in Obs PROVE Each(p)'
  <2>1. Each(p)
    BY DEF PlaceInv
  <2>2. Stopping(p)' = Stopping(p) /\ Stopped(p)' = Stopped(p)
    BY DEF Stopping, Stopped
  <2>3. CASE p = o
    BY <1>1, <2>1, <2>2, <2>3 DEF Each, Followed, Started, Called, Fresh
  <2>4. CASE p # o
    <3>1. ~Ending(p) \/ Stopping(p)
      BY <2>4 DEF Ending, Looking, Steps
    <3> QED
      BY <2>1, <2>2, <2>4, <3>1 DEF Each, Followed, Started, Called, Fresh, Ending
  <2> QED
    BY <2>3, <2>4
<1>3. Looked'
  BY <1>1 DEF Looked, Stopping, Steps
<1> QED
  BY <1>2, <1>3 DEF PlaceInv

\* Only a look that leaves moves an observer: it is kept no more.
LEMMA LookPlaces ==
    ASSUME TypeOK, PlaceInv, NEW o \in Obs, LookAt(o)
    PROVE  PlaceInv'
<1>1. CASE Notes(o)
  <2>1. /\ CanLook(o) /\ up /\ look = Idle /\ watch[o] # None /\ watch[o].ready
        /\ ~Stopping(o) /\ o \in kept /\ disk[o] # None
        /\ UNCHANGED <<unit, up, kept, call, starting, loose>>
    BY <1>1, NotingLooks DEF CanLook, outside, calls, PlaceInv, Each, Followed
  <2>2. PICK away \in BOOLEAN, gone \in Nat, ended \in BOOLEAN : Noted(o, away, gone, ended)
    BY <1>1, NotingLooks
  <2>3. /\ watch'[o] \in Watch /\ watch'[o].ready = watch[o].ready
        /\ disk'[o] = disk[o] \/ disk'[o] = watch'[o].rec
        /\ \A p \in Obs \ {o} : watch'[p] = watch[p] /\ disk'[p] = disk[p]
    <3>1. watch[o] # None
      BY <2>1
    <3> QED
      BY <2>2, <3>1, NotedDoes
  <2>4. disk'[o] # None
    BY <2>1, <2>3, NoneAssumption DEF Watch
  <2>5. look' # Idle => look'.of = o /\ look'.at \in Steps
    BY <1>1, NotingLooks DEF Steps
  <2> QED
    BY <2>1, <2>3, <2>4, <2>5, WritingKeepsPlaces
<1>2. CASE LookLeaves(o)
  <2>1. /\ up /\ look = Idle /\ watch[o] # None /\ watch[o].ready /\ ~Stopping(o) /\ o \in kept
        /\ disk[o] # None /\ kept' = kept \ {o}
        /\ UNCHANGED <<unit, disk, up, watch, call, starting, loose>>
        /\ look' # Idle /\ look'.at = "ending" /\ look'.of = o
    BY <1>2 DEF LookLeaves, CanLook, outside, calls, account, history, PlaceInv, Each, Followed, Idle
  <2>2. ASSUME NEW p \in Obs PROVE Each(p)'
    <3>1. Each(p) /\ ~Looking(p) /\ Stopping(p)' = Stopping(p)
      BY <2>1 DEF PlaceInv, Looking, Stopping
    <3>2. p = o => Ending(p)' /\ starting # p
      BY <2>1, <3>1 DEF Ending, Looking, Each, Started
    <3> QED
      BY <2>1, <3>1, <3>2 DEF Each, Followed, Started, Called, Fresh, Ending, Stopped
  <2>3. Looked'
    BY <2>1 DEF Looked, Stopping, Steps
  <2> QED
    BY <2>2, <2>3 DEF PlaceInv
<1> QED
  BY <1>1, <1>2 DEF LookAt, Notes

\* A look that reads on moves none.
LEMMA ReadPlaces ==
    ASSUME TypeOK, PlaceInv, Reads \/ Wakes \/ Settle
    PROVE  PlaceInv'
<1> DEFINE o == look.of
<1>1. /\ look # Idle /\ o \in Obs /\ look.at \in Steps /\ look \in Looks
      /\ watch[o] # None /\ watch[o].ready /\ disk[o] # None /\ o \in kept /\ ~Stopping(o)
  BY LookStands DEF TypeOK, PlaceInv, Looked, Reads, ReadLog, Wakes, WakeTaken, WakeFailed, Settle,
                    Idle, Steps
<1>2. UNCHANGED <<unit, up, kept, call, starting, loose>>
  BY DEF Reads, ReadLog, Wakes, WakeTaken, WakeFailed, Settle, outside, calls, account, history
<1>3. /\ watch'[o] \in Watch /\ watch'[o].ready = watch[o].ready
      /\ \A p \in Obs \ {o} : watch'[p] = watch[p] /\ disk'[p] = disk[p]
      /\ look' # Idle => look'.of = o /\ look'.at \in Steps
      /\ disk'[o] # None
  <2>1. CASE Reads
    <3>1. PICK due \in BOOLEAN : ReadLog(due)
      BY <2>1 DEF Reads
    <3>2. look.at = "reading" /\ disk' = disk
      BY <3>1 DEF ReadLog
    <3> QED
      BY <1>1, <3>1, <3>2, ReadLogDoes DEF Steps
  <2>2. CASE Wakes
    <3>1. look.at = "waking" /\ disk' = disk
      BY <2>2 DEF Wakes, WakeTaken, WakeFailed
    <3> QED
      BY <1>1, <2>2, <3>1, WakesDo DEF Woken, Steps
  <2>3. CASE Settle
    <3>1. look.rec # None
      BY <1>1, NoneAssumption DEF Looks
    <3> QED
      BY <1>1, <2>3, <3>1, SettleDoes
  <2> QED
    BY <2>1, <2>2, <2>3
<1> HIDE DEF o
<1>4. look.of = o
  BY DEF o
<1> QED
  BY <1>1, <1>2, <1>3, <1>4, WritingKeepsPlaces

\* The manager stops a unit, or it runs loose.
LEMMA UnitStopsDoes ==
    ASSUME TypeOK, NEW o \in Obs, unit[o] # "none" \/ disk[o] # None, UnitStops(o)
    PROVE  /\ Stopped(o)'
           /\ \A p \in Obs \ {o} : unit'[p] = unit[p] /\ (p \in loose' <=> p \in loose)
           /\ unit[o] # "none" => unit'[o] # "none"
           /\ unit'[o] = "runs" => unit[o] = "runs"
           /\ o \in loose => o \in loose'
BY DEF UnitStops, Stopped, TypeOK

\* The end of an observer whose session is gone.
LEMMA LookEndPlaces ==
    ASSUME TypeOK, PlaceInv, LookEnds \/ LookRemoves
    PROVE  PlaceInv'
<1>0. look # Idle /\ look.of \in Obs
  BY LookStands DEF TypeOK, LookEnds, LookRemoves, Idle
<1> PICK o \in Obs : o = look.of
  BY <1>0
<1>1. /\ look # Idle /\ o = look.of /\ look.at \in {"ending", "removing"} /\ up
      /\ watch[o] # None /\ watch[o].ready /\ disk[o] # None /\ o \notin kept /\ ~Stopping(o)
      /\ look.at = "removing" => Stopped(o)
  BY <1>0 DEF PlaceInv, Looked, LookEnds, LookRemoves, Steps
<1>2. starting # o /\ \A p \in Obs \ {o} : ~Looking(p)
  BY <1>1 DEF PlaceInv, Each, Started, Looking
<1>3. CASE LookEnds
  <2>1. /\ look' # Idle /\ look'.of = o /\ look'.at = "removing"
    <3>1. look \in [at : {"ending", "removing"}, of : Obs]
      BY <1>1, <1>3 DEF LookEnds, TypeOK, Look, Idle
    <3>2. look' = [look EXCEPT !.at = "removing"]
      BY <1>3 DEF LookEnds
    <3>3. look'.of = o /\ look'.at = "removing"
      BY <3>1, <3>2
    <3> QED
      BY <3>3 DEF Idle
  <2>2. UNCHANGED <<disk, up, kept, watch, call, starting>>
    BY <1>3 DEF LookEnds, following, calls
  <2>3. /\ Stopped(o)' /\ \A p \in Obs \ {o} : unit'[p] = unit[p] /\ (p \in loose' <=> p \in loose)
        /\ unit[o] # "none" => unit'[o] # "none"
    BY <1>1, <1>3, UnitStopsDoes DEF LookEnds
  <2>4. ASSUME NEW p \in Obs PROVE Each(p)'
    <3>1. Each(p) /\ Stopping(p)' = Stopping(p)
      BY <2>2 DEF PlaceInv, Stopping
    <3>2. CASE p = o
      <4>1. Looking(o)'
        BY <2>1 DEF Looking
      <4> QED
        BY <1>1, <1>2, <2>1, <2>2, <2>3, <3>1, <3>2, <4>1
           DEF Each, Followed, Started, Called, Fresh, Ending
    <3>3. CASE p # o
      BY <1>2, <2>2, <2>3, <3>1, <3>3 DEF Each, Followed, Started, Called, Fresh, Ending, Stopped
    <3> QED
      BY <3>2, <3>3
  <2>5. Looked'
    BY <1>1, <2>1, <2>2, <2>3 DEF Looked, Stopping, Steps
  <2> QED
    BY <2>4, <2>5 DEF PlaceInv
<1>4. CASE LookRemoves
  <2>1. /\ look' = Idle /\ Stopped(o)
        /\ disk' = [disk EXCEPT ![o] = None] /\ watch' = [watch EXCEPT ![o] = None]
        /\ UNCHANGED <<unit, up, kept, call, starting, loose>>
    BY <1>1, <1>4 DEF LookRemoves, outside, calls, account, history
  <2>2. /\ disk'[o] = None /\ watch'[o] = None
        /\ \A p \in Obs \ {o} : disk'[p] = disk[p] /\ watch'[p] = watch[p]
    BY <1>1, <2>1 DEF TypeOK
  <2>3. ASSUME NEW p \in Obs PROVE Each(p)'
    <3>1. Each(p) /\ Stopping(p)' = Stopping(p)
      BY <2>1 DEF PlaceInv, Stopping
    <3>2. CASE p = o
      BY <1>1, <1>2, <2>1, <2>2, <3>1, <3>2 DEF Each, Followed, Started, Called, Fresh, Stopped
    <3>3. CASE p # o
      BY <1>2, <2>1, <2>2, <3>1, <3>3 DEF Each, Followed, Started, Called, Fresh, Ending, Stopped
    <3> QED
      BY <3>2, <3>3
  <2> QED
    BY <2>1, <2>3 DEF PlaceInv, Looked
<1> QED
  BY <1>3, <1>4

\* A stop takes the observer from the keeper, the manager and the disk.
LEMMA StopPlaces ==
    ASSUME TypeOK, PlaceInv, NEW o \in Obs, Stop(o)
    PROVE  PlaceInv'
<1>1. Each(o) /\ (Looking(o) => ~Stopping(o))
  BY DEF PlaceInv, Looked, Looking
<1>2. call \in [Obs -> {"none", "waits", "ending", "removing", "noticing", "answered"}]
  BY DEF TypeOK
<1>3. ASSUME NEW press \in BOOLEAN, StopAsked(o, press) PROVE PlaceInv'
  <2>1. /\ up /\ o \in kept /\ watch[o].ready /\ call[o] = "none" /\ call' = [call EXCEPT ![o] = "waits"]
        /\ UNCHANGED <<unit, disk, up, kept, watch, look, starting, loose>>
    BY <1>3 DEF StopAsked, outside, following, account, history
  <2>2. ASSUME NEW p \in Obs PROVE Each(p)'
    <3>1. Each(p) /\ Stopping(p)' = Stopping(p)
      BY <1>2, <2>1 DEF PlaceInv, Stopping
    <3> QED
      BY <1>2, <2>1, <3>1 DEF Each, Followed, Started, Called, Fresh, Ending, Looking, Stopped
  <2>3. Looked'
    BY <1>2, <2>1 DEF PlaceInv, Looked, Stopping, Stopped
  <2> QED
    BY <2>2, <2>3 DEF PlaceInv
<1>4. CASE StopHolds(o)
  <2>1. /\ call[o] = "waits" /\ ~Looking(o) /\ kept' = kept \ {o}
        /\ call' = [call EXCEPT ![o] = IF o \in kept THEN "ending" ELSE "answered"]
        /\ UNCHANGED <<unit, disk, up, watch, look, starting, loose>>
    BY <1>4 DEF StopHolds, outside, account, history
  <2>2. up /\ starting # o /\ (disk[o] # None => o \in kept) /\ (o \in kept => disk[o] # None)
    BY <1>1, <2>1 DEF Each, Followed, Started, Called, Ending, Stopping
  <2>3. ASSUME NEW p \in Obs PROVE Each(p)'
    <3>1. Each(p)
      BY DEF PlaceInv
    <3>2. CASE p = o
      BY <1>2, <2>1, <2>2, <3>1, <3>2 DEF Each, Followed, Started, Called, Fresh, Ending, Stopping
    <3>3. CASE p # o
      <4>1. call'[p] = call[p] /\ (p \in kept' <=> p \in kept)
        BY <1>2, <2>1, <3>3
      <4> QED
        BY <2>1, <3>1, <4>1 DEF Each, Followed, Started, Called, Fresh, Ending, Looking, Stopping, Stopped
    <3> QED
      BY <3>2, <3>3
  <2>4. Looked'
    <3>1. look # Idle => look.of # o /\ look.of \in Obs
      BY <2>1, LookStands DEF TypeOK, Looking
    <3> QED
      BY <1>2, <2>1, <3>1 DEF PlaceInv, Looked, Stopping, Stopped
  <2> QED
    BY <2>3, <2>4 DEF PlaceInv
<1>5. CASE StopEnds(o)
  <2>1. /\ call[o] = "ending" /\ call' = [call EXCEPT ![o] = "removing"]
        /\ UNCHANGED <<disk, up, kept, watch, look, starting>>
    BY <1>5 DEF StopEnds, following
  <2>2. disk[o] # None /\ o \notin kept /\ starting # o /\ ~Looking(o) /\ up
    BY <1>1, <2>1 DEF Each, Followed, Started, Called, Stopping
  <2>3. /\ Stopped(o)' /\ \A p \in Obs \ {o} : unit'[p] = unit[p] /\ (p \in loose' <=> p \in loose)
    BY <1>5, <2>2, UnitStopsDoes DEF StopEnds
  <2>4. ASSUME NEW p \in Obs PROVE Each(p)'
    <3>1. Each(p)
      BY DEF PlaceInv
    <3>2. CASE p = o
      BY <1>2, <2>1, <2>2, <2>3, <3>1, <3>2 DEF Each, Followed, Started, Called, Fresh, Ending, Stopping
    <3>3. CASE p # o
      <4>1. call'[p] = call[p]
        BY <1>2, <2>1, <3>3
      <4> QED
        BY <2>1, <2>3, <3>1, <3>3, <4>1
           DEF Each, Followed, Started, Called, Fresh, Ending, Looking, Stopping, Stopped
    <3> QED
      BY <3>2, <3>3
  <2>5. Looked'
    <3>1. look # Idle => look.of # o /\ look.of \in Obs
      BY <2>2, LookStands DEF TypeOK, Looking
    <3> QED
      BY <1>2, <2>1, <2>3, <3>1 DEF PlaceInv, Looked, Stopping, Stopped
  <2> QED
    BY <2>4, <2>5 DEF PlaceInv
<1>6. CASE StopRemoves(o)
  <2> PICK over \in {"noticing", "answered"} : call' = [call EXCEPT ![o] = over]
    BY <1>6 DEF StopRemoves
  <2>1. /\ call[o] = "removing" /\ call' = [call EXCEPT ![o] = over]
        /\ disk' = [disk EXCEPT ![o] = None]
        /\ UNCHANGED <<unit, up, kept, watch, look, starting, loose>>
    BY <1>6 DEF StopRemoves, outside, following, account, history
  <2>2. o \notin kept /\ starting # o /\ ~Looking(o) /\ Stopped(o)
    BY <1>1, <2>1 DEF Each, Followed, Started, Called, Stopping
  <2>3. disk'[o] = None /\ \A p \in Obs \ {o} : disk'[p] = disk[p]
    BY <2>1 DEF TypeOK
  <2>4. ASSUME NEW p \in Obs PROVE Each(p)'
    <3>1. Each(p)
      BY DEF PlaceInv
    <3>2. CASE p = o
      BY <1>2, <2>1, <2>2, <2>3, <3>1, <3>2 DEF Each, Followed, Started, Called, Fresh, Ending, Stopping, Stopped
    <3>3. CASE p # o
      <4>1. call'[p] = call[p]
        BY <1>2, <2>1, <3>3
      <4> QED
        BY <2>1, <2>3, <3>1, <3>3, <4>1
           DEF Each, Followed, Started, Called, Fresh, Ending, Looking, Stopping, Stopped
    <3> QED
      BY <3>2, <3>3
  <2>5. Looked'
    <3>1. look # Idle => look.of # o /\ look.of \in Obs
      BY <2>2, LookStands DEF TypeOK, Looking
    <3> QED
      BY <1>2, <2>1, <2>3, <3>1 DEF PlaceInv, Looked, Stopping, Stopped
  <2> QED
    BY <2>4, <2>5 DEF PlaceInv
<1>7. ASSUME NEW taken \in BOOLEAN, StopNotices(o, taken) PROVE PlaceInv'
  <2>1. /\ call[o] = "noticing" /\ call' = [call EXCEPT ![o] = "answered"]
        /\ UNCHANGED <<unit, disk, up, kept, watch, look, starting, loose>>
    BY <1>7 DEF StopNotices, outside, following
  <2>2. ASSUME NEW p \in Obs PROVE Each(p)'
    <3>1. Each(p) /\ Stopping(p)' = Stopping(p)
      BY <1>2, <2>1 DEF PlaceInv, Stopping
    <3> QED
      BY <1>2, <2>1, <3>1 DEF Each, Followed, Started, Called, Fresh, Ending, Looking, Stopped
  <2>3. Looked'
    BY <1>2, <2>1 DEF PlaceInv, Looked, Stopping, Stopped
  <2> QED
    BY <2>2, <2>3 DEF PlaceInv
<1> QED
  BY <1>3, <1>4, <1>5, <1>6, <1>7 DEF Stop, StopGoesOn

\* A start gives the place first, and the unit after the record.
LEMMA StartPlaces ==
    ASSUME TypeOK, PlaceInv, Starts \/ \E o \in Obs : StartWrites(o)
    PROVE  PlaceInv'
<1>1. ASSUME NEW o \in Obs, StartWrites(o) PROVE PlaceInv'
  <2> DEFINE w == [Taken(NewRecord) EXCEPT !.ready = FALSE]
  <2>1. w \in Watch /\ ~w.ready /\ NewRecord \in Record /\ w # None /\ NewRecord # None
    BY NewIsARecord, TakenIsAWatch, NoneAssumption
  <2>2. /\ up /\ starting = None /\ watch[o] = None /\ disk[o] = None /\ unit[o] = "none"
        /\ kept' = kept \cup {o} /\ watch' = [watch EXCEPT ![o] = w]
        /\ disk' = [disk EXCEPT ![o] = NewRecord] /\ starting' = o
        /\ UNCHANGED <<unit, up, look, call, loose>>
    BY <1>1 DEF StartWrites, outside, account, history
  <2> HIDE DEF w
  <2>3. /\ watch'[o] = w /\ disk'[o] = NewRecord
        /\ \A p \in Obs \ {o} : watch'[p] = watch[p] /\ disk'[p] = disk[p]
    BY <2>2 DEF TypeOK
  <2>4. call[o] = "none" /\ ~Looking(o)
    BY <2>2 DEF PlaceInv, Looked, Looking, Each, Followed, Fresh
  <2>5. ASSUME NEW p \in Obs PROVE Each(p)'
    <3>1. Each(p)
      BY DEF PlaceInv
    <3>2. CASE p = o
      BY <2>1, <2>2, <2>3, <2>4, <3>1, <3>2 DEF Each, Followed, Started, Called, Fresh, Stopping
    <3>3. CASE p # o
      BY <2>2, <2>3, <3>1, <3>3
         DEF Each, Followed, Started, Called, Fresh, Ending, Looking, Stopping, Stopped
    <3> QED
      BY <3>2, <3>3
  <2>6. Looked'
    <3>1. look # Idle => look.of # o /\ look.of \in Obs
      BY <2>4, LookStands DEF TypeOK, Looking
    <3> QED
      BY <2>2, <2>3, <3>1 DEF PlaceInv, Looked, Stopping, Stopped
  <2> QED
    BY <2>5, <2>6 DEF PlaceInv
<1>2. CASE UnitStarts
  <2> PICK o \in Obs : o = starting
    BY <1>2 DEF UnitStarts, TypeOK
  <2> DEFINE w == [watch[o] EXCEPT !.ready = TRUE]
  <2>1. /\ o \in kept /\ up /\ watch[o] \in Watch /\ disk[o] # None /\ ~watch[o].ready /\ unit[o] = "none"
        /\ call[o] = "none"
    BY DEF PlaceInv, Each, Followed, Started, TypeOK
  <2>2. w \in Watch /\ w.ready /\ w # None
    BY <2>1, NoneAssumption DEF Watch
  <2>3. /\ unit' = [unit EXCEPT ![o] = "runs"] /\ watch' = [watch EXCEPT ![o] = w] /\ starting' = None
        /\ UNCHANGED <<disk, up, kept, look, call, loose>>
    BY <1>2 DEF UnitStarts, history
  <2> HIDE DEF w
  <2>4. /\ watch'[o] = w /\ unit'[o] = "runs"
        /\ \A p \in Obs \ {o} : watch'[p] = watch[p] /\ unit'[p] = unit[p]
    BY <2>3 DEF TypeOK
  <2>5. ~Looking(o)
    BY <2>1 DEF PlaceInv, Looked, Looking
  <2>6. ASSUME NEW p \in Obs PROVE Each(p)'
    <3>1. Each(p)
      BY DEF PlaceInv
    <3>2. p # None
      BY NoneAssumption
    <3>3. CASE p = o
      BY <2>1, <2>2, <2>3, <2>4, <3>1, <3>2, <3>3 DEF Each, Followed, Started, Called, Fresh, Stopping
    <3>4. CASE p # o
      BY <2>3, <2>4, <3>1, <3>2, <3>4
         DEF Each, Followed, Started, Called, Fresh, Ending, Looking, Stopping, Stopped
    <3> QED
      BY <3>3, <3>4
  <2>7. Looked'
    <3>1. look # Idle => look.of # o /\ look.of \in Obs
      BY <2>5, LookStands DEF TypeOK, Looking
    <3> QED
      BY <2>3, <2>4, <3>1 DEF PlaceInv, Looked, Stopping, Stopped
  <2> QED
    BY <2>6, <2>7 DEF PlaceInv
<1>3. ASSUME NEW runs \in BOOLEAN, UnitFails(runs) PROVE PlaceInv'
  <2> PICK o \in Obs : o = starting
    BY <1>3 DEF UnitFails, TypeOK
  <2>1. /\ o \in kept /\ up /\ ~watch[o].ready /\ unit[o] = "none" /\ call[o] = "none"
    BY DEF PlaceInv, Each, Followed, Started
  <2>2. /\ unit' = [unit EXCEPT ![o] = IF runs THEN "runs" ELSE "ended"]
        /\ loose' = IF runs THEN loose \cup {o} ELSE loose
        /\ watch' = [watch EXCEPT ![o] = None] /\ disk' = [disk EXCEPT ![o] = None]
        /\ kept' = kept \ {o} /\ starting' = None /\ UNCHANGED <<up, look, call>>
    BY <1>3 DEF UnitFails
  <2>3. /\ watch'[o] = None /\ disk'[o] = None /\ unit'[o] # "none"
        /\ \A p \in Obs \ {o} : /\ watch'[p] = watch[p] /\ unit'[p] = unit[p] /\ disk'[p] = disk[p]
                                /\ (p \in kept' <=> p \in kept) /\ (p \in loose' <=> p \in loose)
        /\ o \notin kept'
    BY <2>2 DEF TypeOK
  <2>4. ~Looking(o)
    BY <2>1 DEF PlaceInv, Looked, Looking
  <2>5. ASSUME NEW p \in Obs PROVE Each(p)'
    <3>1. Each(p)
      BY DEF PlaceInv
    <3>2. p # None
      BY NoneAssumption
    <3>3. CASE p = o
      BY <2>1, <2>2, <2>3, <3>1, <3>2, <3>3 DEF Each, Followed, Started, Called, Fresh, Stopping
    <3>4. CASE p # o
      BY <2>2, <2>3, <3>1, <3>2, <3>4
         DEF Each, Followed, Started, Called, Fresh, Ending, Looking, Stopping, Stopped
    <3> QED
      BY <3>3, <3>4
  <2>6. Looked'
    <3>1. look # Idle => look.of # o /\ look.of \in Obs
      BY <2>4, LookStands DEF TypeOK, Looking
    <3> QED
      BY <2>2, <2>3, <3>1 DEF PlaceInv, Looked, Stopping, Stopped
  <2> QED
    BY <2>5, <2>6 DEF PlaceInv
<1> QED
  BY <1>1, <1>2, <1>3 DEF Starts

\* A fall leaves the units and the disk; the next executor keeps what the disk has.
LEMMA FallPlaces ==
    ASSUME TypeOK, PlaceInv, Fall \/ Load
    PROVE  PlaceInv'
<1>1. CASE Fall
  <2>1. /\ ~up' /\ kept' = {} /\ look' = Idle /\ starting' = None /\ disk' = disk
        /\ \A p \in Obs : /\ watch'[p] = None
                          /\ call'[p] = IF call[p] = "answered" THEN "answered" ELSE "none"
                          /\ unit[p] # "none" => unit'[p] # "none"
    <3>1. \A p \in Obs : unit[p] # "none" => unit'[p] # "none"
      BY <1>1 DEF Fall, TypeOK
    <3> QED
      BY <1>1, <3>1 DEF Fall
  <2>2. ASSUME NEW p \in Obs PROVE Each(p)'
    <3>1. Each(p) /\ p # None
      BY NoneAssumption DEF PlaceInv
    <3> QED
      BY <2>1, <3>1 DEF Each, Followed, Started, Called, Fresh, Stopping
  <2> QED
    BY <2>1, <2>2 DEF PlaceInv, Looked
<1>2. CASE Load
  <2>1. \A p \in Obs : watch[p] = None /\ call[p] \in {"none", "answered"} /\ starting # p
    <3> TAKE p \in Obs
    <3>1. Each(p) /\ ~up /\ call[p] \in {"none", "waits", "ending", "removing", "noticing", "answered"}
      BY <1>2 DEF PlaceInv, Load, TypeOK
    <3> QED
      BY <3>1 DEF Each, Followed, Started, Called
  <2>2. look = Idle
    BY <1>2 DEF PlaceInv, Looked, Load
  <2>3. /\ up' /\ kept' = {o \in Obs : disk[o] # None} /\ UNCHANGED <<disk, look, call, starting>>
        /\ \A p \in Obs : /\ watch'[p] = Back(p)
                          /\ unit[p] # "none" => unit'[p] # "none"
                          /\ unit'[p] = "runs" => disk[p] # None \/ p \in loose'
    <3>1. \A p \in Obs : /\ unit[p] # "none" => unit'[p] # "none"
                         /\ unit'[p] = "runs" => disk[p] # None \/ p \in loose'
      BY <1>2 DEF Load
    <3> QED
      BY <1>2, <3>1 DEF Load, calls
  <2>4. ASSUME NEW p \in Obs PROVE Back(p) = None <=> disk[p] = None
    <3>1. disk[p] # None => disk[p] \in Record
      BY DEF TypeOK
    <3>2. disk[p] # None => Taken(disk[p]) \in Watch
      BY <3>1, TakenIsAWatch
    <3> QED
      BY <3>2, NoneAssumption DEF Back
  <2>5. ASSUME NEW p \in Obs PROVE Each(p)'
    <3>1. Each(p)
      BY DEF PlaceInv
    <3> QED
      BY <2>1, <2>3, <2>4, <3>1 DEF Each, Followed, Started, Called, Fresh, Stopping
  <2> QED
    BY <2>2, <2>3, <2>5 DEF PlaceInv, Looked
<1> QED
  BY <1>1, <1>2

\* A unit that ends, and a session that goes, move none.
LEMMA EnvironmentPlaces ==
    ASSUME TypeOK, PlaceInv, Environment
    PROVE  PlaceInv'
<1>1. ASSUME NEW o \in Obs, CommandEnds(o) PROVE PlaceInv'
  <2>1. /\ unit[o] = "runs" /\ unit' = [unit EXCEPT ![o] = "ended"]
        /\ UNCHANGED <<disk, up, kept, watch, look, call, starting, loose>>
    BY <1>1 DEF CommandEnds, following, calls, account, history
  <2>2. unit'[o] = "ended" /\ \A p \in Obs \ {o} : unit'[p] = unit[p]
    BY <2>1 DEF TypeOK
  <2>3. \A p \in Obs : Stopped(p) => Stopped(p)'
    BY <2>1, <2>2 DEF Stopped
  <2>4. ASSUME NEW p \in Obs PROVE Each(p)'
    <3>1. Each(p)
      BY DEF PlaceInv
    <3> QED
      BY <2>1, <2>2, <2>3, <3>1 DEF Each, Followed, Started, Called, Fresh, Ending, Looking, Stopping
  <2>5. Looked'
    <3>1. look # Idle => look.of \in Obs
      BY LookStands DEF TypeOK
    <3> QED
      BY <2>1, <2>3, <3>1 DEF PlaceInv, Looked, Stopping
  <2> QED
    BY <2>4, <2>5 DEF PlaceInv
<1>2. CASE ~ \E o \in Obs : CommandEnds(o)
  BY <1>2, SamePlaces DEF Environment, Begins, Prints, OwnerGoes, OwnerIsAway, OwnerIsBack,
                          outside, following, calls, account, history, counters
<1> QED
  BY <1>1, <1>2

LEMMA StepPlaces ==
    ASSUME TypeOK, PlaceInv, [Next]_vars
    PROVE  PlaceInv'
<1>1. CASE UNCHANGED vars
  BY <1>1, SamePlaces DEF vars, outside, following, calls, account, history
<1> QED
  BY <1>1, LookPlaces, ReadPlaces, LookEndPlaces, StopPlaces, StartPlaces, FallPlaces,
     EnvironmentPlaces DEF Next, LookGoesOn

\* Every variable keeps its type, for any observers, lines and bounds: the watch
\* a step writes in, of a look, a stop or a start, is one the keeper still has.
THEOREM KeeperTypes == Spec => []TypeOK
<1>1. Init => TypeOK /\ PlaceInv
  BY InitTypes, InitPlaces
<1>2. TypeOK /\ PlaceInv /\ [Next]_vars => TypeOK' /\ PlaceInv'
  BY StepTypes, StepPlaces
<1> QED
  BY <1>1, <1>2, PTL DEF Spec

\* Where each observer stands in the keeper, on the disk and with the manager.
THEOREM KeeperPlaces == Spec => []PlaceInv
<1>1. Init => TypeOK /\ PlaceInv
  BY InitTypes, InitPlaces
<1>2. TypeOK /\ PlaceInv /\ [Next]_vars => TypeOK' /\ PlaceInv'
  BY StepTypes, StepPlaces
<1> QED
  BY <1>1, <1>2, PTL DEF Spec

\* A unit that runs has a record, so that the keeper follows it, starts it or
\* ends it, or the manager did not do or say what it was asked: no order of
\* starts, stops, looks, ends and falls leaves a unit that runs for nobody.
THEOREM UnitsAreFollowed == Spec => []UnitIsFollowed
<1>1. PlaceInv => UnitIsFollowed
  BY DEF PlaceInv, Each, Followed, UnitIsFollowed
<1> QED
  BY <1>1, KeeperPlaces, PTL

\* A stop that is answered holds: the session hears of the observer no more, though
\* a look was under way when the stop was asked, and a fall does not bring it back;
\* of the panel's stop it has heard by then.
THEOREM StoppedIsSilent == Spec => NoWordAfterStop
<1>1. ASSUME TypeOK, PlaceInv, [Next]_vars, NEW o \in Obs, call[o] = "answered"
      PROVE  told'[o] = told[o]
  <2>1. CASE Wakes
    <3>1. look.at = "waking" /\ look # Idle
      BY <1>1, <2>1, LookStands DEF TypeOK, Wakes, WakeTaken, WakeFailed
    <3>2. look.of \in kept /\ look.of \in Obs /\ watch[look.of] # None
      BY <1>1, <3>1, LookStands DEF TypeOK, PlaceInv, Looked, Steps
    <3>3. look.of # o
      BY <1>1, <3>2 DEF PlaceInv, Each, Followed
    <3> QED
      BY <1>1, <2>1, <3>1, <3>2, <3>3, WakesDo
  <2>2. CASE ~Wakes
    <3>1. \A p \in Obs : LookAt(p) => told' = told
      BY DEF LookAt, LookOn, LookAway, LookGone, LookLeaves, account, history
    <3>2. \A p \in Obs : Stop(p) \/ StartWrites(p) => told' = told
      BY DEF Stop, StopAsked, StopGoesOn, StopHolds, StopEnds, StopRemoves, StopNotices, StartWrites,
             account, history
    <3>3. Reads \/ Settle \/ LookEnds \/ LookRemoves => told' = told
      BY DEF Reads, ReadLog, Settle, LookEnds, LookRemoves, account, history
    <3>4. Starts \/ Fall \/ Load \/ Environment => told' = told
      BY DEF Starts, UnitStarts, UnitFails, Fall, Load, Environment, Begins, Prints, CommandEnds,
             OwnerGoes, OwnerIsAway, OwnerIsBack, account, history
    <3>5. UNCHANGED vars => told' = told
      BY DEF vars, account, history
    <3> QED
      BY <1>1, <2>2, <3>1, <3>2, <3>3, <3>4, <3>5 DEF Next, LookGoesOn
  <2> QED
    BY <2>1, <2>2
<1>2. ASSUME TypeOK, [Next]_vars, NEW o \in Obs, call[o] = "answered"
      PROVE  o \in noticed' => o \in noticed
  <2>1. ASSUME NEW p \in Obs, NEW taken \in BOOLEAN, StopNotices(p, taken)
        PROVE  o \in noticed' => o \in noticed
    BY <1>2, <2>1 DEF StopNotices
  <2>2. CASE ~ \E p \in Obs, taken \in BOOLEAN : StopNotices(p, taken)
    <3>1. \A p \in Obs : LookAt(p) => noticed' = noticed
      BY DEF LookAt, LookOn, LookAway, LookGone, LookLeaves, history
    <3>2. \A p \in Obs : Stop(p) \/ StartWrites(p) => noticed' = noticed
      BY <2>2 DEF Stop, StopAsked, StopGoesOn, StopHolds, StopEnds, StopRemoves, StartWrites, history
    <3>3. LookGoesOn => noticed' = noticed
      BY DEF LookGoesOn, Reads, ReadLog, Wakes, WakeTaken, WakeFailed, Settle, LookEnds, LookRemoves, history
    <3>4. Starts \/ Fall \/ Load \/ Environment => noticed' = noticed
      BY DEF Starts, UnitStarts, UnitFails, Fall, Load, Environment, Begins, Prints, CommandEnds,
             OwnerGoes, OwnerIsAway, OwnerIsBack, history
    <3>5. UNCHANGED vars => noticed' = noticed
      BY DEF vars, history
    <3> QED
      BY <1>2, <3>1, <3>2, <3>3, <3>4, <3>5 DEF Next
  <2> QED
    BY <2>1, <2>2
<1>3. TypeOK /\ PlaceInv /\ [Next]_vars
          => [\A o \in Obs : call[o] = "answered" =>
                  told'[o] = told[o] /\ (o \in noticed' => o \in noticed)]_vars
  BY <1>1, <1>2
<1> QED
  BY <1>3, KeeperTypes, KeeperPlaces, PTL DEF Spec, NoWordAfterStop

----------------------------------------------------------------------------
(* Places *)

\* The observers that have a place of the session, or will when the executor is
\* back: what an end in progress leaves on the disk has none, for it is cut.
Own == (IF up THEN kept ELSE {o \in Obs : disk[o] # None}) \ cut

PlacesInv ==
    /\ Cardinality(Own) <= PerSession
    /\ \A o, p \in Own : Name[o] = Name[p] => o = p

\* Places given back keep the bound.
LEMMA FewerPlaces ==
    ASSUME TypeOK, PlacesInv, Own' \subseteq Own
    PROVE  PlacesInv'
<1>1. IsFiniteSet(Own)
  <2>1. IsFiniteSet(Obs) /\ Own \subseteq Obs
    BY KeeperAssumption DEF TypeOK, Own
  <2> QED
    BY <2>1, FS_Subset
<1>2. Cardinality(Own') <= Cardinality(Own) /\ Cardinality(Own) \in Nat /\ Cardinality(Own') \in Nat
  BY <1>1, FS_Subset, FS_CardinalityType
<1>3. PerSession \in Nat
  BY KeeperAssumption
<1>4. Cardinality(Own') <= PerSession
  BY <1>2, <1>3 DEF PlacesInv
<1> QED
  BY <1>4 DEF PlacesInv

LEMMA InitOwn == Init => PlacesInv
<1> SUFFICES ASSUME Init PROVE PlacesInv
  OBVIOUS
<1>1. Own = {}
  BY DEF Init, Own
<1>2. Cardinality(Own) = 0 /\ PerSession \in Nat
  BY <1>1, FS_EmptySet, KeeperAssumption
<1> QED
  BY <1>1, <1>2 DEF PlacesInv

\* But for a start and a fall no step gives a place.
LEMMA PlacesOnlyGo ==
    ASSUME TypeOK, PlaceInv, [Next]_vars, ~Fall, \A o \in Obs : ~StartWrites(o)
    PROVE  Own' \subseteq Own
<1> DEFINE Goes == kept' \subseteq kept /\ up' = up /\ cut' = cut /\ (up \/ disk' = disk)
<1>1. Goes => Own' \subseteq Own
  BY DEF Own
<1> USE DEF outside, following, calls, account, history, counters
<1>2. UNCHANGED vars => Goes
  BY DEF vars
<1>3. \A o \in Obs : LookAt(o) => Goes
  BY DEF LookAt, LookOn, LookAway, LookGone, LookLeaves, CanLook
<1>4. \A o \in Obs : Stop(o) => Goes
  <2> TAKE o \in Obs
  <2>1. Each(o)
    BY DEF PlaceInv
  <2> QED
    BY <2>1 DEF Stop, StopAsked, StopGoesOn, StopHolds, StopEnds, StopRemoves, StopNotices, Each, Called
<1>5. Reads \/ Wakes \/ Settle \/ LookEnds \/ LookRemoves => Goes
  <2> SUFFICES ASSUME Reads \/ Wakes \/ Settle \/ LookEnds \/ LookRemoves PROVE Goes
    OBVIOUS
  <2>1. look # Idle
    BY LookStands DEF TypeOK, Reads, ReadLog, Wakes, WakeTaken, WakeFailed, Settle, LookEnds, LookRemoves
  <2>2. up
    BY <2>1 DEF PlaceInv, Looked
  <2> QED
    BY <2>2 DEF Reads, ReadLog, Wakes, WakeTaken, WakeFailed, Settle, LookEnds, LookRemoves
<1>6. Starts => Goes
  <2> SUFFICES ASSUME Starts PROVE Goes
    OBVIOUS
  <2>1. starting \in Obs
    BY DEF Starts, UnitStarts, UnitFails, TypeOK
  <2>2. up
    BY <2>1 DEF PlaceInv, Each, Started, Followed
  <2> QED
    BY <2>2 DEF Starts, UnitStarts, UnitFails
<1>7. Load => Own' \subseteq Own
  BY DEF Load, Own
<1>8. Environment => Goes
  BY DEF Environment, Begins, Prints, CommandEnds, OwnerGoes, OwnerIsAway, OwnerIsBack
<1> QED
  BY <1>1, <1>2, <1>3, <1>4, <1>5, <1>6, <1>7, <1>8 DEF Next, LookGoesOn

\* A start has a place only if there is one, and a fall cuts an end it meets.
LEMMA StepOwn ==
    ASSUME TypeOK, PlaceInv, PlacesInv, [Next]_vars
    PROVE  PlacesInv'
<1>1. CASE Fall
  <2>1. ~up' /\ up /\ disk' = disk /\ cut' = cut \cup {o \in Obs : Ending(o)}
    BY <1>1 DEF Fall
  <2>2. \A o \in Obs : disk[o] # None => o \in kept \/ Ending(o)
    BY <2>1 DEF PlaceInv, Each, Followed
  <2>3. Own' \subseteq Own
    BY <2>1, <2>2 DEF Own
  <2> QED
    BY <2>3, FewerPlaces
<1>2. ASSUME NEW o \in Obs, StartWrites(o) PROVE PlacesInv'
  <2>1. /\ up /\ up' /\ kept' = kept \cup {o} /\ cut' = cut
        /\ Cardinality(kept) < PerSession /\ \A p \in kept : Name[p] # Name[o]
    BY <1>2 DEF StartWrites, Place, history
  <2>2. IsFiniteSet(kept) /\ IsFiniteSet(kept')
    <3>1. IsFiniteSet(Obs) /\ kept \subseteq Obs
      BY KeeperAssumption DEF TypeOK
    <3>2. IsFiniteSet(kept)
      BY <3>1, FS_Subset
    <3> QED
      BY <2>1, <3>2, FS_AddElement
  <2>3. Own = kept \ cut /\ Own' = kept' \ cut
    BY <2>1 DEF Own
  <2>4. Cardinality(kept') <= Cardinality(kept) + 1 /\ Cardinality(kept) \in Nat /\ Cardinality(kept') \in Nat
    BY <2>1, <2>2, FS_AddElement, FS_CardinalityType
  <2>5. Cardinality(Own') <= Cardinality(kept') /\ Cardinality(Own') \in Nat
    <3>1. Own' \subseteq kept'
      BY <2>3
    <3>2. IsFiniteSet(Own') /\ Cardinality(Own') <= Cardinality(kept')
      BY <2>2, <3>1, FS_Subset
    <3> QED
      BY <3>2, FS_CardinalityType
  <2>6. PerSession \in Nat
    BY KeeperAssumption
  <2>7. Cardinality(Own') <= PerSession
    BY <2>1, <2>4, <2>5, <2>6
  <2>8. \A p, q \in Own' : Name[p] = Name[q] => p = q
    BY <2>1, <2>3 DEF PlacesInv
  <2> QED
    BY <2>7, <2>8 DEF PlacesInv
<1>3. CASE ~Fall /\ \A o \in Obs : ~StartWrites(o)
  BY <1>3, PlacesOnlyGo, FewerPlaces
<1> QED
  BY <1>1, <1>2, <1>3

\* Through starts, stops, ends and falls a session keeps as many observers as it
\* may and no two of one name, but for those whose end a fall cut.
THEOREM PlacesAreTheirs == Spec => []PlacesAreKept
<1>1. Init => PlacesInv
  BY InitOwn
<1>2. TypeOK /\ PlaceInv /\ PlacesInv /\ [Next]_vars => PlacesInv'
  BY StepOwn
<1>3. TypeOK /\ PlaceInv /\ PlacesInv => PlacesAreKept
  <2> SUFFICES ASSUME TypeOK, PlaceInv, PlacesInv PROVE PlacesAreKept
    OBVIOUS
  <2>1. CASE up
    BY <2>1 DEF PlacesInv, PlacesAreKept, Own
  <2>2. CASE ~up
    <3>1. kept = {}
      BY <2>2 DEF TypeOK, PlaceInv, Each, Followed
    <3>2. kept \ cut = {} /\ Cardinality(kept \ cut) = 0 /\ PerSession \in Nat
      BY <3>1, FS_EmptySet, KeeperAssumption
    <3> QED
      BY <3>2 DEF PlacesAreKept
  <2> QED
    BY <2>1, <2>2
<1> QED
  BY <1>1, <1>2, <1>3, KeeperTypes, KeeperPlaces, PTL DEF Spec

-----------------------------------------------------------------------------
(* The lines *)

\* The lines a record says were read.
UpTo(o, at) == {i \in Worth[o] : i <= Position(at)}

\* A position in a file that is or was there. In a file taken for another it may be
\* past what that one holds.
Behind(o, at) ==
    IF at.inode = 0 THEN at.offset = 0
    ELSE at.offset <= FileLines /\ Before(at.inode) < printed[o]

\* A look reads its log, and the record that look, or else its watch, has.
Reading(o) == Looking(o) /\ look.at \in Steps
Current(o) == IF Reading(o) THEN look.rec ELSE watch[o].rec

\* Told of what a record does not say was told.
Ahead(o, rec) == {i \in told[o] : IF i = TheEnd THEN ~rec.ended ELSE i > Position(rec.at)}

\* What the disk claims,
Written(o) ==
    disk[o] # None =>
        /\ Behind(o, disk[o].at)
        /\ UpTo(o, disk[o].at) \subseteq Accounted(o)
        /\ ~up => Ahead(o, disk[o]) \subseteq excused[o]

\* what the watch claims,
Remembered(o) ==
    watch[o] # None =>
        /\ Behind(o, watch[o].rec.at)
        /\ UpTo(o, watch[o].rec.at) \subseteq Accounted(o) \cup watch[o].batch
        /\ \A i \in watch[o].batch : 1 <= i /\ i <= Position(Current(o).at)
        /\ watch[o].batch \cap told[o] \subseteq excused[o]
        /\ Ahead(o, Current(o)) \subseteq excused[o]
        /\ watch[o].ended => (unit[o] # "runs" \/ o \in early) /\ starting # o

\* and what a look does.
Read(o) ==
    Reading(o) =>
        /\ Behind(o, look.rec.at)
        /\ UpTo(o, look.rec.at) \subseteq Accounted(o) \cup watch[o].batch
        /\ look.at = "reading" => look.rec = watch[o].rec /\ ~look.final
        /\ look.at # "settling" => ~look.rec.ended
        /\ look.final => watch[o].ended /\ (o \in early \/ Position(look.rec.at) >= printed[o])

\* The end is told of a unit that ended, once every line is, or else too early.
Ended(o) ==
    TheEnd \in told[o] /\ o \notin early =>
        unit[o] # "runs" /\ starting # o /\ Worth[o] \cap 1 .. printed[o] \subseteq Accounted(o)

\* Of an observer nobody asked for nothing is told.
Untold(o) == Fresh(o) => told[o] = {}

LogOf(o) == Written(o) /\ Remembered(o) /\ Ended(o) /\ Untold(o) /\ Read(o)

LogInv == \A o \in Obs : LogOf(o)

----------------------------------------------------------------------------
(* The log *)

\* A look leaves no line between where it stood and where it stands that it did
\* not read or pass over, and its batch is of lines it had not read.
LEMMA ReadsOn ==
    ASSUME NEW o \in Obs, printed[o] \in Nat, NEW at \in Cursor, Behind(o, at)
    PROVE  LET next == ReadOn(o, at).next
               lines == ReadOn(o, at).lines
           IN  /\ next \in Cursor /\ Behind(o, next) /\ Position(at) <= Position(next)
               /\ \A i \in Nat : i <= Position(next)
                      => i <= Position(at) \/ i \in Passed(o, at) \/ i \in lines
               /\ \A i \in lines : i \in Nat /\ Position(at) < i /\ i <= Position(next)
               /\ ~ReadOn(o, at).more => Position(next) >= printed[o]
<1> DEFINE from == From(o, at)
           n == ReadLength(o, at)
           next == ReadOn(o, at).next
           new == Newest(o)
<1>1. at.inode \in Nat /\ at.offset \in Nat /\ Position(at) \in Nat
  BY PositionIsANumber DEF Cursor
<1>2. CASE printed[o] = 0
  <2>1. at.inode = 0
    <3> SUFFICES ASSUME at.inode # 0 PROVE FALSE
      OBVIOUS
    <3>1. Before(at.inode) < 0
      BY <1>2 DEF Behind
    <3>2. at.inode - 1 \in Nat /\ FileLines \in Nat
      BY <1>1, Sizes
    <3>3. (at.inode - 1) * FileLines \in Nat
      BY <3>2
    <3> QED
      BY <3>1, <3>3 DEF Before
  <2>2. Position(at) = 0
    BY <2>1 DEF Position
  <2>3. new = 0
    BY <1>2, NewestHasTheLast
  <2>4. next = at /\ ReadOn(o, at).lines = {}
    BY <2>3 DEF ReadOn
  <2> QED
    BY <1>1, <1>2, <2>2, <2>4
<1>3. CASE printed[o] # 0
  <2>1. new \in Nat \ {0} /\ Before(new) < printed[o] /\ printed[o] <= Before(new) + FileLines
        /\ Before(new) \in Int /\ FileLines \in Nat \ {0}
    <3>1. new \in Nat \ {0} /\ Before(new) < printed[o] /\ printed[o] <= Before(new) + FileLines
      BY <1>3, NewestHasTheLast
    <3>2. new \in Int
      BY <3>1
    <3>3. Before(new) \in Int
      BY <3>2, Files
    <3> QED
      BY <3>1, <3>3, Sizes
  <2>2. /\ n \in Nat
        /\ ReadOn(o, at).lines = Position(from) + 1 .. Position(from) + n
        /\ next \in Cursor /\ next.inode \in {from.inode, new}
        /\ from.offset <= FileLines => Position(next) = Position(from) + n /\ next.offset <= FileLines
        /\ ~ReadOn(o, at).more => Position(next) >= printed[o]
    BY <1>3, ReadingOn
  <2>3. /\ from \in Cursor /\ from.inode # 0 /\ from.inode \in {new - 1, new}
        /\ \/ at.inode = 0 /\ from.offset = 0
           \/ at.inode # 0 /\ from.offset = at.offset /\ (at.inode = new => from.inode = new)
           \/ at.inode \notin {0, new} /\ from.offset = 0 /\ from.inode = new
    BY <1>3, FromAFile
  <2>9. Passed(o, at) = Position(at) + 1 .. Position(from)
    BY <2>1 DEF Passed, from, new
  <2> HIDE DEF from, n, next, new
  <2>4. from.inode \in Nat /\ from.offset \in Nat /\ Position(from) = Before(from.inode) + from.offset
        /\ Position(from) \in Nat /\ Position(next) \in Nat /\ next.inode \in Nat /\ next.offset \in Nat
    BY <2>2, <2>3, PositionIsANumber DEF Cursor
  <2>5. Before(from.inode) < printed[o] /\ Before(from.inode) \in Int
    <3>1. CASE from.inode = new
      BY <2>1, <3>1
    <3>2. CASE from.inode = new - 1
      <4>1. Before(from.inode) + FileLines <= Before(new) /\ Before(from.inode) \in Int
        BY <2>1, <2>4, <3>2, Files
      <4> QED
        BY <2>1, <4>1
    <3> QED
      BY <2>3, <3>1, <3>2
  <2>6. at.inode # 0 => /\ at.offset <= FileLines /\ Before(at.inode) < printed[o]
                        /\ Position(at) = Before(at.inode) + at.offset /\ Before(at.inode) \in Int
                        /\ at.inode <= new
    <3> SUFFICES ASSUME at.inode # 0
                 PROVE  /\ at.offset <= FileLines /\ Before(at.inode) < printed[o]
                        /\ Position(at) = Before(at.inode) + at.offset /\ Before(at.inode) \in Int
                        /\ at.inode <= new
      OBVIOUS
    <3>1. new \in Int /\ at.inode \in Int
      BY <1>1, <2>1
    <3>2. Before(at.inode) < printed[o] /\ at.offset <= FileLines
      BY DEF Behind
    <3>3. Position(at) = Before(at.inode) + at.offset
      BY PositionIsANumber
    <3>4. Before(at.inode) \in Int
      BY <3>1, Files
    <3>5. ~ (new < at.inode)
      <4> SUFFICES ASSUME new < at.inode PROVE FALSE
        OBVIOUS
      <4>1. Before(new) + FileLines <= Before(at.inode)
        BY <3>1, Files
      <4> QED
        BY <2>1, <3>2, <3>4, <4>1
    <3> QED
      BY <3>1, <3>2, <3>3, <3>4, <3>5
  <2>7. Position(at) <= Position(from) /\ from.offset <= FileLines
    <3>1. CASE at.inode = 0 /\ from.offset = 0
      <4>1. Position(at) = 0
        BY <3>1 DEF Position
      <4> QED
        BY <2>1, <2>4, <3>1, <4>1
    <3>2. CASE at.inode # 0 /\ from.offset = at.offset /\ (at.inode = new => from.inode = new)
      <4>1. from.offset <= FileLines
        BY <2>6, <3>2
      <4>2. CASE at.inode = from.inode
        BY <2>4, <2>6, <3>2, <4>1, <4>2
      <4>3. CASE at.inode # from.inode
        <5>1. at.inode < from.inode /\ at.inode \in Int /\ from.inode \in Int
          BY <1>1, <2>1, <2>3, <2>4, <2>6, <3>2, <4>3
        <5>2. Before(at.inode) + FileLines <= Before(from.inode)
          BY <5>1, Files
        <5> QED
          BY <1>1, <2>1, <2>4, <2>5, <2>6, <3>2, <4>1, <5>2
      <4> QED
        BY <4>2, <4>3
    <3>3. CASE at.inode \notin {0, new} /\ from.offset = 0 /\ from.inode = new
      <4>1. at.inode < new /\ at.inode \in Int /\ new \in Int
        BY <1>1, <2>1, <2>6, <3>3
      <4>2. Before(at.inode) + FileLines <= Before(new)
        BY <4>1, Files
      <4>3. Position(from) = Before(new)
        BY <2>1, <2>4, <3>3
      <4>4. Position(at) <= Position(from)
        BY <1>1, <2>1, <2>6, <3>3, <4>2, <4>3
      <4> QED
        BY <2>1, <3>3, <4>4
    <3> QED
      BY <2>3, <3>1, <3>2, <3>3
  <2>10. Position(next) = Position(from) + n /\ next.offset <= FileLines
    BY <2>2, <2>7
  <2>8. Behind(o, next)
    <3>1. next.inode # 0 /\ Before(next.inode) < printed[o]
      BY <2>1, <2>2, <2>3, <2>5
    <3> QED
      BY <2>10, <3>1 DEF Behind
  <2>11. ASSUME NEW i \in Nat, i <= Position(next)
         PROVE  i <= Position(at) \/ i \in Passed(o, at) \/ i \in ReadOn(o, at).lines
    BY <1>1, <2>2, <2>4, <2>7, <2>9, <2>10, <2>11
  <2>12. ASSUME NEW i \in ReadOn(o, at).lines
         PROVE  i \in Nat /\ Position(at) < i /\ i <= Position(next)
    BY <1>1, <2>2, <2>4, <2>7, <2>10, <2>12
  <2>13. Position(at) <= Position(next)
    BY <1>1, <2>2, <2>4, <2>7, <2>10
  <2> QED
    BY <2>2, <2>8, <2>11, <2>12, <2>13 DEF next
<1> QED
  BY <1>2, <1>3

----------------------------------------------------------------------------
(* Steps *)

LEMMA InitLog == Init => LogInv
BY NoneAssumption DEF Init, LogInv, LogOf, Written, Remembered, Ended, Untold, Read, Reading, Looking

\* A step that tells, reads and writes nothing of an observer: it may drop its
\* record or its watch, and its unit may change but not begin to run unless it
\* is the one being started.
Leaves(p) ==
    /\ watch'[p] # None =>
          /\ watch[p] # None /\ watch'[p].rec = watch[p].rec /\ watch'[p].batch = watch[p].batch
          /\ watch'[p].ended = watch[p].ended
    /\ disk'[p] # None => disk'[p] = disk[p]
    /\ told'[p] = told[p] /\ dropped'[p] = dropped[p] /\ missed'[p] = missed[p]
    /\ slipped'[p] = slipped[p] /\ paused'[p] = paused[p] /\ excused'[p] = excused[p]
    /\ p \in early => p \in early'
    /\ printed'[p] = printed[p]
    /\ unit'[p] = "runs" => unit[p] = "runs" \/ starting = p
    /\ starting' = p => starting = p
    /\ Fresh(p)' => Fresh(p)
    /\ up => up'
    /\ (Reading(p)' <=> Reading(p)) /\ (Reading(p) => look' = look /\ watch'[p] # None)

\* Nothing is lost or repeated of an observer left alone.
LEMMA LeavesKeeps ==
    ASSUME NEW p \in Obs, LogOf(p), Leaves(p)
    PROVE  LogOf(p)'
<1> USE DEF Leaves
<1>1. Accounted(p)' = Accounted(p)
  BY DEF Accounted
<1>2. \A at : Behind(p, at)' = Behind(p, at) /\ UpTo(p, at)' = UpTo(p, at)
  BY DEF Behind, UpTo
<1>3. \A rec : Ahead(p, rec)' = Ahead(p, rec)
  BY DEF Ahead
<1>4. watch'[p] # None => Current(p)' = Current(p)
  BY DEF Current
<1>5. Written(p)'
  BY <1>1, <1>2, <1>3 DEF LogOf, Written
<1>6. Remembered(p)'
  BY <1>1, <1>2, <1>3, <1>4 DEF LogOf, Remembered
<1>7. Ended(p)' /\ Untold(p)'
  BY <1>1 DEF LogOf, Ended, Untold
<1>8. Read(p)'
  BY <1>1, <1>2 DEF LogOf, Read
<1> QED
  BY <1>5, <1>6, <1>7, <1>8 DEF LogOf

\* Whom a look reads the log of.
LEMMA WhoIsRead ==
    ASSUME TypeOK, PlaceInv, look.at \in Steps
    PROVE  /\ look # Idle /\ look \in Looks /\ look.of \in Obs /\ look.rec \in Record /\ up
           /\ look.of \in kept /\ watch[look.of] \in Watch /\ watch[look.of] # None
           /\ watch[look.of].ready /\ disk[look.of] # None /\ starting # look.of
           /\ \A p \in Obs : Reading(p) <=> p = look.of
<1>1. look # Idle /\ look \in Looks /\ look.of \in Obs /\ look.rec \in Record
  BY LookStands DEF TypeOK, Steps, Looks
<1>2. /\ look.of \in kept /\ up /\ watch[look.of] # None /\ watch[look.of].ready /\ disk[look.of] # None
  BY <1>1 DEF PlaceInv, Looked
<1>3. watch[look.of] \in Watch
  BY <1>1, <1>2 DEF TypeOK
<1>4. starting # look.of
  BY <1>1, <1>2 DEF PlaceInv, Each, Started
<1> QED
  BY <1>1, <1>2, <1>3, <1>4 DEF Reading, Looking

\* A record is written as it is in memory: what waits counts as paused.
LEMMA NotingKeeps ==
    ASSUME TypeOK, PlaceInv, LogInv, NEW o \in Obs, Notes(o)
    PROVE  LogInv'
<1>1. /\ up /\ look = Idle /\ watch[o] # None /\ watch[o] \in Watch /\ watch[o].ready /\ disk[o] # None
      /\ UNCHANGED <<unit, printed, up, kept, starting, told, dropped, missed, slipped, excused>>
      /\ early \subseteq early' /\ starting # o /\ \A p \in Obs : ~Reading(p)
  <2>1. /\ CanLook(o) /\ early \subseteq early'
        /\ UNCHANGED <<unit, printed, up, kept, starting, told, dropped, missed, slipped, excused>>
    BY NotingLooks DEF outside, calls
  <2> QED
    BY <2>1 DEF CanLook, TypeOK, PlaceInv, Each, Followed, Started, Reading, Looking
<1>2. PICK away \in BOOLEAN, gone \in Nat, ended \in BOOLEAN :
          /\ Noted(o, away, gone, ended)
          /\ ended => watch[o].ended \/ unit[o] # "runs" \/ o \in early'
  BY NotingLooks
<1>3. /\ watch'[o] \in Watch /\ watch'[o].batch = watch[o].batch /\ watch'[o].ended = ended
      /\ watch'[o].rec.at = watch[o].rec.at /\ watch'[o].rec.ended = watch[o].rec.ended
      /\ \/ disk' = disk /\ paused' = paused
         \/ disk'[o] = watch'[o].rec /\ paused'[o] = paused[o] \cup watch[o].batch
      /\ \A p \in Obs \ {o} : watch'[p] = watch[p] /\ disk'[p] = disk[p] /\ paused'[p] = paused[p]
  BY <1>1, <1>2, NotedDoes
<1>4. \/ look' = Idle
      \/ /\ look' \in Looks /\ look'.at = "reading" /\ look'.of = o /\ look'.rec = watch'[o].rec
         /\ ~look'.final /\ ~watch[o].rec.ended
  BY NotingLooks
<1>5. ended => unit[o] # "runs" \/ o \in early'
  <2>1. watch[o].ended => unit[o] # "runs" \/ o \in early
    BY <1>1 DEF LogInv, LogOf, Remembered
  <2> QED
    BY <1>1, <1>2, <2>1
<1>6. ASSUME NEW p \in Obs, p # o PROVE LogOf(p)'
  <2>1. ~Reading(p)'
    BY <1>4, <1>6 DEF Reading, Looking
  <2>2. ~Reading(p)
    BY <1>1
  <2>3. watch'[p] = watch[p] /\ disk'[p] = disk[p] /\ paused'[p] = paused[p]
    BY <1>3, <1>6
  <2>4. /\ told'[p] = told[p] /\ dropped'[p] = dropped[p] /\ missed'[p] = missed[p]
        /\ slipped'[p] = slipped[p] /\ (p \in early => p \in early')
        /\ excused'[p] = excused[p] /\ printed'[p] = printed[p] /\ unit'[p] = unit[p]
        /\ starting' = starting /\ up' = up
    BY <1>1
  <2>5. Leaves(p)
    BY <2>1, <2>2, <2>3, <2>4 DEF Leaves, Fresh
  <2> QED
    BY <2>5, LeavesKeeps DEF LogInv
<1>7. LogOf(o)'
  <2>1. LogOf(o) /\ Current(o) = watch[o].rec
    BY <1>1 DEF LogInv, Current
  <2>2. Current(o)' = watch'[o].rec
    BY <1>4 DEF Current, Reading, Looking
  <2>3. /\ Accounted(o) \subseteq Accounted(o)'
        /\ disk' = disk \/ (disk'[o] = watch'[o].rec /\ Accounted(o)' = Accounted(o) \cup watch[o].batch)
    BY <1>1, <1>3 DEF Accounted
  <2>4. \A at : Behind(o, at)' = Behind(o, at) /\ UpTo(o, at)' = UpTo(o, at)
    BY <1>1 DEF Behind, UpTo
  <2>5. Ahead(o, Current(o))' = Ahead(o, Current(o))
    BY <1>1, <1>3, <2>1, <2>2 DEF Ahead
  <2>6. Written(o)'
    BY <1>1, <1>3, <2>1, <2>3, <2>4 DEF LogOf, Written, Remembered
  <2>7. Remembered(o)'
    <3>1. Remembered(o)
      BY <2>1 DEF LogOf
    <3>2. /\ Behind(o, watch[o].rec.at)
          /\ UpTo(o, watch[o].rec.at) \subseteq Accounted(o) \cup watch[o].batch
          /\ \A i \in watch[o].batch : 1 <= i /\ i <= Position(watch[o].rec.at)
          /\ watch[o].batch \cap told[o] \subseteq excused[o]
          /\ Ahead(o, Current(o)) \subseteq excused[o]
      BY <1>1, <2>1, <3>1 DEF Remembered
    <3> QED
      BY <1>1, <1>3, <1>5, <2>1, <2>2, <2>3, <2>4, <2>5, <3>2 DEF Remembered
  <2>8. Ended(o)' /\ Untold(o)'
    <3>1. Fresh(o)' => Fresh(o)
      BY <1>1, <1>3, NoneAssumption DEF Fresh, Watch
    <3> QED
      BY <1>1, <2>1, <2>3, <3>1 DEF LogOf, Ended, Untold
  <2>9. Read(o)'
    BY <1>1, <1>3, <1>4, <2>1, <2>3, <2>4 DEF Read, Reading, Looking, LogOf, Remembered
  <2> QED
    BY <2>6, <2>7, <2>8, <2>9 DEF LogOf
<1> QED
  BY <1>6, <1>7 DEF LogInv

\* The lines read join the batch; those told already are excused, for they lie
\* past the record the look began with.
LEMMA ReadKeeps ==
    ASSUME TypeOK, PlaceInv, LogInv, Reads
    PROVE  LogInv'
<1>1. PICK due \in BOOLEAN : ReadLog(due)
  BY DEF Reads
<1>2. look.at = "reading" /\ look.at \in Steps
  BY <1>1 DEF ReadLog, Steps
<1>3. PICK o \in Obs : o = look.of
  BY <1>2, WhoIsRead
<1> DEFINE at == watch[o].rec.at
           read == ReadOn(o, at)
<1>4. /\ up /\ watch[o] \in Watch /\ watch[o] # None /\ disk[o] # None /\ starting # o
      /\ look.rec \in Record /\ \A p \in Obs : Reading(p) <=> p = o
  BY <1>2, <1>3, WhoIsRead
<1>5. /\ watch'[o].rec = watch[o].rec /\ watch'[o].ended = watch[o].ended
      /\ watch'[o].batch = watch[o].batch \cup (read.lines \cap Worth[o])
      /\ look' \in Looks /\ look'.at \in {"waking", "settling"} /\ look'.of = o
      /\ look'.rec.at = read.next /\ look'.rec.ended = look.rec.ended
      /\ look'.final = Final(watch[o].ended, read.more)
      /\ missed[o] \subseteq missed'[o] /\ slipped[o] \subseteq slipped'[o]
      /\ Passed(o, at) \subseteq missed'[o] \cup slipped'[o]
      /\ \A p \in Obs \ {o} : watch'[p] = watch[p] /\ missed'[p] = missed[p] /\ slipped'[p] = slipped[p]
  BY <1>1, <1>2, <1>3, <1>4, ReadLogDoes
<1>6. UNCHANGED <<unit, printed, disk, up, starting, told, dropped, paused, excused, early>>
  BY <1>1 DEF ReadLog, outside, calls
<1>7. /\ LogOf(o) /\ Current(o) = look.rec /\ look.rec = watch[o].rec /\ ~look.rec.ended
      /\ at \in Cursor /\ printed[o] \in Nat
  BY <1>2, <1>4 DEF LogInv, LogOf, Read, Current, Record, TypeOK
<1>8. /\ Behind(o, at) /\ UpTo(o, at) \subseteq Accounted(o) \cup watch[o].batch
      /\ \A i \in watch[o].batch : 1 <= i /\ i <= Position(at)
      /\ watch[o].batch \cap told[o] \subseteq excused[o]
      /\ Ahead(o, look.rec) \subseteq excused[o]
      /\ watch[o].ended => unit[o] # "runs" \/ o \in early
  BY <1>4, <1>7 DEF LogOf, Remembered
<1>9. /\ read.next \in Cursor /\ Behind(o, read.next) /\ Position(at) <= Position(read.next)
      /\ \A i \in Nat : i <= Position(read.next)
             => i <= Position(at) \/ i \in Passed(o, at) \/ i \in read.lines
      /\ \A i \in read.lines : i \in Nat /\ Position(at) < i /\ i <= Position(read.next)
      /\ ~read.more => Position(read.next) >= printed[o]
  BY <1>7, <1>8, ReadsOn
<1> HIDE DEF at, read
<1>10. Position(at) \in Nat /\ Position(read.next) \in Nat /\ told[o] \subseteq Nat /\ watch[o].batch \subseteq Nat
  BY <1>4, <1>7, <1>9, PositionIsANumber DEF TypeOK, Watch
<1>11. ASSUME NEW p \in Obs, p # o PROVE LogOf(p)'
  <2>1. ~Reading(p)' /\ ~Reading(p)
    BY <1>4, <1>5, <1>11 DEF Reading, Looking
  <2>2. watch'[p] = watch[p] /\ missed'[p] = missed[p] /\ slipped'[p] = slipped[p]
    BY <1>5, <1>11
  <2>3. Leaves(p)
    BY <1>6, <2>1, <2>2 DEF Leaves, Fresh
  <2> QED
    BY <2>3, LeavesKeeps DEF LogInv
<1>12. LogOf(o)'
  <2>1. Reading(o)' /\ Current(o)' = look'.rec
    <3>1. look' # Idle
      BY <1>5 DEF Idle, Looks
    <3> QED
      BY <1>5, <3>1 DEF Reading, Current, Looking, Steps
  <2>2. Accounted(o) \subseteq Accounted(o)' /\ Passed(o, at) \subseteq Accounted(o)'
    BY <1>5, <1>6 DEF Accounted
  <2>3. \A c : Behind(o, c)' = Behind(o, c) /\ UpTo(o, c)' = UpTo(o, c)
    BY <1>6 DEF Behind, UpTo
  <2>4. UpTo(o, read.next) \subseteq Accounted(o)' \cup watch'[o].batch
    <3> SUFFICES ASSUME NEW i \in UpTo(o, read.next)
                 PROVE  i \in Accounted(o)' \cup watch'[o].batch
      OBVIOUS
    <3>1. i \in Nat /\ i \in Worth[o] /\ i <= Position(read.next)
      BY KeeperAssumption DEF UpTo
    <3>2. CASE i <= Position(at)
      BY <1>5, <1>8, <2>2, <3>1, <3>2 DEF UpTo
    <3>3. CASE i \in Passed(o, at)
      BY <2>2, <3>3
    <3>4. CASE i \in read.lines
      BY <1>5, <3>1, <3>4
    <3> QED
      BY <1>9, <3>1, <3>2, <3>3, <3>4
  <2>5. Written(o)'
    BY <1>4, <1>6, <1>7, <2>2, <2>3 DEF LogOf, Written
  <2>6. \A i \in watch'[o].batch : 1 <= i /\ i <= Position(look'.rec.at)
    <3> SUFFICES ASSUME NEW i \in watch'[o].batch
                 PROVE  1 <= i /\ i <= Position(read.next)
      BY <1>5
    <3>1. CASE i \in watch[o].batch
      BY <1>8, <1>9, <1>10, <3>1
    <3>2. CASE i \in read.lines
      BY <1>9, <1>10, <3>2
    <3> QED
      BY <1>5, <3>1, <3>2
  <2>7. watch'[o].batch \cap told[o] \subseteq excused[o]
    <3> SUFFICES ASSUME NEW i \in watch'[o].batch, i \in told[o]
                 PROVE  i \in excused[o]
      OBVIOUS
    <3>1. CASE i \in watch[o].batch
      BY <1>8, <3>1
    <3>2. CASE i \in read.lines
      <4>1. i > Position(look.rec.at) /\ i # TheEnd
        BY <1>7, <1>9, <1>10, <3>2 DEF TheEnd, at
      <4> QED
        BY <1>8, <4>1 DEF Ahead
    <3> QED
      BY <1>5, <3>1, <3>2
  <2>8. Ahead(o, look.rec)' \subseteq excused[o]
    <3> SUFFICES ASSUME NEW i \in Ahead(o, look.rec)'
                 PROVE  i \in Ahead(o, look.rec)
      BY <1>8
    <3>1. i \in told[o] /\ i \in Nat /\ IF i = TheEnd THEN ~look'.rec.ended ELSE i > Position(look'.rec.at)
      BY <1>6, <1>10 DEF Ahead
    <3>2. i # TheEnd => i > Position(at)
      BY <1>5, <1>9, <1>10, <3>1
    <3> QED
      BY <1>5, <1>7, <3>1, <3>2 DEF Ahead, at
  <2>9. Remembered(o)'
    <3>1. /\ Behind(o, watch[o].rec.at) /\ UpTo(o, watch[o].rec.at) \subseteq Accounted(o)' \cup watch'[o].batch
      BY <1>5, <1>8, <2>2 DEF at
    <3> QED
      BY <1>4, <1>5, <1>6, <1>8, <2>1, <2>3, <2>6, <2>7, <2>8, <3>1 DEF Remembered
  <2>10. Ended(o)' /\ Untold(o)'
    BY <1>4, <1>6, <1>7, <2>2 DEF LogOf, Ended, Untold, Fresh
  <2>11. look'.final => watch'[o].ended /\ Position(look'.rec.at) >= printed[o]
    BY <1>5, <1>9 DEF Final
  <2>12. Read(o)'
    BY <1>5, <1>6, <1>7, <1>9, <2>1, <2>3, <2>4, <2>11 DEF Read
  <2> QED
    BY <2>5, <2>9, <2>10, <2>12 DEF LogOf
<1> QED
  BY <1>11, <1>12 DEF LogInv

\* What the letter says is told, or dropped, or waits on with the keeper excused
\* should it say it again.
LEMMA WakeKeeps ==
    ASSUME TypeOK, PlaceInv, LogInv, Wakes
    PROVE  LogInv'
<1>1. look.at = "waking" /\ look.at \in Steps
  BY DEF Wakes, WakeTaken, WakeFailed, Steps
<1>2. PICK o \in Obs : o = look.of
  BY <1>1, WhoIsRead
<1>3. /\ up /\ watch[o] \in Watch /\ watch[o] # None /\ disk[o] # None /\ starting # o
      /\ look.rec \in Record /\ \A p \in Obs : Reading(p) <=> p = o
  BY <1>1, <1>2, WhoIsRead
<1>4. /\ Woken(o) /\ Letter \in SUBSET Nat
      /\ \A p \in Obs \ {o} : told'[p] = told[p] /\ dropped'[p] = dropped[p] /\ excused'[p] = excused[p]
      /\ told'[o] \in {told[o], told[o] \cup Letter}
      /\ excused'[o] \in {excused[o], excused[o] \cup Letter}
      /\ \/ /\ watch'[o].batch = {} /\ look'.rec.ended = (look.rec.ended \/ look.final)
            /\ Letter \subseteq told'[o] \cup dropped'[o]
            /\ dropped[o] \subseteq dropped'[o]
         \/ watch'[o].batch = watch[o].batch /\ look'.rec = look.rec /\ dropped' = dropped
            /\ (told' # told => excused'[o] = excused[o] \cup Letter)
  BY <1>1, <1>2, <1>3, WakesDo
<1>5. /\ watch'[o].rec = watch[o].rec /\ watch'[o].ended = watch[o].ended
      /\ \A p \in Obs \ {o} : watch'[p] = watch[p]
      /\ look' \in Looks /\ look'.at = "settling" /\ look'.of = o
      /\ look'.rec.at = look.rec.at /\ look'.final = look.final
  BY <1>4 DEF Woken
<1>6. UNCHANGED <<unit, printed, disk, up, starting, missed, slipped, paused, early>>
  BY DEF Wakes, WakeTaken, WakeFailed, outside, calls
<1>7. /\ LogOf(o) /\ Current(o) = look.rec /\ ~look.rec.ended
      /\ Position(look.rec.at) \in Nat /\ printed[o] \in Nat
  BY <1>1, <1>3, PositionIsANumber DEF LogInv, LogOf, Read, Current, Record, TypeOK
<1>8. /\ Behind(o, watch[o].rec.at) /\ UpTo(o, watch[o].rec.at) \subseteq Accounted(o) \cup watch[o].batch
      /\ \A i \in watch[o].batch : 1 <= i /\ i <= Position(look.rec.at)
      /\ watch[o].batch \cap told[o] \subseteq excused[o]
      /\ Ahead(o, look.rec) \subseteq excused[o]
      /\ watch[o].ended => (unit[o] # "runs" \/ o \in early) /\ starting # o
  BY <1>3, <1>7 DEF LogOf, Remembered
<1>9. /\ Behind(o, look.rec.at) /\ UpTo(o, look.rec.at) \subseteq Accounted(o) \cup watch[o].batch
      /\ look.final => watch[o].ended /\ (o \in early \/ Position(look.rec.at) >= printed[o])
  BY <1>3, <1>7 DEF LogOf, Read
<1>10. /\ watch[o].batch \subseteq Letter /\ TheEnd \notin watch[o].batch
       /\ TheEnd \in Letter => look.final
       /\ \A i \in Letter : i # TheEnd => i \in watch[o].batch
  BY <1>2, <1>8 DEF Letter, TheEnd
<1>11. ASSUME NEW p \in Obs, p # o PROVE LogOf(p)'
  <2>1. ~Reading(p)' /\ ~Reading(p)
    BY <1>3, <1>5, <1>11 DEF Reading, Looking
  <2>2. /\ watch'[p] = watch[p] /\ told'[p] = told[p] /\ dropped'[p] = dropped[p]
        /\ excused'[p] = excused[p]
    BY <1>4, <1>5, <1>11
  <2>3. Leaves(p)
    BY <1>6, <2>1, <2>2 DEF Leaves, Fresh
  <2> QED
    BY <2>3, LeavesKeeps DEF LogInv
<1>12. LogOf(o)'
  <2>1. Reading(o)' /\ Current(o)' = look'.rec
    <3>1. look' # Idle
      BY <1>5 DEF Idle, Looks
    <3> QED
      BY <1>5, <3>1 DEF Reading, Current, Looking, Steps
  <2>2. Accounted(o) \subseteq Accounted(o)'
    BY <1>4, <1>6 DEF Accounted
  <2>3. watch[o].batch \subseteq Accounted(o)' \cup watch'[o].batch
    BY <1>4, <1>10 DEF Accounted
  <2>4. \A c : Behind(o, c)' = Behind(o, c) /\ UpTo(o, c)' = UpTo(o, c)
    BY <1>6 DEF Behind, UpTo
  <2>5. Written(o)'
    BY <1>3, <1>6, <1>7, <2>2, <2>4 DEF LogOf, Written
  <2>6. watch'[o].batch \subseteq watch[o].batch /\ excused[o] \subseteq excused'[o]
    BY <1>4
  <2>7. watch'[o].batch \cap told'[o] \subseteq excused'[o]
    BY <1>4, <1>8, <2>6
  <2>8. Ahead(o, look.rec)' \subseteq excused'[o]
    <3> SUFFICES ASSUME NEW i \in Ahead(o, look.rec)'
                 PROVE  i \in excused'[o]
      OBVIOUS
    <3>1. i \in told'[o] /\ IF i = TheEnd THEN ~look'.rec.ended ELSE i > Position(look.rec.at)
      BY <1>5 DEF Ahead
    <3>2. CASE i \in told[o]
      BY <1>7, <1>8, <2>6, <3>1, <3>2 DEF Ahead
    <3>3. CASE i \in Letter /\ i \notin told[o]
      <4>1. i = TheEnd
        BY <1>4, <1>7, <1>8, <1>10, <3>1, <3>3
      <4>2. look.final /\ ~look'.rec.ended
        BY <1>10, <3>1, <3>3, <4>1
      <4>3. told' # told
        BY <3>1, <3>3
      <4> QED
        BY <1>4, <3>3, <4>2, <4>3
    <3> QED
      BY <1>4, <3>1, <3>2, <3>3
  <2>9. Remembered(o)'
    <3>1. /\ Behind(o, watch[o].rec.at) /\ UpTo(o, watch[o].rec.at) \subseteq Accounted(o)' \cup watch'[o].batch
          /\ \A i \in watch'[o].batch : 1 <= i /\ i <= Position(look.rec.at)
      BY <1>8, <2>2, <2>3, <2>6
    <3> QED
      BY <1>5, <1>6, <1>8, <2>1, <2>4, <2>7, <2>8, <3>1 DEF Remembered
  <2>10. Ended(o)'
    <3>1. CASE TheEnd \in told[o]
      BY <1>6, <1>7, <2>2, <3>1 DEF LogOf, Ended
    <3>3. CASE o \in early
      BY <1>6, <3>3 DEF Ended
    <3>2. CASE TheEnd \notin told[o] /\ TheEnd \in told'[o] /\ o \notin early
      <4>1. told'[o] = told[o] \cup Letter /\ look.final
        BY <1>4, <1>10, <3>2
      <4>2. watch[o].batch \subseteq Accounted(o)'
        BY <1>10, <4>1 DEF Accounted
      <4>3. unit[o] # "runs" /\ starting # o /\ Position(look.rec.at) >= printed[o]
        BY <1>8, <1>9, <3>2, <4>1
      <4>4. Worth[o] \cap 1 .. printed[o] \subseteq UpTo(o, look.rec.at)
        BY <1>7, <4>3 DEF UpTo
      <4> QED
        BY <1>6, <1>9, <2>2, <4>2, <4>3, <4>4 DEF Ended
    <3> QED
      BY <3>1, <3>2, <3>3 DEF Ended
  <2>11. Untold(o)'
    BY <1>3, <1>6 DEF Untold, Fresh
  <2>12. Read(o)'
    <3>1. UpTo(o, look.rec.at) \subseteq Accounted(o)' \cup watch'[o].batch
      BY <1>9, <2>2, <2>3
    <3> QED
      BY <1>5, <1>6, <1>9, <2>4, <3>1 DEF Read
  <2> QED
    BY <2>5, <2>9, <2>10, <2>11, <2>12 DEF LogOf
<1> QED
  BY <1>11, <1>12 DEF LogInv

\* A record is written to the disk only when nothing waits.
LEMMA SettleKeeps ==
    ASSUME TypeOK, PlaceInv, LogInv, Settle
    PROVE  LogInv'
<1>1. look.at \in Steps
  BY DEF Settle, Steps
<1>2. PICK o \in Obs : o = look.of
  BY <1>1, WhoIsRead
<1>3. /\ up /\ watch[o] \in Watch /\ watch[o] # None /\ disk[o] # None /\ starting # o
      /\ look.rec \in Record /\ \A p \in Obs : Reading(p) <=> p = o
  BY <1>1, <1>2, WhoIsRead
<1>4. /\ look' = Idle
      /\ watch'[o] \in Watch /\ watch'[o].rec = look.rec
      /\ watch'[o].batch = watch[o].batch /\ watch'[o].ended = watch[o].ended
      /\ \/ disk' = disk
         \/ disk'[o] = look.rec /\ watch[o].batch = {}
      /\ \A p \in Obs \ {o} : watch'[p] = watch[p] /\ disk'[p] = disk[p]
  BY <1>2, <1>3, SettleDoes
<1>5. UNCHANGED <<unit, printed, up, starting, told, dropped, missed, slipped, paused, excused, early>>
  BY DEF Settle, outside, calls, account, history
<1>6. \A p \in Obs : ~Reading(p)'
  BY <1>4 DEF Reading, Looking
<1>7. ASSUME NEW p \in Obs, p # o PROVE LogOf(p)'
  <2>1. ~Reading(p)' /\ ~Reading(p)
    BY <1>3, <1>6, <1>7
  <2>2. watch'[p] = watch[p] /\ disk'[p] = disk[p]
    BY <1>4, <1>7
  <2>3. Leaves(p)
    BY <1>5, <2>1, <2>2 DEF Leaves, Fresh
  <2> QED
    BY <2>3, LeavesKeeps DEF LogInv
<1>8. LogOf(o)'
  <2>1. LogOf(o) /\ Current(o) = look.rec
    BY <1>3 DEF LogInv, Current
  <2>2. Current(o)' = look.rec
    BY <1>4, <1>6 DEF Current
  <2>3. /\ \A i \in watch[o].batch : 1 <= i /\ i <= Position(look.rec.at)
        /\ watch[o].batch \cap told[o] \subseteq excused[o]
        /\ Ahead(o, look.rec) \subseteq excused[o]
        /\ watch[o].ended => (unit[o] # "runs" \/ o \in early) /\ starting # o
    BY <1>3, <2>1 DEF LogOf, Remembered
  <2>4. /\ Behind(o, look.rec.at) /\ UpTo(o, look.rec.at) \subseteq Accounted(o) \cup watch[o].batch
    BY <1>3, <2>1 DEF LogOf, Read
  <2>5. Accounted(o)' = Accounted(o)
    BY <1>5 DEF Accounted
  <2>6. \A c : Behind(o, c)' = Behind(o, c) /\ UpTo(o, c)' = UpTo(o, c)
    BY <1>5 DEF Behind, UpTo
  <2>7. Ahead(o, Current(o))' = Ahead(o, look.rec)
    BY <1>5, <2>2 DEF Ahead
  <2>8. Written(o)'
    BY <1>3, <1>4, <1>5, <2>1, <2>4, <2>5, <2>6 DEF LogOf, Written
  <2>9. Remembered(o)'
    BY <1>4, <1>5, <2>2, <2>3, <2>4, <2>5, <2>6, <2>7 DEF Remembered
  <2>10. Ended(o)' /\ Untold(o)'
    <3>1. ~Fresh(o)'
      BY <1>3, <1>4, NoneAssumption DEF Fresh
    <3> QED
      BY <1>5, <2>1, <2>5, <3>1 DEF LogOf, Ended, Untold
  <2>11. Read(o)'
    BY <1>6 DEF Read
  <2> QED
    BY <2>8, <2>9, <2>10, <2>11 DEF LogOf
<1> QED
  BY <1>7, <1>8 DEF LogInv

\* The unit that is asked to stop stops, or runs on.
LEMMA StoppingLeaves ==
    ASSUME TypeOK, NEW o \in Obs, UnitStops(o), NEW p \in Obs
    PROVE  /\ unit'[p] = "runs" => unit[p] = "runs"
           /\ unit'[p] = "none" => unit[p] = "none"
BY DEF UnitStops, TypeOK

\* The end of an observer tells and reads nothing.
LEMMA EndKeeps ==
    ASSUME TypeOK, PlaceInv, LogInv,
           \/ \E o \in Obs : LookLeaves(o) \/ Stop(o)
           \/ LookEnds \/ LookRemoves
    PROVE  LogInv'
<1> SUFFICES ASSUME NEW p \in Obs PROVE Leaves(p)
  BY LeavesKeeps DEF LogInv
<1>1. ASSUME NEW o \in Obs, LookLeaves(o) PROVE Leaves(p)
  <2>1. look = Idle /\ look' = [at |-> "ending", of |-> o]
    BY <1>1 DEF LookLeaves, CanLook
  <2>2. ~Reading(p) /\ ~Reading(p)'
    BY <2>1 DEF Reading, Looking, Steps
  <2> QED
    BY <1>1, <2>2 DEF LookLeaves, Leaves, Fresh, outside, calls, account, history
<1>2. CASE LookEnds
  <2>1. look.at = "ending" /\ look # Idle /\ look.of \in Obs /\ look \in [at : {"ending", "removing"}, of : Obs]
    BY <1>2, LookStands DEF LookEnds, TypeOK, Look, Idle
  <2>2. look'.at = "removing"
    BY <1>2, <2>1 DEF LookEnds
  <2>3. ~Reading(p) /\ ~Reading(p)'
    BY <2>1, <2>2 DEF Reading, Steps
  <2>4. /\ unit'[p] = "runs" => unit[p] = "runs"
        /\ unit'[p] = "none" => unit[p] = "none"
    BY <1>2, <2>1, StoppingLeaves DEF LookEnds
  <2> QED
    BY <1>2, <2>3, <2>4 DEF LookEnds, Leaves, Fresh, following, calls, account
<1>3. CASE LookRemoves
  <2>1. look.at = "removing" /\ look # Idle /\ look.of \in Obs /\ Stopped(look.of) /\ look' = Idle
    BY <1>3, LookStands DEF LookRemoves, TypeOK, PlaceInv, Looked, Idle
  <2>2. ~Reading(p) /\ ~Reading(p)'
    BY <2>1 DEF Reading, Looking, Steps
  <2>3. /\ watch'[p] # None => watch'[p] = watch[p]
        /\ disk'[p] # None => disk'[p] = disk[p]
        /\ p # look.of => disk'[p] = disk[p]
    BY <1>3, <2>1 DEF LookRemoves, TypeOK
  <2>4. UNCHANGED <<unit, printed, up, starting, told, dropped, missed, slipped, paused, excused, early>>
    BY <1>3 DEF LookRemoves, outside, calls, account, history
  <2>5. Fresh(p)' => Fresh(p)
    BY <2>1, <2>3, <2>4 DEF Fresh, Stopped
  <2> QED
    BY <2>2, <2>3, <2>4, <2>5 DEF Leaves
<1>4. ASSUME NEW o \in Obs,
             \/ \E press \in BOOLEAN : StopAsked(o, press)
             \/ StopHolds(o)
             \/ \E taken \in BOOLEAN : StopNotices(o, taken)
      PROVE  Leaves(p)
  <2>1. UNCHANGED <<unit, printed, disk, up, watch, look, starting, told, dropped, missed, slipped,
                    paused, excused, early>>
    BY <1>4 DEF StopAsked, StopHolds, StopNotices, outside, following, account, history
  <2>2. Reading(p)' <=> Reading(p)
    BY <2>1 DEF Reading, Looking
  <2>3. Reading(p) => watch[p] # None
    BY WhoIsRead DEF Reading
  <2> QED
    BY <2>1, <2>2, <2>3 DEF Leaves, Fresh
<1>5. ASSUME NEW o \in Obs, StopEnds(o) PROVE Leaves(p)
  <2>1. UNCHANGED <<printed, disk, up, watch, look, starting, told, dropped, missed, slipped, paused, excused, early>>
    BY <1>5 DEF StopEnds, following, account
  <2>2. Reading(p)' <=> Reading(p)
    BY <2>1 DEF Reading, Looking
  <2>3. Reading(p) => watch[p] # None
    BY WhoIsRead DEF Reading
  <2>4. /\ unit'[p] = "runs" => unit[p] = "runs"
        /\ unit'[p] = "none" => unit[p] = "none"
    BY <1>5, StoppingLeaves DEF StopEnds
  <2> QED
    BY <2>1, <2>2, <2>3, <2>4 DEF Leaves, Fresh
<1>6. ASSUME NEW o \in Obs, StopRemoves(o) PROVE Leaves(p)
  <2>1. UNCHANGED <<unit, printed, up, watch, look, starting, told, dropped, missed, slipped, paused,
                    excused, early>>
    BY <1>6 DEF StopRemoves, outside, following, account, history
  <2>2. Reading(p)' <=> Reading(p)
    BY <2>1 DEF Reading, Looking
  <2>3. Reading(p) => watch[p] # None
    BY WhoIsRead DEF Reading
  <2>4. /\ disk'[p] # None => disk'[p] = disk[p]
        /\ p # o => disk'[p] = disk[p]
    BY <1>6 DEF StopRemoves, TypeOK
  <2>5. Stopped(o)
    BY <1>6 DEF StopRemoves, PlaceInv, Each, Called
  <2>6. Fresh(p)' => Fresh(p)
    BY <2>1, <2>4, <2>5 DEF Fresh, Stopped
  <2> QED
    BY <2>1, <2>2, <2>3, <2>4, <2>6 DEF Leaves
<1> QED
  BY <1>1, <1>2, <1>3, <1>4, <1>5, <1>6 DEF Stop, StopGoesOn

\* An observer begins with nothing told and nothing read.
LEMMA StartKeeps ==
    ASSUME TypeOK, PlaceInv, LogInv, NEW o \in Obs, StartWrites(o)
    PROVE  LogInv'
<1> DEFINE new == [Taken(NewRecord) EXCEPT !.ready = FALSE]
<1>1. new \in Watch /\ new.rec = NewRecord /\ new.batch = {} /\ ~new.ended
  BY NewIsARecord, TakenIsAWatch
<1>2. /\ watch' = [watch EXCEPT ![o] = new] /\ disk' = [disk EXCEPT ![o] = NewRecord]
      /\ up /\ starting = None /\ starting' = o
      /\ watch[o] = None /\ disk[o] = None /\ unit[o] = "none"
      /\ UNCHANGED <<unit, printed, up, look, told, dropped, missed, slipped, paused, excused, early>>
  BY DEF StartWrites, outside, account, history
<1> HIDE DEF new
<1>3. /\ watch'[o] = new /\ disk'[o] = NewRecord
      /\ \A p \in Obs \ {o} : watch'[p] = watch[p] /\ disk'[p] = disk[p]
  BY <1>2 DEF TypeOK
<1>4. \A p \in Obs : (Reading(p)' <=> Reading(p)) /\ (Reading(p) => watch[p] # None)
  BY <1>2, WhoIsRead DEF Reading, Looking
<1>5. ASSUME NEW p \in Obs, p # o PROVE LogOf(p)'
  <2>1. watch'[p] = watch[p] /\ disk'[p] = disk[p]
    BY <1>3, <1>5
  <2>2. starting' # p
    BY <1>2, <1>5
  <2>3. Leaves(p)
    BY <1>2, <1>4, <2>1, <2>2 DEF Leaves, Fresh
  <2> QED
    BY <2>3, LeavesKeeps DEF LogInv
<1>6. LogOf(o)'
  <2>1. told[o] = {}
    BY <1>2 DEF LogInv, LogOf, Untold, Fresh
  <2>2. ~Reading(o)'
    BY <1>2, <1>4
  <2>3. Current(o)' = NewRecord
    BY <1>1, <1>3, <2>2 DEF Current
  <2>4. Behind(o, NewRecord.at)' /\ UpTo(o, NewRecord.at)' = {}
    <3>1. Position(NewRecord.at) = 0
      BY NewIsARecord DEF Position
    <3>2. \A i \in Worth[o] : i \in Nat /\ i >= 1
      BY KeeperAssumption
    <3> QED
      BY <3>1, <3>2, NewIsARecord DEF Behind, UpTo
  <2>5. Ahead(o, Current(o))' = {}
    BY <1>2, <2>1 DEF Ahead
  <2>6. Written(o)'
    BY <1>2, <1>3, <2>4 DEF Written
  <2>7. Remembered(o)'
    BY <1>1, <1>3, <2>1, <2>4, <2>5 DEF Remembered
  <2>8. Ended(o)' /\ Untold(o)'
    BY <1>2, <2>1 DEF Ended, Untold
  <2>9. Read(o)'
    BY <2>2 DEF Read
  <2> QED
    BY <2>6, <2>7, <2>8, <2>9 DEF LogOf
<1> QED
  BY <1>5, <1>6 DEF LogInv

\* The unit of the observer that is started runs, or the start is undone.
LEMMA StartsKeep ==
    ASSUME TypeOK, PlaceInv, LogInv, Starts
    PROVE  LogInv'
<1> SUFFICES ASSUME NEW p \in Obs PROVE Leaves(p)
  BY LeavesKeeps DEF LogInv
<1>1. starting # None /\ starting \in Obs /\ ~watch[starting].ready
  BY DEF Starts, UnitStarts, UnitFails, TypeOK, PlaceInv, Each, Started
<1>2. UNCHANGED <<printed, up, look, told, dropped, missed, slipped, paused, excused, early>> /\ starting' = None
  BY DEF Starts, UnitStarts, UnitFails, account, history
<1>3. (Reading(p)' <=> Reading(p)) /\ (Reading(p) => watch[p] # None /\ p # starting)
  BY <1>1, <1>2, WhoIsRead DEF Reading, Looking
<1>4. /\ p # starting => unit'[p] = unit[p] /\ watch'[p] = watch[p] /\ disk'[p] = disk[p]
      /\ unit'[starting] # "none"
  BY <1>1 DEF Starts, UnitStarts, UnitFails, TypeOK
<1>5. CASE p # starting
  BY <1>2, <1>3, <1>4, <1>5, NoneAssumption DEF Leaves, Fresh
<1>6. CASE p = starting
  <2>1. CASE UnitStarts
    <3> DEFINE w == watch[starting]
               new == [w EXCEPT !.ready = TRUE]
    <3>1. w # None /\ w \in Watch
      BY <1>1 DEF PlaceInv, Each, Started, TypeOK
    <3>2. new \in Watch /\ new.rec = w.rec /\ new.batch = w.batch /\ new.ended = w.ended
      BY <3>1 DEF Watch
    <3>3. watch' = [watch EXCEPT ![starting] = new] /\ disk' = disk
      BY <2>1 DEF UnitStarts
    <3>4. watch'[starting] = new
      BY <1>1, <3>3 DEF TypeOK
    <3> HIDE DEF w, new
    <3>5. /\ watch[p] # None /\ watch'[p].rec = watch[p].rec
          /\ watch'[p].batch = watch[p].batch /\ watch'[p].ended = watch[p].ended
      BY <1>6, <3>1, <3>2, <3>4 DEF w
    <3>6. ~Fresh(p)' /\ disk'[p] = disk[p]
      BY <1>4, <1>6, <3>3 DEF Fresh
    <3> QED
      BY <1>2, <1>3, <1>6, <3>5, <3>6 DEF Leaves
  <2>2. ASSUME NEW runs \in BOOLEAN, UnitFails(runs) PROVE Leaves(p)
    <3>1. watch'[p] = None /\ disk'[p] = None
      BY <1>1, <1>6, <2>2 DEF UnitFails, TypeOK
    <3>2. ~Fresh(p)'
      BY <1>4, <1>6 DEF Fresh
    <3> QED
      BY <1>2, <1>3, <1>6, <3>1, <3>2 DEF Leaves
  <2> QED
    BY <2>1, <2>2 DEF Starts
<1> QED
  BY <1>5, <1>6

\* What was told and is not written yet is excused when the executor falls.
LEMMA FallKeeps ==
    ASSUME TypeOK, PlaceInv, LogInv, Fall
    PROVE  LogInv'
<1> SUFFICES ASSUME NEW o \in Obs PROVE LogOf(o)'
  BY DEF LogInv
<1>1. /\ ~up' /\ watch' = [p \in Obs |-> None] /\ look' = Idle /\ starting' = None
      /\ excused' = [p \in Obs |-> excused[p] \cup Unwritten(p)]
      /\ UNCHANGED <<printed, disk, told, dropped, missed, slipped, paused, early>>
  BY DEF Fall
<1>2. unit' = unit \/ (starting # None /\ unit' = [unit EXCEPT ![starting] = "runs"])
  BY DEF Fall
<1>3. watch'[o] = None /\ excused'[o] = excused[o] \cup Unwritten(o) /\ ~Reading(o)'
  BY <1>1 DEF Reading, Looking
<1>4. unit'[o] = "runs" => unit[o] = "runs" \/ starting = o
  BY <1>2 DEF TypeOK
<1>5. unit'[o] = "none" => unit[o] = "none"
  BY <1>2 DEF TypeOK
<1>6. LogOf(o) /\ Accounted(o)' = Accounted(o)
  BY <1>1 DEF LogInv, Accounted
<1>7. \A c : Behind(o, c)' = Behind(o, c) /\ UpTo(o, c)' = UpTo(o, c)
  BY <1>1 DEF Behind, UpTo
<1>8. disk[o] # None => Ahead(o, disk[o])' \subseteq excused'[o]
  BY <1>1, <1>3 DEF Ahead, Unwritten
<1>9. Written(o)'
  BY <1>1, <1>6, <1>7, <1>8 DEF LogOf, Written
<1>10. Remembered(o)' /\ Read(o)'
  BY <1>3 DEF Remembered, Read
<1>11. Ended(o)'
  BY <1>1, <1>4, <1>6, NoneAssumption DEF LogOf, Ended
<1>12. Untold(o)'
  BY <1>1, <1>5, <1>6 DEF LogOf, Untold, Fresh
<1> QED
  BY <1>9, <1>10, <1>11, <1>12 DEF LogOf

\* The next executor takes an observer back at its record.
LEMMA LoadKeeps ==
    ASSUME TypeOK, PlaceInv, LogInv, Load
    PROVE  LogInv'
<1> SUFFICES ASSUME NEW o \in Obs PROVE LogOf(o)'
  BY DEF LogInv
<1>1. /\ ~up /\ up' /\ watch' = [p \in Obs |-> Back(p)]
      /\ UNCHANGED <<printed, disk, look, starting, told, dropped, missed, slipped, paused, excused, early>>
  BY DEF Load, calls, account
<1>2. /\ unit'[o] = "runs" => unit[o] = "runs"
      /\ unit'[o] = "none" => unit[o] = "none"
  BY DEF Load, TypeOK
<1>3. ~Reading(o)'
  BY <1>1 DEF Reading, Looking, PlaceInv, Looked
<1>4. watch'[o] # None =>
        /\ disk[o] # None /\ watch'[o].rec = disk[o] /\ watch'[o].batch = {} /\ ~watch'[o].ended
  <2>1. watch'[o] = IF disk[o] = None THEN None ELSE Taken(disk[o])
    BY <1>1 DEF Back
  <2>2. disk[o] # None => disk[o] \in Record
    BY DEF TypeOK
  <2> QED
    BY <2>1, <2>2, TakenIsAWatch
<1>5. Current(o)' = watch'[o].rec
  BY <1>3 DEF Current
<1>6. LogOf(o) /\ Accounted(o)' = Accounted(o)
  BY <1>1 DEF LogInv, Accounted
<1>7. \A c : Behind(o, c)' = Behind(o, c) /\ UpTo(o, c)' = UpTo(o, c)
  BY <1>1 DEF Behind, UpTo
<1>8. watch'[o] # None => Ahead(o, Current(o))' = Ahead(o, disk[o])
  BY <1>1, <1>4, <1>5 DEF Ahead
<1>9. Written(o)'
  BY <1>1, <1>6, <1>7 DEF LogOf, Written
<1>10. Remembered(o)'
  BY <1>1, <1>4, <1>6, <1>7, <1>8 DEF LogOf, Written, Remembered
<1>11. Ended(o)' /\ Untold(o)'
  BY <1>1, <1>2, <1>6 DEF LogOf, Ended, Untold, Fresh
<1>12. Read(o)'
  BY <1>3 DEF Read
<1> QED
  BY <1>9, <1>10, <1>11, <1>12 DEF LogOf

\* A command that prints runs: its end was neither read nor told.
LEMMA PrintKeeps ==
    ASSUME TypeOK, PlaceInv, LogInv, NEW o \in Obs, Prints(o)
    PROVE  LogInv'
<1>1. /\ unit[o] = "runs" /\ disk[o] # None /\ printed' = [printed EXCEPT ![o] = @ + 1]
      /\ UNCHANGED <<unit, disk, up, watch, look, starting, told, dropped, missed, slipped, paused, excused, early>>
  BY DEF Prints, following, calls, account, history
<1>2. /\ printed[o] \in Nat /\ printed'[o] = printed[o] + 1
      /\ \A p \in Obs \ {o} : printed'[p] = printed[p]
  BY <1>1 DEF TypeOK
<1>3. \A p \in Obs : (Reading(p)' <=> Reading(p)) /\ (Reading(p) => watch[p] # None)
  BY <1>1, WhoIsRead DEF Reading, Looking
<1>4. ASSUME NEW p \in Obs, p # o PROVE LogOf(p)'
  <2>1. printed'[p] = printed[p]
    BY <1>2, <1>4
  <2>2. Leaves(p)
    BY <1>1, <1>3, <2>1 DEF Leaves, Fresh
  <2> QED
    BY <2>2, LeavesKeeps DEF LogInv
<1>5. LogOf(o)'
  <2>1. LogOf(o) /\ Accounted(o)' = Accounted(o) /\ Current(o)' = Current(o)
    BY <1>1, <1>3 DEF LogInv, Accounted, Current, Reading, Looking
  <2>2. ASSUME NEW c \in Cursor, Behind(o, c) PROVE Behind(o, c)'
    <3>1. Position(c) \in Nat /\ c.inode \in Nat
      BY PositionIsANumber DEF Cursor
    <3>2. Before(c.inode) \in Int
      BY <3>1, Files
    <3>3. CASE c.inode = 0
      BY <2>2, <3>3 DEF Behind
    <3>4. CASE c.inode # 0
      <4>1. c.offset <= FileLines /\ Before(c.inode) < printed[o]
        BY <2>2, <3>4 DEF Behind
      <4>2. Before(c.inode) < printed'[o]
        BY <1>2, <3>1, <3>2, <4>1
      <4> QED
        BY <3>4, <4>1, <4>2 DEF Behind
    <3> QED
      BY <3>3, <3>4
  <2>3. /\ \A c : UpTo(o, c)' = UpTo(o, c)
        /\ \A rec : Ahead(o, rec)' = Ahead(o, rec)
    BY <1>1 DEF UpTo, Ahead
  <2>4. Written(o)'
    <3>1. disk[o].at \in Cursor
      BY <1>1 DEF TypeOK, Record
    <3> QED
      BY <1>1, <2>1, <2>2, <2>3, <3>1 DEF LogOf, Written
  <2>5. Remembered(o)'
    <3>1. CASE watch[o] = None
      BY <1>1, <3>1 DEF Remembered
    <3>2. CASE watch[o] # None
      <4>1. watch[o].rec.at \in Cursor
        BY <3>2 DEF TypeOK, Watch, Record
      <4> QED
        BY <1>1, <2>1, <2>2, <2>3, <3>2, <4>1 DEF LogOf, Remembered
    <3> QED
      BY <3>1, <3>2
  <2>6. Ended(o)' /\ Untold(o)'
    BY <1>1, <2>1 DEF LogOf, Ended, Untold, Fresh
  <2>7. Read(o)'
    <3>1. CASE ~Reading(o)
      BY <1>3, <3>1 DEF Read
    <3>2. CASE Reading(o)
      <4>1. look.rec.at \in Cursor /\ watch[o] # None
        BY <1>3, <3>2, WhoIsRead DEF Reading, Record
      <4>2. ~watch[o].ended \/ o \in early
        BY <1>1, <2>1, <4>1 DEF LogOf, Remembered
      <4> QED
        BY <1>1, <2>1, <2>2, <2>3, <3>2, <4>1, <4>2 DEF LogOf, Read
    <3> QED
      BY <3>1, <3>2
  <2> QED
    BY <2>4, <2>5, <2>6, <2>7 DEF LogOf
<1> QED
  BY <1>4, <1>5 DEF LogInv

\* The commands and the session tell and read nothing.
LEMMA EnvironmentKeeps ==
    ASSUME TypeOK, PlaceInv, LogInv, Environment
    PROVE  LogInv'
<1>1. CASE \E o \in Obs : Prints(o)
  BY <1>1, PrintKeeps
<1>2. CASE \/ \E o \in Obs : Begins(o) \/ CommandEnds(o)
           \/ OwnerGoes \/ OwnerIsBack \/ \E as \in Absences : OwnerIsAway(as)
  <2> SUFFICES ASSUME NEW p \in Obs PROVE Leaves(p)
    BY LeavesKeeps DEF LogInv
  <2>1. UNCHANGED <<printed, disk, up, watch, look, starting, told, dropped, missed, slipped, paused, excused, early>>
    BY <1>2 DEF Begins, CommandEnds, OwnerGoes, OwnerIsAway, OwnerIsBack, following, calls, account, history
  <2>2. /\ unit'[p] = "runs" => unit[p] = "runs"
        /\ unit'[p] = "none" => unit[p] = "none"
    BY <1>2 DEF Begins, CommandEnds, OwnerGoes, OwnerIsAway, OwnerIsBack, TypeOK
  <2>3. (Reading(p)' <=> Reading(p)) /\ (Reading(p) => watch[p] # None)
    BY <2>1, WhoIsRead DEF Reading, Looking
  <2> QED
    BY <2>1, <2>2, <2>3 DEF Leaves, Fresh
<1> QED
  BY <1>1, <1>2 DEF Environment

LEMMA StepLog ==
    ASSUME TypeOK, PlaceInv, LogInv, [Next]_vars
    PROVE  LogInv'
<1>1. CASE UNCHANGED vars
  <2> SUFFICES ASSUME NEW p \in Obs PROVE Leaves(p)
    BY LeavesKeeps DEF LogInv
  <2>1. UNCHANGED <<unit, printed, disk, up, watch, look, starting, told, dropped, missed, slipped, paused, excused, early>>
    BY <1>1 DEF vars, outside, following, calls, account, history
  <2>2. (Reading(p)' <=> Reading(p)) /\ (Reading(p) => watch[p] # None)
    BY <2>1, WhoIsRead DEF Reading, Looking
  <2> QED
    BY <2>1, <2>2 DEF Leaves, Fresh
<1>2. CASE \E o \in Obs : Notes(o)
  BY <1>2, NotingKeeps
<1>3. CASE (\E o \in Obs : LookLeaves(o) \/ Stop(o)) \/ LookEnds \/ LookRemoves
  BY <1>3, EndKeeps
<1>4. CASE \E o \in Obs : StartWrites(o)
  BY <1>4, StartKeeps
<1> QED
  BY <1>1, <1>2, <1>3, <1>4, ReadKeeps, WakeKeeps, SettleKeeps, StartsKeep, FallKeeps, LoadKeeps,
     EnvironmentKeeps DEF Next, LookAt, Notes, LookGoesOn

----------------------------------------------------------------------------
(* Theorems *)

\* What the keeper has as read, on the disk and in memory, was told, dropped, gone,
\* passed over or paused, or waits for a wake; what was told past a record is
\* excused.
THEOREM KeeperLog == Spec => []LogInv
<1>1. Init => LogInv
  BY InitLog
<1>2. TypeOK /\ PlaceInv /\ LogInv /\ [Next]_vars => LogInv'
  BY StepLog
<1> QED
  BY <1>1, <1>2, KeeperTypes, KeeperPlaces, PTL DEF Spec

\* A record on the disk says more than was told only of lines that waited when the
\* absence of the session was written down, and of those of a file of the log taken
\* for one that is gone (lookAt, readOn, settle, load): however the file system
\* numbers the files, and whatever else falls between two steps.
THEOREM LinesAreNotLost == Spec => []OnlyAPauseLoses
<1>1. LogInv => OnlyAPauseLoses
  BY DEF LogInv, LogOf, Written, OnlyAPauseLoses, ReadUntold, UpTo, Accounted
<1> QED
  BY <1>1, KeeperLog, PTL

\* A letter repeats only what the keeper could not know was told (wake).
THEOREM LettersAreNew == Spec => []NothingToldTwice
<1>1. TypeOK /\ PlaceInv /\ LogInv => NothingToldTwice
  <2> SUFFICES ASSUME TypeOK, PlaceInv, LogInv, look.at = "waking",
                      NEW i \in Letter, i \in told[look.of]
               PROVE  i \in excused[look.of]
    BY DEF NothingToldTwice
  <2>1. PICK o \in Obs : o = look.of
    BY WhoIsRead DEF Steps
  <2>2. /\ watch[o] # None /\ Reading(o) /\ LogOf(o)
    BY <2>1, WhoIsRead DEF Steps, LogInv
  <2>3. /\ watch[o].batch \cap told[o] \subseteq excused[o]
        /\ Ahead(o, look.rec) \subseteq excused[o] /\ ~look.rec.ended
    BY <2>2 DEF LogOf, Remembered, Current, Read
  <2>4. i \in watch[o].batch \/ i = TheEnd
    BY <2>1 DEF Letter
  <2> QED
    BY <2>1, <2>3, <2>4 DEF Ahead
<1> QED
  BY <1>1, KeeperTypes, KeeperPlaces, KeeperLog, PTL

\* When the session has heard that a command ended, it has heard every line that
\* woke it, but for those dropped, gone from the log, passed over or lost to a pause,
\* unless the unit was so late that the command was taken for ended first.
THEOREM TheEndIsLast == Spec => []EndComesLast
<1>1. LogInv => EndComesLast
  BY DEF LogInv, LogOf, Ended, EndComesLast, Accounted
<1> QED
  BY <1>1, KeeperLog, PTL
=============================================================================
