------------------------- MODULE HolderInputProofs --------------------------
(***************************************************************************)
(* What TLAPS proves of HolderInput step by step, for any messages,        *)
(* commands and letters: the types, and that the state file says what the  *)
(* holder knows once no message is half sent and no goroutine has a save   *)
(* before it.  The lemmas on the types of what claude reads and writes     *)
(* serve HolderQueueProofs too.                                            *)
(*                                                                         *)
(* TypeOK bounds what the pipes hold; Types says of each line and of each  *)
(* event whose it is, which is what the handlers rely on: an echo is of a  *)
(* message, an output of a command, an answer of a message taken back.     *)
(***************************************************************************)
EXTENDS HolderInput, SequenceLemmas, FiniteSetTheorems

-----------------------------------------------------------------------------
(* Types.                                                                  *)

\* What stands on claude's input, and what claude writes.
Lines == [kind : {"message"}, id : Inputs]
         \union [kind : {"command"}, id : Cmds]
         \union [kind : {"cancel"}, id : Msgs]
Events == [type : {"started"}, id : Inputs \union Cmds]
          \union [type : {"completed"}, id : Inputs \union Cmds \union {Self}]
          \union [type : {"echo"}, id : Inputs]
          \union [type : {"printed", "not run"}, id : Cmds]
          \union [type : {"init"}, id : {Self}]
          \union [type : {"result"}, id : Inputs \union {Self}]
          \union [type : {"cancelled", "not cancelled"}, id : Msgs]

HolderTypes == /\ queue \in Seq(Says)
               /\ {busy, said, jammed, closed} \subseteq BOOLEAN
               /\ shells \in Seq(Cmds)
               /\ accepted \in Seq(Cmds)
               /\ printed \in Cmds \union {None}
               /\ pc \in [Inputs \union Cmds -> Steps]
               /\ output \in [Cmds -> Cmds \union {None}]
               /\ cancel \in [Msgs -> {"none", "asked", "taken", "given up", "done"}]
               /\ withdrawn \subseteq Msgs

ClaudeTypes == /\ {alive, newer} \subseteq BOOLEAN
               /\ pipe \in Seq(Lines)
               /\ inbox \in Seq(Inputs)
               /\ turn \in Seq(Inputs \union {Self})
               /\ running \in Seq(Cmds)
               /\ Len(running) <= 1
               /\ out \in Seq(Events)
               /\ Len(out) <= MaxOut

FileTypes == owing \subseteq Savers /\ \A w \in saving : w.by \in Savers

Types == HolderTypes /\ ClaudeTypes /\ FileTypes

LEMMA ItsType == Types => TypeOK
<1> SUFFICES ASSUME Types PROVE TypeOK
  OBVIOUS
<1>1. ToSet(inbox) \subseteq Inputs
  BY Positions DEF Types, ClaudeTypes
<1>2. ToSet(turn) \subseteq Inputs \union {Self}
  BY Positions DEF Types, ClaudeTypes
<1> QED BY <1>1, <1>2 DEF Types, HolderTypes, ClaudeTypes, FileTypes, TypeOK

LEMMA LineIn ==
    /\ \A s \in Inputs : Line("message", s) \in Lines
    /\ \A c \in Cmds : Line("command", c) \in Lines
    /\ \A m \in Msgs : Line("cancel", m) \in Lines
BY DEF Lines, Line

LEMMA LineOut ==
    ASSUME NEW e \in Lines
    PROVE  /\ e.kind = "message" => e.id \in Inputs /\ e = Line("message", e.id)
           /\ e.kind = "command" => e.id \in Cmds /\ e = Line("command", e.id)
           /\ e.kind = "cancel" => e.id \in Msgs /\ e = Line("cancel", e.id)
BY DEF Lines, Line

LEMMA LinesDiffer ==
    /\ \A a, b, k, l : Line(k, a) = Line(l, b) <=> k = l /\ a = b
BY DEF Line

LEMMA EventIn ==
    /\ \A s \in Inputs \union Cmds : Event("started", s) \in Events
    /\ \A s \in Inputs \union Cmds \union {Self} : Event("completed", s) \in Events
    /\ \A s \in Inputs : Event("echo", s) \in Events
    /\ \A c \in Cmds : Event("printed", c) \in Events /\ Event("not run", c) \in Events
    /\ Event("init", Self) \in Events
    /\ \A s \in Inputs \union {Self} : Event("result", s) \in Events
    /\ \A m \in Msgs : Event("cancelled", m) \in Events /\ Event("not cancelled", m) \in Events
BY DEF Events, Event

LEMMA EventOut ==
    ASSUME NEW e \in Events
    PROVE  /\ e.type = "started" => e.id \in Inputs \union Cmds
           /\ e.type = "completed" => e.id \in Inputs \union Cmds \union {Self}
           /\ e.type = "echo" => e.id \in Inputs
           /\ e.type \in {"printed", "not run"} => e.id \in Cmds
           /\ e.type = "init" => e.id = Self
           /\ e.type = "result" => e.id \in Inputs \union {Self}
           /\ e.type \in {"cancelled", "not cancelled"} => e.id \in Msgs
           /\ e = Event(e.type, e.id)
BY DEF Events, Event

\* take removes one message of the queue that fits, and only where one does.
LEMMA TakesOne ==
    ASSUME NEW id, NEW texts, queue \in Seq(Says)
    PROVE  \/ /\ Taken(id, texts) = queue
              /\ \A q \in ToSet(queue) : ~ Matches(q, id, texts)
           \/ \E i \in 1 .. Len(queue) :
                  Matches(queue[i], id, texts) /\ Taken(id, texts) = RemoveAt(queue, i)
<1> DEFINE hits == {i \in DOMAIN queue : Matches(queue[i], id, texts)}
<1>1. DOMAIN queue = 1 .. Len(queue) /\ hits \in SUBSET Nat
  BY Positions
<1>2. CASE hits = {}
  <2>1. Taken(id, texts) = queue
    BY <1>2 DEF Taken
  <2>2. \A i \in 1 .. Len(queue) : ~ Matches(queue[i], id, texts)
    BY <1>1, <1>2
  <2> QED BY <2>1, <2>2, Positions
<1>3. CASE hits # {}
  <2>1. Min(hits) \in hits
    <3> HIDE DEF hits
    <3> QED BY <1>1, <1>3, LeastOf
  <2>2. Taken(id, texts) = RemoveAt(queue, Min(hits))
    BY <1>3 DEF Taken, Min
  <2> QED BY <1>1, <2>1, <2>2
<1> QED BY <1>2, <1>3

LEMMA TakenTypes ==
    ASSUME NEW id, NEW texts, queue \in Seq(Says)
    PROVE  Taken(id, texts) \in Seq(Says)
BY TakesOne, WithoutOne

LEMMA TypesInit == Init => Types
<1> SUFFICES ASSUME Init PROVE Types
  OBVIOUS
<1>1. \A S : <<>> \in Seq(S) /\ Len(<<>>) = 0
  BY EmptySeq
<1>2. HolderTypes
  BY <1>1 DEF Init, HolderTypes, Steps
<1>3. ClaudeTypes
  BY <1>1, InputAssumption DEF Init, ClaudeTypes
<1>4. FileTypes
  BY DEF Init, FileTypes
<1> QED BY <1>2, <1>3, <1>4 DEF Types

\* A step that leaves claude alone leaves its types so.
LEMMA ClaudeAsItWas == ClaudeTypes /\ UNCHANGED claude => ClaudeTypes'
BY DEF ClaudeTypes, claude

LEMMA HolderAsItWas == HolderTypes /\ UNCHANGED <<holderState, holderRest>> => HolderTypes'
BY DEF HolderTypes, holderState, holderRest

\* A line written to claude.
LEMMA PipeTypes ==
    ASSUME ClaudeTypes, NEW e \in Lines, pipe' = Append(pipe, e) \/ pipe' = pipe,
           UNCHANGED <<alive, newer, inbox, turn, running, out>>
    PROVE  ClaudeTypes'
<1>1. pipe' \in Seq(Lines)
  <2>1. pipe \in Seq(Lines)
    BY DEF ClaudeTypes
  <2>2. Append(pipe, e) \in Seq(Lines)
    BY <2>1, Appended
  <2> QED BY <2>1, <2>2
<1> QED BY <1>1 DEF ClaudeTypes

\* An event read.
LEMMA ReadTypes ==
    ASSUME ClaudeTypes, NEW type, Reads(type)
    PROVE  /\ ClaudeTypes'
           /\ Head(out) \in Events /\ Head(out).type = type
<1>1. out \in Seq(Events) /\ out # <<>> /\ out' = Tail(out) /\ Len(out) \in Nat /\ MaxOut \in Nat
  BY Positions, InputAssumption DEF ClaudeTypes, Reads
<1>2. Head(out) \in Events /\ out' \in Seq(Events) /\ Len(out') = Len(out) - 1
  BY <1>1, Tailed
<1>3. Len(out') <= MaxOut
  BY <1>1, <1>2 DEF ClaudeTypes
<1> QED BY <1>2, <1>3 DEF ClaudeTypes, Reads

LEMMA SayTypes ==
    ASSUME Types, NEW s \in Says, Saying(s)
    PROVE  HolderTypes' /\ ClaudeTypes'
<1> USE DEF Types
<1>0. s \in Inputs
  BY DEF Inputs
<1>1. CASE List(s)
  <2>1. queue' \in Seq(Says)
    BY <1>1, Appended DEF List, HolderTypes
  <2>2. HolderTypes'
    BY <1>0, <1>1, <2>1 DEF List, HolderTypes, Goes, Steps
  <2> QED BY <1>1, <2>2, ClaudeAsItWas DEF List
<1>2. CASE Write(s)
  <2>1. HolderTypes'
    BY <1>0, <1>2 DEF Write, HolderTypes, Goes, Steps, holderState
  <2>2. ClaudeTypes'
    BY <1>0, <1>2, LineIn, PipeTypes DEF Write
  <2> QED BY <2>1, <2>2
<1>3. CASE Unlist(s)
  <2>0. queue \in Seq(Says) /\ jammed \in BOOLEAN
    BY DEF HolderTypes
  <2>1. queue' \in Seq(Says) /\ jammed' \in BOOLEAN
    <3>1. queue # <<>> => Front(queue) \in Seq(Says)
      BY <2>0, Fronted
    <3> QED BY <1>3, <2>0, <3>1 DEF Unlist
  <2>2. HolderTypes'
    BY <1>0, <1>3, <2>1 DEF Unlist, HolderTypes, Goes, Steps
  <2> QED BY <1>3, <2>2, ClaudeAsItWas DEF Unlist
<1>4. CASE Settle(s)
  <2>1. HolderTypes'
    BY <1>0, <1>4 DEF Settle, HolderTypes, Goes, Steps
  <2> QED BY <1>4, <2>1, ClaudeAsItWas DEF Settle
<1> QED BY <1>1, <1>2, <1>3, <1>4 DEF Saying

LEMMA LetterTypes ==
    ASSUME Types, NEW l \in Letters, WriteLetter(l) \/ Settle(l)
    PROVE  HolderTypes' /\ ClaudeTypes'
<1> USE DEF Types
<1>0. l \in Inputs
  BY DEF Inputs
<1>1. CASE WriteLetter(l)
  <2>1. HolderTypes'
    BY <1>0, <1>1 DEF WriteLetter, HolderTypes, Goes, Steps, holderState
  <2>2. ClaudeTypes'
    BY <1>0, <1>1, LineIn, PipeTypes DEF WriteLetter
  <2> QED BY <2>1, <2>2
<1>2. CASE Settle(l)
  <2>1. HolderTypes'
    BY <1>0, <1>2 DEF Settle, HolderTypes, Goes, Steps
  <2> QED BY <1>2, <2>1, ClaudeAsItWas DEF Settle
<1> QED BY <1>1, <1>2

LEMMA RunTypes ==
    ASSUME Types, NEW c \in Cmds, Running(c)
    PROVE  HolderTypes' /\ ClaudeTypes'
<1> USE DEF Types
<1>1. CASE Run(c)
  <2>1. shells' \in Seq(Cmds)
    BY <1>1, Appended DEF Run, HolderTypes
  <2>2. HolderTypes'
    BY <1>1, <2>1 DEF Run, HolderTypes, Goes, Steps
  <2> QED BY <1>1, <2>2, ClaudeAsItWas DEF Run
<1>2. CASE WriteRun(c)
  <2>1. HolderTypes'
    BY <1>2 DEF WriteRun, HolderTypes, Goes, Steps, holderState
  <2>2. ClaudeTypes'
    BY <1>2, LineIn, PipeTypes DEF WriteRun
  <2> QED BY <2>1, <2>2
<1>3. CASE DropShell(c)
  <2>1. shells' \in Seq(Cmds)
    BY <1>3, RemovedFirst DEF DropShell, HolderTypes
  <2>2. HolderTypes'
    BY <1>3, <2>1 DEF DropShell, HolderTypes, holderRest
  <2> QED BY <1>3, <2>2, ClaudeAsItWas DEF DropShell
<1> QED BY <1>1, <1>2, <1>3 DEF Running

LEMMA CancelTypes ==
    ASSUME Types, NEW m \in Msgs, Cancelling(m)
    PROVE  HolderTypes' /\ ClaudeTypes'
<1> USE DEF Types
<1>1. CASE AskBack(m)
  <2>1. HolderTypes'
    BY <1>1 DEF AskBack, HolderTypes, holderState
  <2>2. ClaudeTypes'
    BY <1>1, LineIn, PipeTypes DEF AskBack
  <2> QED BY <2>1, <2>2
<1>2. CASE GiveUp(m)
  <2>1. HolderTypes'
    BY <1>2 DEF GiveUp, HolderTypes, holderState
  <2> QED BY <1>2, <2>1, ClaudeAsItWas DEF GiveUp
<1>3. CASE Unqueue(m)
  <2>1. queue' \in Seq(Says)
    BY <1>3, RemovedFirst DEF Unqueue, HolderTypes
  <2>2. HolderTypes'
    BY <1>3, <2>1 DEF Unqueue, HolderTypes
  <2> QED BY <1>3, <2>2, ClaudeAsItWas DEF Unqueue
<1> QED BY <1>1, <1>2, <1>3 DEF Cancelling

LEMMA FirstAndLast == \A n \in Nat : n # 0 => 1 \in 1 .. n /\ n \in 1 .. n
OBVIOUS

LEMMA ReaderTypes ==
    ASSUME Types, Reader
    PROVE  HolderTypes' /\ ClaudeTypes'
<1> USE DEF Types
<1>1. CASE OnStarted
  <2>1. ClaudeTypes'
    BY <1>1, ReadTypes DEF OnStarted
  <2>2. queue' \in Seq(Says) /\ busy' \in BOOLEAN
    BY <1>1, TakenTypes DEF OnStarted, HolderTypes
  <2>3. HolderTypes'
    BY <1>1, <2>2 DEF OnStarted, HolderTypes
  <2> QED BY <2>1, <2>3
<1>2. CASE OnShellEnded
  <2>1. ClaudeTypes'
    BY <1>2, ReadTypes DEF OnShellEnded
  <2>2. Head(out).id \in Cmds
    BY <1>2, Positions DEF OnShellEnded, HolderTypes
  <2>3. accepted' \in Seq(Cmds)
    <3>1. accepted \in Seq(Cmds)
      BY DEF HolderTypes
    <3>2. Append(accepted, Head(out).id) \in Seq(Cmds)
      BY <2>2, <3>1, Appended
    <3> QED BY <1>2, <3>1, <3>2 DEF OnShellEnded
  <2>4. output' \in [Cmds -> Cmds \union {None}]
    BY <1>2, <2>2 DEF OnShellEnded, HolderTypes, PassOn
  <2>5. HolderTypes'
    BY <1>2, <2>3, <2>4 DEF OnShellEnded, HolderTypes
  <2> QED BY <2>1, <2>5
<1>3. CASE OnCompleted
  <2>1. ClaudeTypes'
    BY <1>3, ReadTypes DEF OnCompleted
  <2>2. queue' \in Seq(Says)
    BY <1>3, TakenTypes DEF OnCompleted, HolderTypes
  <2>3. HolderTypes'
    BY <1>3, <2>2 DEF OnCompleted, HolderTypes
  <2> QED BY <2>1, <2>3
<1>4. CASE OnEcho
  <2>1. ClaudeTypes'
    BY <1>4, ReadTypes DEF OnEcho
  <2>2. queue' \in Seq(Says)
    BY <1>4, TakenTypes DEF OnEcho, HolderTypes
  <2>3. HolderTypes'
    BY <1>4, <2>2 DEF OnEcho, HolderTypes
  <2> QED BY <2>1, <2>3
<1>5. ASSUME NEW type \in {"printed", "not run"}, OnPrinted(type)
      PROVE  HolderTypes' /\ ClaudeTypes'
  <2>0. Reads(type)
    BY <1>5 DEF OnPrinted
  <2>1. ClaudeTypes' /\ Head(out).id \in Cmds
    BY <2>0, ReadTypes, EventOut
  <2>2. /\ accepted' \in Seq(Cmds) /\ printed' \in Cmds \union {None}
        /\ output' \in [Cmds -> Cmds \union {None}]
    <3>1. CASE accepted = <<>>
      BY <1>5, <2>1, <3>1 DEF OnPrinted, HolderTypes
    <3>2. CASE accepted # <<>>
      <4> DEFINE at == IF type = "not run" THEN Len(accepted) ELSE 1
      <4>1. at \in 1 .. Len(accepted) /\ accepted[at] \in Cmds
        <5>1. accepted \in Seq(Cmds)
          BY DEF HolderTypes
        <5>2. Len(accepted) \in Nat /\ Len(accepted) # 0
          BY <3>2, <5>1, EmptySeq
        <5>3. \A i \in 1 .. Len(accepted) : accepted[i] \in Cmds
          BY <5>1, ElementOfSeq
        <5>4. 1 \in 1 .. Len(accepted) /\ Len(accepted) \in 1 .. Len(accepted)
          BY <5>2, FirstAndLast, Zenon
        <5>5. at \in 1 .. Len(accepted)
          BY <5>4
        <5> QED BY <5>3, <5>5
      <4>2. /\ accepted' = RemoveAt(accepted, at) /\ printed' = printed
            /\ output' = [output EXCEPT ![accepted[at]] = Head(out).id]
        BY <1>5, <3>2 DEF OnPrinted, PassOn
      <4> HIDE DEF at
      <4>3. accepted' \in Seq(Cmds)
        BY <4>1, <4>2, WithoutOne DEF HolderTypes
      <4> QED BY <2>1, <4>1, <4>2, <4>3 DEF HolderTypes
    <3> QED BY <3>1, <3>2
  <2>3. HolderTypes'
    BY <1>5, <2>2 DEF OnPrinted, HolderTypes
  <2> QED BY <2>1, <2>3
<1>6. CASE OnInit
  <2>1. ClaudeTypes'
    BY <1>6, ReadTypes DEF OnInit
  <2>2. HolderTypes'
    BY <1>6 DEF OnInit, HolderTypes
  <2> QED BY <2>1, <2>2
<1>7. CASE OnResult
  <2>1. ClaudeTypes'
    BY <1>7, ReadTypes DEF OnResult
  <2>2. HolderTypes'
    BY <1>7 DEF OnResult, HolderTypes
  <2> QED BY <2>1, <2>2
<1>8. ASSUME NEW type \in {"cancelled", "not cancelled"}, OnResponse(type)
      PROVE  HolderTypes' /\ ClaudeTypes'
  <2>1. ClaudeTypes'
    BY <1>8, ReadTypes DEF OnResponse
  <2>2. HolderTypes'
    BY <1>8 DEF OnResponse, HolderTypes, holderState
  <2> QED BY <2>1, <2>2
<1> QED BY <1>1, <1>2, <1>3, <1>4, <1>5, <1>6, <1>7, <1>8 DEF Reader

\* Words of claude: they are written after those that wait, or not at all.
LEMMA TellTypes ==
    ASSUME ClaudeTypes, NEW events \in Seq(Events), Tells(events)
    PROVE  out' \in Seq(Events) /\ Len(out') <= MaxOut
<1>1. out \in Seq(Events)
  BY DEF ClaudeTypes
<1>2. out \o events \in Seq(Events) /\ Len(out \o events) = Len(out) + Len(events)
  BY <1>1, Joined
<1> QED BY <1>2 DEF Tells

\* What claude writes of a turn that ends.
Ended(s) == Event("completed", s)
EndWords ==
    [i \in 1 .. Len(turn) - 1 |-> Ended(turn[i + 1])]
    \o <<Event("result", Head(turn))>>
    \o (IF Head(turn) = Self THEN <<>> ELSE <<Ended(Head(turn))>>)

LEMMA EndWordsAre ==
    ASSUME turn \in Seq(Inputs \union {Self}), turn # <<>>
    PROVE  /\ EndWords \in Seq(Events)
           /\ \A e \in ToSet(EndWords) :
                  \/ e.type = "result"
                  \/ e.type = "completed" /\ e.id \in ToSet(turn)
           /\ Event("result", Head(turn)) \in ToSet(EndWords)
<1> DEFINE a == [i \in 1 .. Len(turn) - 1 |-> Ended(turn[i + 1])]
           b == <<Event("result", Head(turn))>>
           c == IF Head(turn) = Self THEN <<>> ELSE <<Ended(Head(turn))>>
<1>1. /\ Len(turn) \in Nat \ {0} /\ Head(turn) = turn[1]
      /\ \A i \in 1 .. Len(turn) : turn[i] \in Inputs \union {Self} /\ turn[i] \in ToSet(turn)
  BY Tailed, Positions
<1>2. Head(turn) \in ToSet(turn) /\ Head(turn) \in Inputs \union {Self}
  BY <1>1
<1>3. \A i \in 1 .. Len(turn) - 1 : i + 1 \in 1 .. Len(turn)
  BY <1>1
<1>4. \A i \in 1 .. Len(turn) - 1 : Ended(turn[i + 1]) \in Events
  BY <1>1, <1>3, EventIn DEF Ended
<1>5. a \in Seq(Events) /\ \A e \in ToSet(a) : \E s \in ToSet(turn) : e = Ended(s)
  <2>1. Len(turn) - 1 \in Nat
    BY <1>1
  <2>2. a \in Seq(Events)
    BY <1>4, <2>1, IsASeq
  <2>3. \A e \in ToSet(a) : \E i \in 1 .. Len(turn) - 1 : e = Ended(turn[i + 1])
    BY DEF ToSet
  <2> QED BY <1>1, <1>3, <2>2, <2>3
<1>6. Event("result", Head(turn)) \in Events /\ Ended(Head(turn)) \in Events
  BY <1>2, EventIn DEF Ended
<1>7. b \in Seq(Events) /\ ToSet(b) = {Event("result", Head(turn))}
  BY <1>6, Short
<1>8. c \in Seq(Events) /\ ToSet(c) \subseteq {Ended(Head(turn))}
  BY <1>6, Short
<1> HIDE DEF a, b, c
<1>9. a \o b \in Seq(Events) /\ ToSet(a \o b) = ToSet(a) \union ToSet(b)
  BY <1>5, <1>7, Joined
<1> DEFINE d == a \o b
<1>10. d \in Seq(Events) /\ ToSet(d) = ToSet(a) \union ToSet(b)
  BY <1>9
<1>11. EndWords = d \o c
  BY DEF EndWords, a, b, c
<1> HIDE DEF d
<1>13. EndWords \in Seq(Events) /\ ToSet(EndWords) = ToSet(d) \union ToSet(c)
  <2>1. d \o c \in Seq(Events) /\ ToSet(d \o c) = ToSet(d) \union ToSet(c)
    BY <1>8, <1>10, Joined
  <2> QED BY <1>11, <2>1
<1>12. Event("result", Head(turn)).type = "result"
       /\ \A s : Ended(s).type = "completed" /\ Ended(s).id = s
  BY DEF Event, Ended
<1>14. ASSUME NEW e \in ToSet(EndWords)
       PROVE  e.type = "result" \/ (e.type = "completed" /\ e.id \in ToSet(turn))
  <2>1. e \in ToSet(a) \/ e = Event("result", Head(turn)) \/ e = Ended(Head(turn))
    BY <1>7, <1>8, <1>10, <1>13
  <2>2. e \in ToSet(a) => e.type = "completed" /\ e.id \in ToSet(turn)
    BY <1>5, <1>12
  <2> QED BY <1>2, <1>12, <2>1, <2>2
<1>15. Event("result", Head(turn)) \in ToSet(EndWords)
  BY <1>7, <1>10, <1>13
<1> QED BY <1>13, <1>14, <1>15

LEMMA TurnTypes ==
    ASSUME ClaudeTypes, TakeUp \/ BeginOwnTurn \/ EndTurn
    PROVE  ClaudeTypes'
<1>0. /\ inbox \in Seq(Inputs) /\ turn \in Seq(Inputs \union {Self}) /\ out \in Seq(Events)
  BY DEF ClaudeTypes
<1>1. inbox # <<>> => Head(inbox) \in Inputs /\ Tail(inbox) \in Seq(Inputs)
  BY <1>0, Tailed
<1>2. \A s \in Inputs : /\ Event("started", s) \in Events /\ Event("echo", s) \in Events
                        /\ Event("completed", s) \in Events /\ Event("result", s) \in Events
  BY EventIn
<1>3. CASE BeginTurn
  <2>1. turn' \in Seq(Inputs \union {Self})
    BY <1>1, <1>3, Short DEF BeginTurn
  <2>2. <<Event("started", Head(inbox)), Event("echo", Head(inbox))>> \in Seq(Events)
    BY <1>1, <1>2, <1>3, Short DEF BeginTurn
  <2>3. out' \in Seq(Events) /\ Len(out') <= MaxOut
    BY <1>3, <2>2, TellTypes DEF BeginTurn
  <2> QED BY <1>1, <1>3, <2>1, <2>3 DEF BeginTurn, ClaudeTypes
<1>4. CASE RunSlash
  <2>2. <<Event("started", Head(inbox)), Event("completed", Head(inbox)), Event("result", Head(inbox))>>
            \in Seq(Events)
    BY <1>1, <1>2, <1>4, Short DEF RunSlash
  <2>3. out' \in Seq(Events) /\ Len(out') <= MaxOut
    BY <1>4, <2>2, TellTypes DEF RunSlash
  <2> QED BY <1>1, <1>4, <2>3 DEF RunSlash, ClaudeTypes
<1>5. CASE Absorb
  <2>1. turn' \in Seq(Inputs \union {Self})
    BY <1>0, <1>1, <1>5, Appended DEF Absorb
  <2>2. <<Event("echo", Head(inbox)), Event("started", Head(inbox))>> \in Seq(Events)
    BY <1>1, <1>2, <1>5, Short DEF Absorb
  <2>3. out' \in Seq(Events) /\ Len(out') <= MaxOut
    BY <1>5, <2>2, TellTypes DEF Absorb
  <2> QED BY <1>1, <1>5, <2>1, <2>3 DEF Absorb, ClaudeTypes
<1>6. CASE BeginOwnTurn
  <2>1. turn' \in Seq(Inputs \union {Self})
    BY <1>6, Short DEF BeginOwnTurn
  <2>2. <<Event("init", Self)>> \in Seq(Events)
    BY EventIn, Short
  <2>3. out' \in Seq(Events) /\ Len(out') <= MaxOut
    BY <1>6, <2>2, TellTypes DEF BeginOwnTurn
  <2> QED BY <1>6, <2>1, <2>3 DEF BeginOwnTurn, ClaudeTypes
<1>7. CASE EndTurn
  <2>1. Tells(EndWords) /\ turn # <<>>
    BY <1>7 DEF EndTurn, EndWords, Ended
  <2>2. out' \in Seq(Events) /\ Len(out') <= MaxOut
    BY <1>0, <2>1, EndWordsAre, TellTypes
  <2>3. turn' \in Seq(Inputs \union {Self})
    BY <1>7, EmptySeq DEF EndTurn
  <2> QED BY <1>7, <2>2, <2>3 DEF EndTurn, ClaudeTypes
<1> QED BY <1>3, <1>4, <1>5, <1>6, <1>7 DEF TakeUp

LEMMA LineTypes ==
    ASSUME ClaudeTypes, ReadLine \/ CommandEnds \/ Exit
    PROVE  ClaudeTypes'
<1>0. /\ inbox \in Seq(Inputs) /\ pipe \in Seq(Lines) /\ out \in Seq(Events)
      /\ running \in Seq(Cmds)
  BY DEF ClaudeTypes
<1>1. pipe # <<>> => Head(pipe) \in Lines /\ Tail(pipe) \in Seq(Lines)
  BY <1>0, Tailed
<1>2. \A c \in Cmds : /\ Event("started", c) \in Events /\ Event("completed", c) \in Events
                      /\ Event("printed", c) \in Events /\ Event("not run", c) \in Events
  BY EventIn
<1>3. CASE ReadMessage
  <2>1. Head(pipe).id \in Inputs
    BY <1>1, <1>3, LineOut DEF ReadMessage
  <2>2. inbox' \in Seq(Inputs)
    BY <1>0, <1>3, <2>1, Appended DEF ReadMessage
  <2> QED BY <1>1, <1>3, <2>2 DEF ReadMessage, ClaudeTypes
<1>4. CASE ReadCommand
  <2> DEFINE c == Head(pipe).id
             taken == <<Event("started", c), Event("completed", c)>>
  <2>1. c \in Cmds
    BY <1>1, <1>4, LineOut DEF ReadCommand
  <2>2. <<c>> \in Seq(Cmds) /\ Len(<<c>>) = 1
    BY <2>1, Short
  <2>3. taken \in Seq(Events)
    BY <1>2, <2>1, Short
  <2>4. Append(taken, Event("not run", c)) \in Seq(Events)
    BY <1>2, <2>1, <2>3, Appended
  <2>5. \/ running' = <<c>> /\ out' = out
        \/ running' = <<c>> /\ Tells(taken)
        \/ running' = running /\ Tells(Append(taken, Event("not run", c)))
    BY <1>4 DEF ReadCommand
  <2>6. /\ pipe' = Tail(pipe) /\ pipe # <<>>
        /\ UNCHANGED <<alive, newer, inbox, turn>>
    BY <1>4 DEF ReadCommand
  <2> HIDE DEF c, taken
  <2>7. running' \in Seq(Cmds) /\ Len(running') <= 1
    <3>1. running' = <<c>> \/ running' = running
      BY <2>5
    <3>2. running \in Seq(Cmds) /\ Len(running) <= 1
      BY DEF ClaudeTypes
    <3>3. Len(<<c>>) <= 1
      BY <2>2
    <3> QED BY <2>2, <3>1, <3>2, <3>3, Zenon
  <2>8. out' \in Seq(Events) /\ Len(out') <= MaxOut
    <3>1. CASE out' = out
      BY <3>1 DEF ClaudeTypes
    <3>2. CASE Tells(taken)
      BY <2>3, <3>2, TellTypes
    <3>3. CASE Tells(Append(taken, Event("not run", c)))
      BY <2>4, <3>3, TellTypes
    <3> QED BY <2>5, <3>1, <3>2, <3>3
  <2> QED BY <1>1, <2>6, <2>7, <2>8 DEF ClaudeTypes
<1>5. CASE ReadCancel
  <2> DEFINE m == Head(pipe).id
  <2>1. m \in Msgs
    BY <1>1, <1>5, LineOut DEF ReadCancel
  <2>2. /\ <<Event("cancelled", m)>> \in Seq(Events)
        /\ <<Event("not cancelled", m)>> \in Seq(Events)
    BY <2>1, EventIn, Short
  <2>3. \/ inbox' = RemoveFirst(inbox, m) /\ Tells(<<Event("cancelled", m)>>)
        \/ inbox' = inbox /\ Tells(<<Event("not cancelled", m)>>)
    BY <1>5 DEF ReadCancel
  <2>4. inbox' \in Seq(Inputs)
    <3>1. RemoveFirst(inbox, m) \in Seq(Inputs)
      BY <1>0, RemovedFirst
    <3> QED BY <1>0, <2>3, <3>1
  <2>5. out' \in Seq(Events) /\ Len(out') <= MaxOut
    BY <2>2, <2>3, TellTypes
  <2> QED BY <1>1, <1>5, <2>4, <2>5 DEF ReadCancel, ClaudeTypes
<1>6. CASE CommandEnds
  <2> DEFINE c == Head(running)
  <2>1. c \in Cmds
    BY <1>0, <1>6, Tailed DEF CommandEnds
  <2>2. /\ <<Event("printed", c)>> \in Seq(Events)
        /\ <<Event("printed", c), Event("completed", c)>> \in Seq(Events)
    BY <1>2, <2>1, Short
  <2>3. out' \in Seq(Events) /\ Len(out') <= MaxOut
    BY <1>6, <2>2, TellTypes DEF CommandEnds
  <2>4. running' \in Seq(Cmds) /\ Len(running') <= 1
    BY <1>6, EmptySeq DEF CommandEnds
  <2> QED BY <1>6, <2>3, <2>4 DEF CommandEnds, ClaudeTypes
<1>7. CASE Exit
  <2>1. /\ pipe' \in Seq(Lines) /\ inbox' \in Seq(Inputs) /\ turn' \in Seq(Inputs \union {Self})
        /\ running' \in Seq(Cmds) /\ Len(running') <= 1
    BY <1>7, EmptySeq DEF Exit
  <2>2. PICK n \in 0 .. Len(out) : out' = SubSeq(out, 1, n)
    BY <1>7 DEF Exit
  <2>3. out' \in Seq(Events) /\ Len(out') = n /\ Len(out) \in Nat
    BY <1>0, <2>2, Cut, Positions
  <2>4. Len(out') <= MaxOut
    BY <2>3, InputAssumption DEF ClaudeTypes
  <2> QED BY <1>7, <2>1, <2>3, <2>4 DEF Exit, ClaudeTypes
<1> QED BY <1>3, <1>4, <1>5, <1>6, <1>7 DEF ReadLine

LEMMA SaveTypes ==
    ASSUME Types, Saves
    PROVE  HolderTypes' /\ ClaudeTypes'
<1>1. UNCHANGED <<holderState, claude, pc, output, cancel, closed, withdrawn>>
  BY DEF Saves, Snapshot, WriteOut
<1>2. HolderTypes'
  BY <1>1 DEF Types, HolderTypes, holderState
<1> QED BY <1>1, <1>2, ClaudeAsItWas DEF Types

\* Who saves: the goroutine that reads, one of a message or a letter, or one
\* that takes a message back.
LEMMA SaveOwed ==
    ASSUME FileTypes, NEW g, Owe(g), SavesWait => g \in Savers
    PROVE  FileTypes'
BY InputAssumption DEF FileTypes, Owe

LEMMA WhoSaves ==
    SavesWait => /\ \A s \in Inputs : s \in Savers
                 /\ Reading \in Savers
                 /\ \A m \in Msgs : Withdrawing(m) \in Savers
BY DEF Savers

LEMMA FilesAsTheyWere == FileTypes /\ UNCHANGED files => FileTypes'
BY DEF FileTypes, files

\* A handler of the reading goroutine leaves the files be, or owes a save.
LEMMA ReaderSaves ==
    ASSUME Reader
    PROVE  /\ Owe(Reading) \/ UNCHANGED <<queue, busy, files>>
           /\ UNCHANGED <<closed, alive, pc>>
<1>1. CASE OnStarted \/ OnInit \/ OnResult
  BY <1>1 DEF OnStarted, OnInit, OnResult, Reads
<1>2. CASE OnCompleted \/ OnEcho
  BY <1>2 DEF OnCompleted, OnEcho, Reads
<1>3. CASE OnShellEnded
  BY <1>3 DEF OnShellEnded, Reads
<1>4. CASE \E type \in {"printed", "not run"} : OnPrinted(type)
  BY <1>4 DEF OnPrinted, Reads
<1>5. CASE \E type \in {"cancelled", "not cancelled"} : OnResponse(type)
  BY <1>5 DEF OnResponse, Reads, holderState
<1> QED BY <1>1, <1>2, <1>3, <1>4, <1>5 DEF Reader

LEMMA FileTypesStep ==
    ASSUME Types, [Next]_vars
    PROVE  FileTypes'
<1>0. FileTypes
  BY DEF Types
<1>1. ASSUME NEW s \in Says, Saying(s) PROVE FileTypes'
  <2>1. s \in Inputs
    BY DEF Inputs
  <2>2. Owe(s) \/ UNCHANGED files
    BY <1>1 DEF Saying, List, Write, Unlist, Settle
  <2> QED BY <1>0, <2>1, <2>2, SaveOwed, WhoSaves, FilesAsTheyWere
<1>2. ASSUME NEW l \in Letters, WriteLetter(l) \/ Settle(l) PROVE FileTypes'
  <2>1. l \in Inputs
    BY DEF Inputs
  <2>2. Owe(l) \/ UNCHANGED files
    BY <1>2 DEF WriteLetter, Settle
  <2> QED BY <1>0, <2>1, <2>2, SaveOwed, WhoSaves, FilesAsTheyWere
<1>3. ASSUME NEW c \in Cmds, Running(c) PROVE FileTypes'
  <2>1. UNCHANGED files
    BY <1>3 DEF Running, Run, WriteRun, DropShell, holderRest
  <2> QED BY <1>0, <2>1, FilesAsTheyWere
<1>4. ASSUME NEW m \in Msgs, Cancelling(m) PROVE FileTypes'
  <2>1. Owe(Withdrawing(m)) \/ UNCHANGED files
    BY <1>4 DEF Cancelling, AskBack, GiveUp, Unqueue
  <2> QED BY <1>0, <2>1, SaveOwed, WhoSaves, FilesAsTheyWere
<1>5. CASE Reader
  <2>1. Owe(Reading) \/ UNCHANGED files
    BY <1>5, ReaderSaves
  <2> QED BY <1>0, <2>1, SaveOwed, WhoSaves, FilesAsTheyWere
<1>6. CASE Saves
  <2>1. ASSUME NEW g \in Savers, Snapshot(g) PROVE FileTypes'
    <3>1. owing' \subseteq Savers
      BY <1>0, <2>1 DEF Snapshot, FileTypes
    <3>2. saving' = {[by |-> g, sum |-> Summary]}
      BY <2>1 DEF Snapshot
    <3>3. \A w \in saving' : w.by = g
      BY <3>2
    <3>4. Savers' = Savers
      BY DEF Savers
    <3> QED BY <3>1, <3>3, <3>4 DEF FileTypes
  <2>2. ASSUME WriteOut PROVE FileTypes'
    <3>1. owing' = owing /\ saving' \subseteq saving
      BY <2>2 DEF WriteOut
    <3> QED BY <1>0, <3>1 DEF FileTypes
  <2> QED BY <1>6, <2>1, <2>2 DEF Saves
<1>7. CASE Close \/ Claude \/ UNCHANGED vars
  <2>1. UNCHANGED files
    BY <1>7 DEF Close, Claude, vars, holderRest
  <2> QED BY <1>0, <2>1, FilesAsTheyWere
<1> QED BY <1>1, <1>2, <1>3, <1>4, <1>5, <1>6, <1>7 DEF Next

LEMMA TypesStep == Types /\ [Next]_vars => Types'
<1> SUFFICES ASSUME Types, [Next]_vars PROVE HolderTypes' /\ ClaudeTypes'
  BY FileTypesStep DEF Types
<1>1. CASE Claude
  <2>1. HolderTypes'
    BY <1>1, HolderAsItWas DEF Types, Claude
  <2>2. ClaudeTypes'
    BY <1>1, TurnTypes, LineTypes DEF Types, Claude
  <2> QED BY <2>1, <2>2
<1>2. CASE Close
  <2>1. HolderTypes'
    BY <1>2 DEF Close, Types, HolderTypes, holderState
  <2> QED BY <1>2, <2>1, ClaudeAsItWas DEF Close, Types
<1>3. CASE UNCHANGED vars
  BY <1>3, HolderAsItWas, ClaudeAsItWas DEF vars, Types
<1> QED BY <1>1, <1>2, <1>3, SayTypes, LetterTypes, RunTypes, CancelTypes, ReaderTypes, SaveTypes
    DEF Next

\* Every state of the holder and of claude is of its type, for any messages,
\* commands, letters and bound on claude's words.
THEOREM InputTypes == Spec => []TypeOK
<1>1. Init => Types
  BY TypesInit
<1>2. Types /\ [Next]_vars => Types'
  BY TypesStep
<1>3. Types => TypeOK
  BY ItsType
<1> QED BY <1>1, <1>2, <1>3, PTL DEF Spec

-----------------------------------------------------------------------------
(* The state file.                                                         *)

\* Claude does not come back, and what was closed stays so.
LEMMA OnceShut == Claude /\ alive' => alive
BY DEF Claude, TakeUp, ReadLine, BeginTurn, RunSlash, Absorb, ReadMessage, ReadCommand,
       ReadCancel, BeginOwnTurn, EndTurn, CommandEnds, Exit

\* No message is half sent, so whoever changed what the file tells had to save.
Settled == Open /\ \A s \in Says : pc[s] \in {"idle", "sent"}

\* Why the file is current: where every change is settled and nobody has a save
\* before it, the last summary taken is the holder's, be it written out or not;
\* and only one is taken at a time.
OneSaves == \A v, w \in saving : v = w
LastIsTrue ==
    Settled /\ owing = {} => IF saving = {} THEN file = Summary
                                           ELSE \A w \in saving : w.sum = Summary
FileInv == OneSaves /\ LastIsTrue

LEMMA FileIsSo == FileInv => FileIsCurrent
BY DEF FileInv, LastIsTrue, FileIsCurrent, Settled

\* A step that changes nothing of what the file tells, and moves no message.
LEMMA FileAsItWas ==
    ASSUME FileInv, UNCHANGED <<queue, busy, files>>, Open' => Open,
           \A s \in Says : pc'[s] \in {"idle", "sent"} => pc[s] \in {"idle", "sent"}
    PROVE  FileInv'
BY DEF FileInv, OneSaves, LastIsTrue, Settled, Summary, files

\* Whoever changes what the file tells owes a save, and where the save takes no
\* time it is done.
LEMMA Saved ==
    ASSUME FileTypes, FileInv, NEW g, Owe(g)
    PROVE  FileInv'
<1>1. saving' = saving
  BY DEF Owe
<1>2. OneSaves'
  BY <1>1 DEF FileInv, OneSaves
<1>3. CASE SavesWait
  <2>1. g \in owing'
    BY <1>3 DEF Owe
  <2> QED BY <1>2, <2>1 DEF FileInv, LastIsTrue
<1>4. CASE ~ SavesWait
  <2>1. saving = {}
    BY <1>4 DEF FileTypes, Savers
  <2>2. file' = Summary'
    BY <1>4 DEF Owe
  <2> QED BY <1>1, <1>2, <2>1, <2>2 DEF FileInv, LastIsTrue
<1> QED BY <1>3, <1>4

LEMMA HalfSent ==
    ASSUME FileInv, saving' = saving, NEW s \in Says, pc'[s] \notin {"idle", "sent"}
    PROVE  FileInv'
BY DEF FileInv, OneSaves, LastIsTrue, Settled

LEMMA SaveStep ==
    ASSUME FileInv, Saves
    PROVE  FileInv'
<1>0. UNCHANGED <<queue, busy, closed, alive, pc>>
  BY DEF Saves, Snapshot, WriteOut, holderState, claude
<1>1. Summary' = Summary /\ (Settled' <=> Settled)
  BY <1>0 DEF Summary, Settled, Open
<1>2. ASSUME NEW g \in Savers, Snapshot(g) PROVE FileInv'
  <2>1. saving' = {[by |-> g, sum |-> Summary]}
    BY <1>2 DEF Snapshot
  <2>2. saving' # {} /\ \A w \in saving' : w = [by |-> g, sum |-> Summary]
    BY <2>1
  <2> QED BY <1>1, <2>2 DEF FileInv, OneSaves, LastIsTrue
<1>3. ASSUME WriteOut PROVE FileInv'
  <2>1. PICK w \in saving : file' = w.sum /\ saving' = saving \ {w}
    BY <1>3 DEF WriteOut
  <2>2. saving' = {}
    BY <2>1 DEF FileInv, OneSaves
  <2>3. owing' = owing
    BY <1>3 DEF WriteOut
  <2>4. OneSaves'
    BY <2>2 DEF OneSaves
  <2>5. LastIsTrue'
    BY <1>1, <2>1, <2>2, <2>3 DEF FileInv, LastIsTrue
  <2> QED BY <2>4, <2>5 DEF FileInv
<1> QED BY <1>2, <1>3 DEF Saves

LEMMA FileStep == Types /\ FileInv /\ [Next]_vars => FileInv'
<1> SUFFICES ASSUME Types, FileInv, [Next]_vars PROVE FileInv'
  OBVIOUS
<1>0. pc \in [Inputs \union Cmds -> Steps] /\ FileTypes
  BY DEF Types, HolderTypes
<1>1. ASSUME NEW s \in Says, Saying(s) PROVE FileInv'
  <2>1. s \in Inputs
    BY DEF Inputs
  <2>2. CASE Settle(s)
    BY <1>0, <2>2, Saved DEF Settle
  <2>3. CASE List(s) \/ Write(s) \/ Unlist(s)
    <3>1. pc'[s] \in {"listed", "written", "failing", "failed"}
      BY <1>0, <2>1, <2>3 DEF List, Write, Unlist, Goes
    <3>2. saving' = saving
      BY <2>3 DEF List, Write, Unlist, files
    <3> QED BY <3>1, <3>2, HalfSent
  <2> QED BY <1>1, <2>2, <2>3 DEF Saying
<1>2. ASSUME NEW l \in Letters, WriteLetter(l) \/ Settle(l) PROVE FileInv'
  <2>1. CASE WriteLetter(l)
    <3>1. \A s \in Says : s \in Inputs /\ s # l
      BY IdsAssumption DEF Inputs
    <3>2. \A s \in Says : pc'[s] = pc[s]
      BY <1>0, <2>1, <3>1 DEF WriteLetter, Goes
    <3> QED BY <2>1, <3>2, FileAsItWas DEF WriteLetter, holderState, Open
  <2>2. CASE Settle(l)
    BY <1>0, <2>2, Saved DEF Settle
  <2> QED BY <1>2, <2>1, <2>2
<1>3. ASSUME NEW c \in Cmds, Running(c) PROVE FileInv'
  <2>1. \A s \in Says : s \in Inputs /\ s # c
    BY IdsAssumption DEF Inputs
  <2>2. \A s \in Says : pc'[s] = pc[s]
    BY <1>0, <1>3, <2>1 DEF Running, Run, WriteRun, DropShell, Goes, holderRest
  <2>3. UNCHANGED <<queue, busy, files, closed, alive>>
    BY <1>3 DEF Running, Run, WriteRun, DropShell, holderState, holderRest, claude
  <2> QED BY <2>2, <2>3, FileAsItWas DEF Open
<1>4. ASSUME NEW m \in Msgs, Cancelling(m) PROVE FileInv'
  <2>1. CASE Unqueue(m)
    BY <1>0, <2>1, Saved DEF Unqueue
  <2>2. CASE AskBack(m) \/ GiveUp(m)
    <3>1. UNCHANGED <<queue, busy, files, closed, alive, pc>>
      BY <2>2 DEF AskBack, GiveUp, holderState, claude
    <3> QED BY <3>1, FileAsItWas DEF Open
  <2> QED BY <1>4, <2>1, <2>2 DEF Cancelling
<1>5. CASE Reader
  BY <1>0, <1>5, ReaderSaves, Saved, FileAsItWas DEF Open
<1>6. CASE Close
  <2>1. ~ Open' /\ saving' = saving
    BY <1>6 DEF Close, Open, files
  <2> QED BY <2>1 DEF FileInv, OneSaves, LastIsTrue, Settled
<1>7. CASE Claude
  <2>1. UNCHANGED <<queue, busy, files, closed, pc>>
    BY <1>7 DEF Claude, holderState, holderRest
  <2> QED BY <1>7, <2>1, OnceShut, FileAsItWas DEF Open
<1>8. CASE UNCHANGED vars
  <2>1. UNCHANGED <<queue, busy, files, closed, alive, pc>>
    BY <1>8 DEF vars, holderState, holderRest, claude
  <2> QED BY <2>1, FileAsItWas DEF Open
<1> QED BY <1>1, <1>2, <1>3, <1>4, <1>5, <1>6, <1>7, <1>8, SaveStep DEF Next

\* The state file the collector reads says what the holder knows once no
\* message is half sent and no goroutine has a save before it, for any messages,
\* commands and letters: no change is left unsaved, and though every goroutine
\* saves after h.mu is let go, none writes an older summary over a newer one.
THEOREM FileIsTrue == Spec => []FileIsCurrent
<1>1. Init => Types /\ FileInv
  BY TypesInit DEF Init, FileInv, OneSaves, LastIsTrue
<1>2. Types /\ FileInv /\ [Next]_vars => Types' /\ FileInv'
  BY TypesStep, FileStep
<1>3. FileInv => FileIsCurrent
  BY FileIsSo
<1> QED BY <1>1, <1>2, <1>3, PTL DEF Spec

=============================================================================
