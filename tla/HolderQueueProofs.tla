------------------------- MODULE HolderQueueProofs --------------------------
(***************************************************************************)
(* What TLAPS proves of the queue, the commands and the rest of a session  *)
(* in HolderInput, for any messages, commands and letters, any lag of the  *)
(* reader and any number of goroutines between two holds of h.mu.          *)
(*                                                                         *)
(* Of the queue it is proved where no two messages have the same words     *)
(* (DistinctTexts): where they have, the echo of one takes the other's     *)
(* place, and nothing of it holds.  What is proved of the commands needs   *)
(* no such condition.                                                      *)
(*                                                                         *)
(*   Places    a message is at one place: not written, in the pipe, read,  *)
(*             in the turn, told of or given back; it is asked back once   *)
(*   QueueInv  what claude has not read is in the queue, and there are as  *)
(*             many messages to drop as goroutines that may drop one       *)
(*   Begun     the holder knows of claude's turn, or its word of it is on  *)
(*             the way and what it answers is in the queue                 *)
(*   Owed      a busy session waits for an end that comes                  *)
(*   ForecastInv, Commands                                                 *)
(*             the words of the commands on their way, read in turn, will  *)
(*             each be taken for the command they are of                   *)
(***************************************************************************)
EXTENDS HolderInputProofs

-----------------------------------------------------------------------------
(* Where a message is.                                                     *)

InPipe(s) == Line("message", s) \in ToSet(pipe)
InInbox(s) == s \in ToSet(inbox)
InTurn(s) == s \in ToSet(turn)

\* Claude wrote that it took the message up, or that it gave it back.
Takes == {"started", "echo", "completed"}
Told(s) == \E e \in ToSet(out) : e.id = s /\ e.type \in Takes
GivenBack(s) == \/ Event("cancelled", s) \in ToSet(out)
                \/ s \in Msgs /\ cancel[s] = "taken"

Unwritten == {"idle", "listed", "failing", "failed"}
Unknown(s) == ~ InPipe(s) /\ ~ InInbox(s) /\ ~ InTurn(s) /\ ~ Told(s) /\ ~ GivenBack(s)

\* A message is at one place, and claude knows nothing of one not written.
PlaceOf(s) ==
    /\ pc[s] \in Unwritten => Unknown(s) /\ (s \in Msgs => cancel[s] = "none")
    /\ InPipe(s) => ~ InInbox(s) /\ ~ InTurn(s) /\ ~ Told(s) /\ ~ GivenBack(s)
    /\ InInbox(s) => ~ InTurn(s) /\ ~ Told(s) /\ ~ GivenBack(s)
    /\ InTurn(s) => ~ GivenBack(s)

\* The person takes a message back once, and claude answers that once.
Asking(m) == Line("cancel", m) \in ToSet(pipe)
Answers == {"cancelled", "not cancelled"}
Answered(m) == \E e \in ToSet(out) : e.id = m /\ e.type \in Answers
IsAnswer(i, m) == out[i].id = m /\ out[i].type \in Answers
OneAnswer(m) == \A i, j \in 1 .. Len(out) : IsAnswer(i, m) /\ IsAnswer(j, m) => i = j
AskOf(m) ==
    /\ Asking(m) \/ Answered(m) => cancel[m] \in {"asked", "given up"}
    /\ ~ (Asking(m) /\ Answered(m))
    /\ OneAnswer(m)

LinesOnce == /\ IsInjective(pipe)
             /\ IsInjective(inbox)
             /\ \A c \in Cmds : pc[c] \in Unwritten => Line("command", c) \notin ToSet(pipe)

Places == /\ \A s \in Inputs : PlaceOf(s)
          /\ \A m \in Msgs : AskOf(m)
          /\ LinesOnce

-----------------------------------------------------------------------------
(* How a step moves them.                                                  *)

\* A step that brings a message nowhere leaves it where it may be.
LEMMA PlaceKept ==
    ASSUME NEW s \in Inputs, PlaceOf(s),
           InPipe(s)' => InPipe(s), InInbox(s)' => InInbox(s), InTurn(s)' => InTurn(s),
           Told(s)' => Told(s), GivenBack(s)' => GivenBack(s),
           pc'[s] \in Unwritten => pc[s] \in Unwritten,
           s \in Msgs => cancel'[s] = cancel[s] \/ pc'[s] \notin Unwritten
    PROVE  PlaceOf(s)'
BY DEF PlaceOf, Unknown

\* The pipe as it was, with one line more, with one line less.
LEMMA PipeSame ==
    ASSUME pipe' = pipe
    PROVE  /\ \A s : InPipe(s)' <=> InPipe(s)
           /\ \A m : Asking(m)' <=> Asking(m)
BY DEF InPipe, Asking

LEMMA PipeMore ==
    ASSUME ClaudeTypes, NEW e \in Lines, pipe' = Append(pipe, e)
    PROVE  /\ \A s : InPipe(s)' <=> InPipe(s) \/ e = Line("message", s)
           /\ \A m : Asking(m)' <=> Asking(m) \/ e = Line("cancel", m)
           /\ ToSet(pipe)' = ToSet(pipe) \union {e}
           /\ IsInjective(pipe) /\ e \notin ToSet(pipe) => IsInjective(pipe)'
<1>1. pipe \in Seq(Lines)
  BY DEF ClaudeTypes
<1>2. /\ ToSet(pipe') = ToSet(pipe) \union {e}
      /\ IsInjective(pipe) /\ e \notin ToSet(pipe) => IsInjective(pipe')
  BY <1>1, Appended
<1> QED BY <1>2 DEF InPipe, Asking

LEMMA PipeLess ==
    ASSUME ClaudeTypes, pipe # <<>>, pipe' = Tail(pipe), IsInjective(pipe)
    PROVE  /\ Head(pipe) \in Lines
           /\ ToSet(pipe) = ToSet(pipe)' \union {Head(pipe)} /\ Head(pipe) \notin ToSet(pipe)'
           /\ \A s : InPipe(s) <=> InPipe(s)' \/ Head(pipe) = Line("message", s)
           /\ \A s : InPipe(s)' => Head(pipe) # Line("message", s)
           /\ \A m : Asking(m) <=> Asking(m)' \/ Head(pipe) = Line("cancel", m)
           /\ \A m : Asking(m)' => Head(pipe) # Line("cancel", m)
           /\ IsInjective(pipe)'
<1>1. pipe \in Seq(Lines)
  BY DEF ClaudeTypes
<1>2. /\ Head(pipe) \in Lines /\ ToSet(pipe) = ToSet(pipe') \union {Head(pipe)}
      /\ Head(pipe) \notin ToSet(pipe') /\ IsInjective(pipe')
  BY <1>1, Tailed
<1> QED BY <1>2 DEF InPipe, Asking

\* Nothing written by claude, one word read, some words more.
LEMMA OutSame ==
    ASSUME out' = out
    PROVE  /\ \A s : Told(s)' <=> Told(s)
           /\ \A m : Answered(m)' <=> Answered(m)
           /\ \A s : (s \in Msgs => cancel'[s] = cancel[s]) => (GivenBack(s)' <=> GivenBack(s))
BY DEF Told, Answered, GivenBack

LEMMA OutLess ==
    ASSUME ClaudeTypes, NEW type, Reads(type)
    PROVE  /\ \A e : e \in ToSet(out) <=> e \in ToSet(out)' \/ e = Head(out)
           /\ \A s : Told(s)' => Told(s)
           /\ \A m : Answered(m)' => Answered(m)
           /\ Head(out) \in Events /\ Head(out) = Event(type, Head(out).id)
           /\ Len(out') = Len(out) - 1 /\ Len(out) \in Nat \ {0} /\ Head(out) = out[1]
           /\ \A i \in 1 .. Len(out') : i + 1 \in 1 .. Len(out) /\ out'[i] = out[i + 1]
<1>1. out \in Seq(Events) /\ out # <<>> /\ out' = Tail(out) /\ Head(out).type = type
  BY DEF ClaudeTypes, Reads
<1>2. /\ Head(out) \in Events /\ ToSet(out) = {Head(out)} \union ToSet(out')
      /\ Len(out') = Len(out) - 1 /\ Len(out) \in Nat \ {0} /\ Head(out) = out[1]
      /\ \A i \in 1 .. Len(out) - 1 : out'[i] = out[i + 1]
  BY <1>1, Tailed
<1>3. \A i \in 1 .. Len(out') : i + 1 \in 1 .. Len(out) /\ out'[i] = out[i + 1]
  BY <1>2
<1>4. Head(out) = Event(type, Head(out).id)
  BY <1>1, <1>2, EventOut
<1> QED BY <1>2, <1>3, <1>4 DEF Told, Answered

LEMMA OutMore ==
    ASSUME ClaudeTypes, NEW events \in Seq(Events), Tells(events)
    PROVE  /\ \A e : e \in ToSet(out)' <=> e \in ToSet(out) \/ e \in ToSet(events)
           /\ \A s : Told(s)' <=> Told(s) \/ \E e \in ToSet(events) : e.id = s /\ e.type \in Takes
           /\ \A m : Answered(m)' <=> \/ Answered(m)
                                      \/ \E e \in ToSet(events) : e.id = m /\ e.type \in Answers
           /\ Len(out) \in Nat /\ Len(out') = Len(out) + Len(events)
           /\ \A i \in 1 .. Len(out) : i \in 1 .. Len(out') /\ out'[i] = out[i]
           /\ \A i \in 1 .. Len(out') : \/ i \in 1 .. Len(out)
                                        \/ /\ i > Len(out) /\ i - Len(out) \in 1 .. Len(events)
                                           /\ out'[i] = events[i - Len(out)]
<1>1. out \in Seq(Events) /\ out' = out \o events
  BY DEF ClaudeTypes, Tells
<1>2. /\ ToSet(out') = ToSet(out) \union ToSet(events)
      /\ Len(out') = Len(out) + Len(events)
      /\ \A i \in 1 .. Len(out) : i \in 1 .. Len(out') /\ out'[i] = out[i]
      /\ \A i \in 1 .. Len(out') : \/ i \in 1 .. Len(out)
                                   \/ /\ i > Len(out) /\ i - Len(out) \in 1 .. Len(events)
                                      /\ out'[i] = events[i - Len(out)]
  BY <1>1, Joined
<1>3. Len(out) \in Nat
  BY <1>1, Positions
<1> QED BY <1>2, <1>3 DEF Told, Answered

LEMMA AnswerSame ==
    ASSUME NEW m, out' = out, OneAnswer(m)
    PROVE  OneAnswer(m)'
BY DEF OneAnswer, IsAnswer

LEMMA AnswerLess ==
    ASSUME ClaudeTypes, NEW type, Reads(type), NEW m, OneAnswer(m)
    PROVE  /\ OneAnswer(m)'
           /\ type \in Answers /\ Head(out).id = m => ~ Answered(m)'
<1>1. /\ Len(out) \in Nat \ {0} /\ Len(out') = Len(out) - 1 /\ Head(out) = out[1]
      /\ Head(out).type = type
      /\ \A i \in 1 .. Len(out') : i + 1 \in 1 .. Len(out) /\ out'[i] = out[i + 1]
  BY OutLess DEF Event
<1>2. \A i \in 1 .. Len(out') : IsAnswer(i, m)' => IsAnswer(i + 1, m)
  BY <1>1 DEF IsAnswer
<1>3. ASSUME NEW i \in 1 .. Len(out'), NEW j \in 1 .. Len(out'), IsAnswer(i, m)', IsAnswer(j, m)'
      PROVE  i = j
  <2>1. i + 1 = j + 1
    BY <1>1, <1>2, <1>3 DEF OneAnswer
  <2> QED BY <2>1
<1>4. ASSUME type \in Answers, Head(out).id = m, Answered(m)' PROVE FALSE
  <2>1. out' \in Seq(Events)
    BY ReadTypes DEF ClaudeTypes
  <2>2. PICK i \in 1 .. Len(out') : IsAnswer(i, m)'
    BY <1>4, <2>1, Positions DEF Answered, IsAnswer
  <2>3. IsAnswer(1, m) /\ IsAnswer(i + 1, m) /\ 1 \in 1 .. Len(out) /\ i + 1 \in 1 .. Len(out)
    BY <1>1, <1>2, <1>4, <2>2 DEF IsAnswer
  <2>4. 1 = i + 1
    BY <2>3 DEF OneAnswer
  <2> QED BY <1>1, <2>2, <2>4
<1> QED BY <1>3, <1>4 DEF OneAnswer

LEMMA AnswerMore ==
    ASSUME ClaudeTypes, NEW events \in Seq(Events), Tells(events), NEW m, OneAnswer(m),
           \/ \A e \in ToSet(events) : ~ (e.id = m /\ e.type \in Answers)
           \/ Len(events) = 1 /\ ~ Answered(m)
    PROVE  OneAnswer(m)'
<1>1. /\ Len(out) \in Nat /\ Len(out') = Len(out) + Len(events)
      /\ \A i \in 1 .. Len(out') : \/ i \in 1 .. Len(out) /\ out'[i] = out[i]
                                   \/ /\ i > Len(out) /\ i - Len(out) \in 1 .. Len(events)
                                      /\ out'[i] = events[i - Len(out)]
  BY OutMore
<1>2. /\ out \in Seq(Events) /\ Len(events) \in Nat
      /\ \A i \in 1 .. Len(events) : events[i] \in ToSet(events)
      /\ \A i \in 1 .. Len(out) : out[i] \in ToSet(out)
  BY Positions DEF ClaudeTypes
<1>3. CASE \A e \in ToSet(events) : ~ (e.id = m /\ e.type \in Answers)
  <2>1. \A i \in 1 .. Len(out') : IsAnswer(i, m)' => i \in 1 .. Len(out) /\ IsAnswer(i, m)
    BY <1>1, <1>2, <1>3 DEF IsAnswer
  <2> QED BY <2>1 DEF OneAnswer
<1>4. CASE Len(events) = 1 /\ ~ Answered(m)
  <2>1. \A i \in 1 .. Len(out) : ~ IsAnswer(i, m)
    BY <1>2, <1>4 DEF Answered, IsAnswer
  <2>2. \A i \in 1 .. Len(out') : IsAnswer(i, m)' => i = Len(out) + 1
    BY <1>1, <1>4, <2>1 DEF IsAnswer
  <2> QED BY <2>2 DEF OneAnswer
<1> QED BY <1>3, <1>4

LEMMA AskKept ==
    ASSUME NEW m \in Msgs, AskOf(m), OneAnswer(m)',
           Asking(m)' => Asking(m), Answered(m)' => Answered(m),
           \/ cancel'[m] = cancel[m]
           \/ cancel'[m] = "given up"
           \/ ~ Asking(m) /\ ~ Answered(m)
    PROVE  AskOf(m)'
BY DEF AskOf

-----------------------------------------------------------------------------
(* The steps of the holder.                                                *)

\* A step of the holder that writes nothing and reads nothing.
LEMMA QuietPlaces ==
    ASSUME Places, UNCHANGED <<pipe, inbox, turn, out>>,
           \A s \in Inputs \union Cmds : pc'[s] \in Unwritten => pc[s] \in Unwritten,
           \A m \in Msgs : \/ cancel'[m] = cancel[m]
                           \/ cancel[m] = "asked" /\ cancel'[m] = "given up"
                           \/ cancel[m] = "taken" /\ cancel'[m] = "done"
    PROVE  Places'
<1>1. /\ \A s : InPipe(s)' <=> InPipe(s)
      /\ \A s : Asking(s)' <=> Asking(s)
      /\ \A s : Told(s)' <=> Told(s)
      /\ \A s : Answered(s)' <=> Answered(s)
  BY PipeSame, OutSame
<1>2. \A s : (InInbox(s)' <=> InInbox(s)) /\ (InTurn(s)' <=> InTurn(s))
  BY DEF InInbox, InTurn
<1>3. ASSUME NEW s \in Inputs PROVE PlaceOf(s)'
  <2>1. PlaceOf(s)
    BY DEF Places
  <2>2. GivenBack(s)' => GivenBack(s)
    BY DEF GivenBack
  <2>3. s \in Msgs => cancel'[s] = cancel[s] \/ pc'[s] \notin Unwritten
    BY <2>1 DEF PlaceOf
  <2> QED BY <1>1, <1>2, <2>1, <2>2, <2>3, PlaceKept
<1>4. ASSUME NEW m \in Msgs PROVE AskOf(m)'
  <2>1. AskOf(m) /\ OneAnswer(m)
    BY DEF Places, AskOf
  <2>2. OneAnswer(m)'
    BY <2>1, AnswerSame
  <2>3. cancel[m] = "taken" => ~ Asking(m) /\ ~ Answered(m)
    BY <2>1 DEF AskOf
  <2> QED BY <1>1, <2>1, <2>2, <2>3, AskKept
<1>5. LinesOnce'
  BY DEF Places, LinesOnce
<1> QED BY <1>3, <1>4, <1>5 DEF Places

\* A message, a letter or a command is written.
LEMMA WritePlaces ==
    ASSUME Types, Places, NEW s \in Inputs, pc[s] \in Unwritten, pc' = [pc EXCEPT ![s] = "written"],
           pipe' = Append(pipe, Line("message", s)), UNCHANGED <<inbox, turn, out, cancel>>
    PROVE  Places'
<1> DEFINE e == Line("message", s)
<1>0. e \in Lines /\ ClaudeTypes /\ pc \in [Inputs \union Cmds -> Steps]
  BY LineIn DEF Types, HolderTypes
<1>1. PlaceOf(s) /\ ~ InPipe(s) /\ ~ InInbox(s) /\ ~ InTurn(s) /\ ~ Told(s) /\ ~ GivenBack(s)
  BY DEF Places, PlaceOf, Unknown
<1>2. /\ \A t : InPipe(t)' <=> InPipe(t) \/ e = Line("message", t)
      /\ \A m : Asking(m)' <=> Asking(m) \/ e = Line("cancel", m)
      /\ ToSet(pipe)' = ToSet(pipe) \union {e}
      /\ IsInjective(pipe)'
  BY <1>0, <1>1, PipeMore DEF Places, LinesOnce, InPipe
<1>3. /\ \A t : Told(t)' <=> Told(t)
      /\ \A t : Answered(t)' <=> Answered(t)
      /\ \A t : GivenBack(t)' <=> GivenBack(t)
      /\ \A t : (InInbox(t)' <=> InInbox(t)) /\ (InTurn(t)' <=> InTurn(t))
  BY OutSame DEF InInbox, InTurn
<1>4. ASSUME NEW t \in Inputs PROVE PlaceOf(t)'
  <2>1. CASE t = s
    <3>1. pc'[s] = "written"
      BY <1>0
    <3> QED BY <1>1, <1>3, <2>1, <3>1 DEF PlaceOf, Unwritten
  <2>2. CASE t # s
    <3>1. PlaceOf(t) /\ pc'[t] = pc[t]
      BY <1>0, <2>2 DEF Places
    <3>2. InPipe(t)' => InPipe(t)
      BY <1>2, <2>2, LinesDiffer
    <3> QED BY <1>3, <3>1, <3>2, PlaceKept
  <2> QED BY <2>1, <2>2
<1>5. ASSUME NEW m \in Msgs PROVE AskOf(m)'
  <2>1. AskOf(m) /\ OneAnswer(m)
    BY DEF Places, AskOf
  <2>2. OneAnswer(m)'
    BY <2>1, AnswerSame
  <2>3. Asking(m)' => Asking(m)
    BY <1>2, LinesDiffer
  <2> QED BY <1>3, <2>1, <2>2, <2>3, AskKept
<1>6. LinesOnce'
  <2>1. ASSUME NEW c \in Cmds, pc'[c] \in Unwritten PROVE Line("command", c) \notin ToSet(pipe')
    <3>1. pc[c] \in Unwritten
      BY <1>0, <2>1
    <3>2. Line("command", c) # e
      BY LinesDiffer
    <3> QED BY <1>2, <3>1, <3>2 DEF Places, LinesOnce
  <2> QED BY <1>2, <2>1 DEF Places, LinesOnce
<1> QED BY <1>4, <1>5, <1>6 DEF Places

LEMMA WriteRunPlaces ==
    ASSUME Types, Places, NEW c \in Cmds, WriteRun(c)
    PROVE  Places'
<1> DEFINE e == Line("command", c)
<1>0. e \in Lines /\ ClaudeTypes /\ pc \in [Inputs \union Cmds -> Steps] /\ c \notin Inputs
  BY LineIn, IdsAssumption DEF Types, HolderTypes, Inputs
<1>1. CASE ~ Writable
  <2>1. /\ UNCHANGED <<pipe, inbox, turn, out, cancel>>
        /\ pc[c] = "listed" /\ pc' = [pc EXCEPT ![c] = "failing"]
    BY <1>1 DEF WriteRun, Goes
  <2>2. \A s \in Inputs \union Cmds : pc'[s] \in Unwritten => pc[s] \in Unwritten
    BY <1>0, <2>1 DEF Unwritten
  <2> QED BY <2>1, <2>2, QuietPlaces
<1>2. CASE Writable
  <2>1. /\ UNCHANGED <<inbox, turn, out, cancel>> /\ pipe' = Append(pipe, e)
        /\ pc[c] = "listed" /\ pc' = [pc EXCEPT ![c] = "sent"]
    BY <1>2 DEF WriteRun, Goes
  <2>2. e \notin ToSet(pipe)
    BY <2>1 DEF Places, LinesOnce, Unwritten
  <2>3. /\ \A t : InPipe(t)' <=> InPipe(t)
        /\ \A m : Asking(m)' <=> Asking(m)
        /\ ToSet(pipe)' = ToSet(pipe) \union {e}
        /\ IsInjective(pipe)'
    BY <1>0, <2>1, <2>2, PipeMore, LinesDiffer DEF Places, LinesOnce
  <2>4. /\ \A t : Told(t)' <=> Told(t)
        /\ \A t : Answered(t)' <=> Answered(t)
        /\ \A t : GivenBack(t)' <=> GivenBack(t)
        /\ \A t : (InInbox(t)' <=> InInbox(t)) /\ (InTurn(t)' <=> InTurn(t))
    BY <2>1, OutSame DEF InInbox, InTurn
  <2>5. ASSUME NEW t \in Inputs PROVE PlaceOf(t)'
    <3>1. PlaceOf(t) /\ pc'[t] = pc[t]
      BY <1>0, <2>1 DEF Places
    <3> QED BY <2>1, <2>3, <2>4, <3>1, PlaceKept
  <2>6. ASSUME NEW m \in Msgs PROVE AskOf(m)'
    <3>1. AskOf(m) /\ OneAnswer(m)
      BY DEF Places, AskOf
    <3>2. OneAnswer(m)'
      BY <2>1, <3>1, AnswerSame
    <3> QED BY <2>1, <2>3, <2>4, <3>1, <3>2, AskKept
  <2>7. LinesOnce'
    <3>1. ASSUME NEW d \in Cmds, pc'[d] \in Unwritten PROVE Line("command", d) \notin ToSet(pipe')
      <4>1. pc[d] \in Unwritten /\ d # c
        BY <1>0, <2>1, <3>1 DEF Unwritten
      <4>2. Line("command", d) # e
        BY <4>1, LinesDiffer
      <4> QED BY <2>3, <4>1, <4>2 DEF Places, LinesOnce
    <3> QED BY <2>1, <2>3, <3>1 DEF Places, LinesOnce
  <2> QED BY <2>5, <2>6, <2>7 DEF Places
<1> QED BY <1>1, <1>2

LEMMA AskBackPlaces ==
    ASSUME Types, Places, NEW s \in Msgs, AskBack(s)
    PROVE  Places'
<1> DEFINE e == Line("cancel", s)
<1>0. e \in Lines /\ ClaudeTypes
      /\ cancel \in [Msgs -> {"none", "asked", "taken", "given up", "done"}]
  BY LineIn DEF Types, HolderTypes
<1>1. /\ UNCHANGED <<inbox, turn, out, pc>> /\ pipe' = Append(pipe, e)
      /\ cancel[s] = "none" /\ cancel' = [cancel EXCEPT ![s] = "asked"] /\ pc[s] = "sent"
  BY DEF AskBack
<1>2. AskOf(s) /\ ~ Asking(s) /\ ~ Answered(s)
  BY <1>1 DEF Places, AskOf
<1>3. /\ \A t : InPipe(t)' <=> InPipe(t)
      /\ \A m : Asking(m)' <=> Asking(m) \/ m = s
      /\ ToSet(pipe)' = ToSet(pipe) \union {e}
      /\ IsInjective(pipe)'
  <2>1. e \notin ToSet(pipe) /\ IsInjective(pipe)
    BY <1>2 DEF Places, LinesOnce, Asking
  <2>2. /\ \A t : InPipe(t)' <=> InPipe(t) \/ e = Line("message", t)
        /\ \A m : Asking(m)' <=> Asking(m) \/ e = Line("cancel", m)
        /\ ToSet(pipe)' = ToSet(pipe) \union {e}
        /\ IsInjective(pipe)'
    BY <1>0, <1>1, <2>1, PipeMore
  <2>3. \A t : e # Line("message", t) /\ (e = Line("cancel", t) <=> t = s)
    BY LinesDiffer
  <2> QED BY <2>2, <2>3
<1>4. /\ \A t : Told(t)' <=> Told(t)
      /\ \A t : Answered(t)' <=> Answered(t)
      /\ \A t : (InInbox(t)' <=> InInbox(t)) /\ (InTurn(t)' <=> InTurn(t))
  BY <1>1, OutSame DEF InInbox, InTurn
<1>5. \A t : GivenBack(t)' => GivenBack(t)
  BY <1>0, <1>1 DEF GivenBack
<1>6. ASSUME NEW t \in Inputs PROVE PlaceOf(t)'
  <2>1. PlaceOf(t) /\ pc'[t] = pc[t]
    BY <1>1 DEF Places
  <2>2. t \in Msgs => cancel'[t] = cancel[t] \/ pc'[t] \notin Unwritten
    BY <1>0, <1>1 DEF Unwritten
  <2> QED BY <1>3, <1>4, <1>5, <2>1, <2>2, PlaceKept
<1>7. ASSUME NEW m \in Msgs PROVE AskOf(m)'
  <2>1. AskOf(m) /\ OneAnswer(m)
    BY DEF Places, AskOf
  <2>2. OneAnswer(m)'
    BY <1>1, <2>1, AnswerSame
  <2>3. CASE m = s
    BY <1>0, <1>1, <1>2, <1>4, <2>2, <2>3 DEF AskOf
  <2>4. CASE m # s
    BY <1>0, <1>1, <1>3, <1>4, <2>1, <2>2, <2>4, AskKept
  <2> QED BY <2>3, <2>4
<1>8. LinesOnce'
  <2>1. \A c : Line("command", c) # e
    BY LinesDiffer
  <2> QED BY <1>1, <1>3, <2>1 DEF Places, LinesOnce
<1> QED BY <1>6, <1>7, <1>8 DEF Places

\* Of an answer to a taking back the reader tells the one that asked.
LEMMA ReaderSays ==
    ASSUME Types, Places, Reader
    PROVE  \E type :
               /\ Reads(type) /\ Head(out).type = type
               /\ cancel' # cancel =>
                      /\ type \in Answers /\ Head(out).id \in Msgs
                      /\ cancel[Head(out).id] = "asked" /\ Answered(Head(out).id)
                      /\ cancel' = [cancel EXCEPT ![Head(out).id] =
                                       IF type = "cancelled" THEN "taken" ELSE "done"]
               /\ \A s : GivenBack(s)' => GivenBack(s)
<1>1. PICK type : Reads(type) /\ (cancel' = cancel \/ (OnResponse(type) /\ type \in Answers))
  BY DEF Reader, OnStarted, OnShellEnded, OnCompleted, OnEcho, OnPrinted, OnInit, OnResult,
         OnResponse, Answers
<1>2. /\ \A e : e \in ToSet(out) <=> e \in ToSet(out)' \/ e = Head(out)
      /\ Head(out) \in Events /\ Head(out) = Event(type, Head(out).id) /\ Head(out).type = type
  BY <1>1, OutLess DEF Types, Reads
<1>3. ASSUME cancel' # cancel
      PROVE  /\ type \in Answers /\ Head(out).id \in Msgs
             /\ cancel[Head(out).id] = "asked" /\ Answered(Head(out).id)
             /\ cancel' = [cancel EXCEPT ![Head(out).id] =
                              IF type = "cancelled" THEN "taken" ELSE "done"]
  <2>1. OnResponse(type) /\ type \in Answers
    BY <1>1, <1>3
  <2>2. Head(out).id \in Msgs
    BY <1>2, <2>1, EventOut DEF Answers
  <2>3. Answered(Head(out).id)
    BY <1>2, <2>1 DEF Answered
  <2> QED BY <1>2, <1>3, <2>1, <2>2, <2>3 DEF OnResponse
<1>4. cancel \in [Msgs -> {"none", "asked", "taken", "given up", "done"}]
  BY DEF Types, HolderTypes
<1>5. \A s : GivenBack(s)' => GivenBack(s)
  <2>1. \A s : Event("cancelled", s) \in ToSet(out)' => GivenBack(s)
    BY <1>2 DEF GivenBack
  <2>2. \A s \in Msgs : cancel'[s] = "taken" => GivenBack(s)
    BY <1>2, <1>3, <1>4 DEF GivenBack
  <2> QED BY <2>1, <2>2 DEF GivenBack
<1> QED BY <1>1, <1>2, <1>3, <1>5

LEMMA ReaderPlaces ==
    ASSUME Types, Places, Reader
    PROVE  Places'
<1>0. ClaudeTypes /\ pc' = pc /\ UNCHANGED <<pipe, inbox, turn>>
  BY DEF Types, Reader, OnStarted, OnShellEnded, OnCompleted, OnEcho, OnPrinted, OnInit, OnResult,
         OnResponse, Reads
<1>1. PICK type :
          /\ Reads(type)
          /\ cancel' # cancel =>
                 /\ type \in Answers /\ Head(out).id \in Msgs
                 /\ cancel[Head(out).id] = "asked" /\ Answered(Head(out).id)
                 /\ cancel' = [cancel EXCEPT ![Head(out).id] =
                                  IF type = "cancelled" THEN "taken" ELSE "done"]
          /\ \A s : GivenBack(s)' => GivenBack(s)
  BY ReaderSays
<1>2. /\ \A s : Told(s)' => Told(s)
      /\ \A m : Answered(m)' => Answered(m)
  BY <1>0, <1>1, OutLess
<1>4. cancel \in [Msgs -> {"none", "asked", "taken", "given up", "done"}]
  BY DEF Types, HolderTypes
<1>6. /\ \A s : InPipe(s)' <=> InPipe(s)
      /\ \A s : Asking(s)' <=> Asking(s)
      /\ \A s : (InInbox(s)' <=> InInbox(s)) /\ (InTurn(s)' <=> InTurn(s))
  BY <1>0, PipeSame DEF InInbox, InTurn
<1>7. ASSUME NEW s \in Inputs PROVE PlaceOf(s)'
  <2>1. PlaceOf(s)
    BY DEF Places
  <2>2. s \in Msgs => cancel'[s] = cancel[s] \/ pc'[s] \notin Unwritten
    BY <1>0, <1>1, <1>4, <2>1 DEF PlaceOf
  <2> QED BY <1>0, <1>1, <1>2, <1>6, <2>1, <2>2, PlaceKept
<1>8. ASSUME NEW m \in Msgs PROVE AskOf(m)'
  <2>1. AskOf(m) /\ OneAnswer(m)
    BY DEF Places, AskOf
  <2>2. OneAnswer(m)' /\ (type \in Answers /\ Head(out).id = m => ~ Answered(m)')
    BY <1>0, <1>1, <2>1, AnswerLess
  <2>3. CASE cancel'[m] = cancel[m]
    BY <1>2, <1>6, <2>1, <2>2, <2>3, AskKept
  <2>4. CASE cancel'[m] # cancel[m]
    <3>1. Head(out).id = m /\ Answered(m) /\ type \in Answers
      BY <1>1, <1>4, <2>4
    <3>2. ~ Asking(m)' /\ ~ Answered(m)'
      BY <1>6, <2>1, <2>2, <3>1 DEF AskOf
    <3> QED BY <2>2, <3>2 DEF AskOf
  <2> QED BY <2>3, <2>4
<1>9. LinesOnce'
  BY <1>0 DEF Places, LinesOnce
<1> QED BY <1>7, <1>8, <1>9 DEF Places

-----------------------------------------------------------------------------
(* The steps of claude.                                                    *)

LEMMA InboxLess ==
    ASSUME ClaudeTypes, inbox # <<>>, inbox' = Tail(inbox), IsInjective(inbox),
           NEW h, h = Head(inbox)
    PROVE  /\ h \in Inputs /\ InInbox(h) /\ ~ InInbox(h)'
           /\ \A s : InInbox(s)' => InInbox(s)
           /\ IsInjective(inbox)'
<1>1. inbox \in Seq(Inputs)
  BY DEF ClaudeTypes
<1>2. /\ Head(inbox) \in Inputs /\ ToSet(inbox) = {Head(inbox)} \union ToSet(inbox')
      /\ Head(inbox) \notin ToSet(inbox') /\ IsInjective(inbox')
  BY <1>1, Tailed
<1> QED BY <1>2 DEF InInbox

\* Claude answers no request to take a message back.
LEMMA AskAsItWas ==
    ASSUME ClaudeTypes, Places, cancel' = cancel, \A m : Asking(m)' => Asking(m),
           NEW events \in Seq(Events), \A e \in ToSet(events) : e.type \notin Answers,
           out' = out \/ Tells(events)
    PROVE  \A m \in Msgs : AskOf(m)'
<1> TAKE m \in Msgs
<1>1. AskOf(m) /\ OneAnswer(m)
  BY DEF Places, AskOf
<1>2. CASE out' = out
  BY <1>1, <1>2, AnswerSame, OutSame, AskKept
<1>3. CASE Tells(events)
  <2>1. Answered(m)' => Answered(m)
    BY <1>3, OutMore
  <2>2. OneAnswer(m)'
    BY <1>1, <1>3, AnswerMore
  <2> QED BY <1>1, <2>1, <2>2, AskKept
<1> QED BY <1>2, <1>3

\* What claude says of a message it takes up.
LEMMA TakeWords ==
    ASSUME NEW h \in Inputs,
           NEW events \in {<<Event("started", h), Event("echo", h)>>,
                           <<Event("echo", h), Event("started", h)>>,
                           <<Event("started", h), Event("completed", h), Event("result", h)>>}
    PROVE  /\ events \in Seq(Events)
           /\ \A e \in ToSet(events) : e.id = h /\ e.type \in Takes \union {"result"}
           /\ Event("started", h) \in ToSet(events)
<1>1. PICK a \in Events, b \in Events, c \in Events, d \in Events :
          /\ a = Event("started", h) /\ b = Event("echo", h)
          /\ c = Event("completed", h) /\ d = Event("result", h)
  BY EventIn
<1>2. /\ a.id = h /\ a.type \in Takes /\ b.id = h /\ b.type \in Takes
      /\ c.id = h /\ c.type \in Takes /\ d.id = h /\ d.type = "result"
  BY <1>1 DEF Event, Takes
<1>3. /\ <<a, b>> \in Seq(Events) /\ ToSet(<<a, b>>) = {a, b}
      /\ <<b, a>> \in Seq(Events) /\ ToSet(<<b, a>>) = {b, a}
      /\ <<a, c, d>> \in Seq(Events) /\ ToSet(<<a, c, d>>) = {a, c, d}
  <2>1. <<a, b>> \in Seq(Events) /\ ToSet(<<a, b>>) = {a, b}
    BY Short
  <2>2. <<b, a>> \in Seq(Events) /\ ToSet(<<b, a>>) = {b, a}
    BY Short
  <2>3. <<a, c, d>> \in Seq(Events) /\ ToSet(<<a, c, d>>) = {a, c, d}
    BY DEF ToSet
  <2> QED BY <2>1, <2>2, <2>3
<1>4. events = <<a, b>> \/ events = <<b, a>> \/ events = <<a, c, d>>
  BY <1>1
<1> QED BY <1>1, <1>2, <1>3, <1>4

\* A message is taken up: with what it says, and perhaps into the turn.
LEMMA TakeUpPlaces ==
    ASSUME Types, Places, UNCHANGED <<pc, cancel>>, TakeUp
    PROVE  Places'
<1> PICK h : h = Head(inbox)
  OBVIOUS
<1>0. /\ ClaudeTypes /\ inbox # <<>> /\ inbox' = Tail(inbox) /\ pipe' = pipe
      /\ turn \in Seq(Inputs \union {Self})
  BY DEF Types, ClaudeTypes, TakeUp, BeginTurn, RunSlash, Absorb
<1>1. /\ h \in Inputs /\ InInbox(h) /\ ~ InInbox(h)' /\ PlaceOf(h)
      /\ \A s : InInbox(s)' => InInbox(s)
      /\ IsInjective(inbox)'
  BY <1>0, InboxLess DEF Places, LinesOnce
<1>2. PICK events \in Seq(Events) :
          Tells(events) /\ \A e \in ToSet(events) : e.id = h /\ e.type \in Takes \union {"result"}
  <2>5. \/ Tells(<<Event("started", h), Event("echo", h)>>)
        \/ Tells(<<Event("echo", h), Event("started", h)>>)
        \/ Tells(<<Event("started", h), Event("completed", h), Event("result", h)>>)
    BY DEF TakeUp, BeginTurn, RunSlash, Absorb
  <2> QED BY <1>1, <2>5, TakeWords, Zenon
<1>3. \A s : InTurn(s)' => InTurn(s) \/ s = h
  <2>1. BeginTurn => ToSet(turn') = {h}
    BY <1>1, Short DEF BeginTurn
  <2>2. Absorb => ToSet(turn') = ToSet(turn) \union {h}
    BY <1>0, <1>1, Appended DEF Absorb
  <2>3. RunSlash => turn' = turn
    BY DEF RunSlash
  <2> QED BY <2>1, <2>2, <2>3 DEF TakeUp, InTurn
<1>4. /\ \A s : Told(s)' => Told(s) \/ s = h
      /\ \A s : Event("cancelled", s) \in ToSet(out)' => Event("cancelled", s) \in ToSet(out)
  <2>1. \A s : Event("cancelled", s).type \notin Takes \union {"result"}
    BY DEF Event, Takes
  <2>2. \A e : e \in ToSet(out)' <=> e \in ToSet(out) \/ e \in ToSet(events)
    BY <1>0, <1>2, OutMore
  <2> QED BY <1>2, <2>1, <2>2 DEF Told
<1>5. \A s : GivenBack(s)' => GivenBack(s)
  BY <1>4 DEF GivenBack
<1>6. \A s : (InPipe(s)' <=> InPipe(s)) /\ (Asking(s)' <=> Asking(s))
  BY <1>0, PipeSame
<1>7. ASSUME NEW s \in Inputs PROVE PlaceOf(s)'
  <2>1. PlaceOf(s)
    BY DEF Places
  <2>2. CASE s = h
    BY <1>1, <1>5, <1>6, <2>2 DEF PlaceOf, Unknown
  <2>3. CASE s # h
    BY <1>1, <1>3, <1>4, <1>5, <1>6, <2>1, <2>3, PlaceKept
  <2> QED BY <2>2, <2>3
<1>8. \A m \in Msgs : AskOf(m)'
  <2>1. \A e \in ToSet(events) : e.type \notin Answers
    BY <1>2 DEF Takes, Answers
  <2> QED BY <1>0, <1>2, <1>6, <2>1, AskAsItWas
<1>9. LinesOnce'
  BY <1>0, <1>1 DEF Places, LinesOnce
<1> QED BY <1>7, <1>8, <1>9 DEF Places

\* Claude reads a message.
LEMMA ReadMessagePlaces ==
    ASSUME Types, Places, UNCHANGED <<pc, cancel>>, ReadMessage
    PROVE  Places'
<1> PICK h : h = Head(pipe).id
  OBVIOUS
<1>0. /\ ClaudeTypes /\ pipe # <<>> /\ pipe' = Tail(pipe) /\ inbox' = Append(inbox, h)
      /\ inbox \in Seq(Inputs) /\ UNCHANGED <<turn, out>> /\ Head(pipe).kind = "message"
  BY DEF Types, ClaudeTypes, ReadMessage
<1>1. /\ Head(pipe) \in Lines /\ IsInjective(pipe)'
      /\ ToSet(pipe)' \subseteq ToSet(pipe)
      /\ \A s : InPipe(s) <=> InPipe(s)' \/ Head(pipe) = Line("message", s)
      /\ \A s : InPipe(s)' => Head(pipe) # Line("message", s)
      /\ \A m : Asking(m)' => Asking(m)
  BY <1>0, PipeLess DEF Places, LinesOnce
<1>2. h \in Inputs /\ Head(pipe) = Line("message", h)
  BY <1>0, <1>1, LineOut
<1>3. InPipe(h) /\ ~ InPipe(h)' /\ PlaceOf(h) /\ \A s : InPipe(s)' => InPipe(s)
  BY <1>1, <1>2 DEF Places
<1>4. /\ \A s : InInbox(s)' <=> InInbox(s) \/ s = h
      /\ IsInjective(inbox)'
  <2>1. ~ InInbox(h)
    BY <1>3 DEF PlaceOf
  <2> QED BY <1>0, <1>2, <2>1, Appended DEF InInbox, Places, LinesOnce
<1>5. /\ \A s : Told(s)' <=> Told(s)
      /\ \A s : GivenBack(s)' <=> GivenBack(s)
      /\ \A s : InTurn(s)' <=> InTurn(s)
  BY <1>0, OutSame DEF InTurn
<1>6. ASSUME NEW s \in Inputs PROVE PlaceOf(s)'
  <2>1. PlaceOf(s)
    BY DEF Places
  <2>2. CASE s = h
    BY <1>3, <1>5, <2>2 DEF PlaceOf, Unknown
  <2>3. CASE s # h
    BY <1>3, <1>4, <1>5, <2>1, <2>3, PlaceKept
  <2> QED BY <2>2, <2>3
<1>7. \A m \in Msgs : AskOf(m)'
  <2>1. <<>> \in Seq(Events) /\ ToSet(<<>>) = {}
    BY EmptySeq DEF ToSet
  <2> QED BY <1>0, <1>1, <2>1, AskAsItWas
<1>8. LinesOnce'
  BY <1>1, <1>4 DEF Places, LinesOnce
<1> QED BY <1>6, <1>7, <1>8 DEF Places

\* Claude reads a command: it may say it started it and ended it.
LEMMA ReadCommandPlaces ==
    ASSUME Types, Places, UNCHANGED <<pc, cancel>>, ReadCommand
    PROVE  Places'
<1>0. /\ ClaudeTypes /\ pipe # <<>> /\ pipe' = Tail(pipe) /\ UNCHANGED <<inbox, turn>>
      /\ Head(pipe).kind = "command"
  BY DEF Types, ReadCommand
<1>1. /\ Head(pipe) \in Lines /\ IsInjective(pipe)'
      /\ ToSet(pipe)' \subseteq ToSet(pipe)
      /\ \A s : InPipe(s)' => InPipe(s)
      /\ \A m : Asking(m)' => Asking(m)
  BY <1>0, PipeLess DEF Places, LinesOnce
<1>2. PICK c : c = Head(pipe).id
  OBVIOUS
<1>3. c \in Cmds
  BY <1>0, <1>1, <1>2, LineOut
<1>4. PICK events \in Seq(Events) : /\ out' = out \/ Tells(events)
                                    /\ \A e \in ToSet(events) : e.id = c /\ e.type \notin Answers
  <2>1. PICK a \in Events, b \in Events, d \in Events :
            a = Event("started", c) /\ b = Event("completed", c) /\ d = Event("not run", c)
    BY <1>3, EventIn
  <2>2. /\ a.id = c /\ a.type \notin Answers /\ b.id = c /\ b.type \notin Answers
        /\ d.id = c /\ d.type \notin Answers
    BY <2>1 DEF Event, Answers
  <2>3. <<a, b>> \in Seq(Events) /\ ToSet(<<a, b>>) = {a, b}
    BY Short
  <2>4. /\ Append(<<a, b>>, d) \in Seq(Events)
        /\ ToSet(Append(<<a, b>>, d)) = ToSet(<<a, b>>) \union {d}
    <3>1. PICK p : p = <<a, b>>
      OBVIOUS
    <3>2. p \in Seq(Events)
      BY <2>3, <3>1
    <3>3. Append(p, d) \in Seq(Events) /\ ToSet(Append(p, d)) = ToSet(p) \union {d}
      BY <3>2, Appended
    <3> QED BY <3>1, <3>3
  <2>5. \/ out' = out
        \/ Tells(<<a, b>>)
        \/ Tells(Append(<<a, b>>, d))
    BY <1>2, <2>1 DEF ReadCommand
  <2>6. CASE out' = out \/ Tells(<<a, b>>)
    BY <2>2, <2>3, <2>6
  <2>7. CASE Tells(Append(<<a, b>>, d))
    BY <2>2, <2>3, <2>4, <2>7
  <2> QED BY <2>5, <2>6, <2>7
<1>5. \A s \in Inputs : Told(s)' => Told(s)
  <2>1. \A s \in Inputs : s # c
    BY <1>3, IdsAssumption DEF Inputs
  <2> QED BY <1>0, <1>4, <2>1, OutSame, OutMore
<1>6. \A s : GivenBack(s)' => GivenBack(s)
  <2>1. \A s : Event("cancelled", s).type \in Answers
    BY DEF Event, Answers
  <2>2. Tells(events) => \A e : e \in ToSet(out)' <=> e \in ToSet(out) \/ e \in ToSet(events)
    BY <1>0, <1>4, OutMore
  <2>3. \A s : Event("cancelled", s) \in ToSet(out)' => Event("cancelled", s) \in ToSet(out)
    BY <1>4, <2>1, <2>2
  <2> QED BY <2>3 DEF GivenBack
<1>7. ASSUME NEW s \in Inputs PROVE PlaceOf(s)'
  <2>1. PlaceOf(s)
    BY DEF Places
  <2>2. (InInbox(s)' => InInbox(s)) /\ (InTurn(s)' => InTurn(s))
    BY <1>0 DEF InInbox, InTurn
  <2> QED BY <1>1, <1>5, <1>6, <2>1, <2>2, PlaceKept
<1>8. \A m \in Msgs : AskOf(m)'
  BY <1>0, <1>1, <1>4, AskAsItWas
<1>9. LinesOnce'
  BY <1>0, <1>1 DEF Places, LinesOnce
<1> QED BY <1>7, <1>8, <1>9 DEF Places

\* Claude answers a request to take a message back.
LEMMA ReadCancelPlaces ==
    ASSUME Types, Places, UNCHANGED <<pc, cancel>>, ReadCancel
    PROVE  Places'
<1>0. /\ ClaudeTypes /\ pipe # <<>> /\ pipe' = Tail(pipe) /\ turn' = turn
      /\ Head(pipe).kind = "cancel" /\ inbox \in Seq(Inputs)
  BY DEF Types, ClaudeTypes, ReadCancel
<1>1. /\ Head(pipe) \in Lines /\ IsInjective(pipe)'
      /\ ToSet(pipe)' \subseteq ToSet(pipe)
      /\ \A s : InPipe(s)' => InPipe(s)
      /\ \A m : Asking(m) <=> Asking(m)' \/ Head(pipe) = Line("cancel", m)
      /\ \A m : Asking(m)' => Head(pipe) # Line("cancel", m)
  BY <1>0, PipeLess DEF Places, LinesOnce
<1>2. PICK h : h = Head(pipe).id
  OBVIOUS
<1>3. h \in Msgs /\ h \in Inputs /\ Head(pipe) = Line("cancel", h)
  BY <1>0, <1>1, <1>2, LineOut DEF Inputs, Says
<1>4. AskOf(h) /\ Asking(h) /\ ~ Asking(h)' /\ ~ Answered(h) /\ PlaceOf(h)
  BY <1>1, <1>3 DEF Places, AskOf
<1>5. PICK a \in Events : /\ Tells(<<a>>) /\ a.id = h /\ a.type \in Answers
                          /\ \/ /\ a = Event("cancelled", h) /\ InInbox(h)
                                /\ inbox' = RemoveFirst(inbox, h)
                             \/ a = Event("not cancelled", h) /\ inbox' = inbox
  <2>1. \/ /\ Tells(<<Event("cancelled", h)>>) /\ InInbox(h) /\ inbox' = RemoveFirst(inbox, h)
        \/ Tells(<<Event("not cancelled", h)>>) /\ inbox' = inbox
    BY <1>2 DEF ReadCancel, InInbox
  <2>2. /\ Event("cancelled", h) \in Events /\ Event("not cancelled", h) \in Events
    BY <1>3, EventIn
  <2>3. \A t \in Answers : Event(t, h).id = h /\ Event(t, h).type \in Answers
    BY DEF Event, Answers
  <2> QED BY <2>1, <2>2, <2>3 DEF Answers
<1>6. <<a>> \in Seq(Events) /\ ToSet(<<a>>) = {a} /\ Len(<<a>>) = 1
  BY Short
<1>7. /\ \A e : e \in ToSet(out)' <=> e \in ToSet(out) \/ e = a
      /\ \A s : Told(s)' => Told(s)
      /\ \A m : Answered(m)' <=> Answered(m) \/ m = h
  <2>1. /\ \A e : e \in ToSet(out)' <=> e \in ToSet(out) \/ e \in ToSet(<<a>>)
        /\ \A s : Told(s)' <=> Told(s) \/ \E e \in ToSet(<<a>>) : e.id = s /\ e.type \in Takes
        /\ \A m : Answered(m)' <=> \/ Answered(m)
                                   \/ \E e \in ToSet(<<a>>) : e.id = m /\ e.type \in Answers
    BY <1>0, <1>5, <1>6, OutMore
  <2>2. a.id = h /\ a.type \in Answers /\ a.type \notin Takes
    BY <1>5 DEF Answers, Takes
  <2> QED BY <1>6, <2>1, <2>2
<1>8. /\ \A s : InInbox(s)' => InInbox(s)
      /\ a = Event("cancelled", h) => InInbox(h) /\ ~ InInbox(h)'
      /\ IsInjective(inbox)'
  <2>1. /\ ToSet(RemoveFirst(inbox, h)) \subseteq ToSet(inbox)
        /\ IsInjective(RemoveFirst(inbox, h)) /\ h \notin ToSet(RemoveFirst(inbox, h))
    BY <1>0, RemovedFirst DEF Places, LinesOnce
  <2>2. Event("cancelled", h) # Event("not cancelled", h) /\ IsInjective(inbox)
    BY DEF Event, Places, LinesOnce
  <2> QED BY <1>5, <2>1, <2>2 DEF InInbox
<1>9. \A s : GivenBack(s)' => GivenBack(s) \/ (s = h /\ a = Event("cancelled", h))
  <2>1. \A s : a = Event("cancelled", s) => s = h
    <3>1. a.id = h /\ \A s : Event("cancelled", s).id = s
      BY <1>5 DEF Event
    <3> QED BY <3>1
  <2> QED BY <1>7, <2>1 DEF GivenBack
<1>10. ASSUME NEW s \in Inputs PROVE PlaceOf(s)'
  <2>1. PlaceOf(s) /\ (InTurn(s)' <=> InTurn(s))
    BY <1>0 DEF Places, InTurn
  <2>2. CASE GivenBack(s)' => GivenBack(s)
    BY <1>1, <1>7, <1>8, <2>1, <2>2, PlaceKept
  <2>3. CASE s = h /\ a = Event("cancelled", h)
    BY <1>1, <1>4, <1>7, <1>8, <2>1, <2>3 DEF PlaceOf, Unknown
  <2> QED BY <1>9, <2>2, <2>3
<1>11. ASSUME NEW m \in Msgs PROVE AskOf(m)'
  <2>1. AskOf(m) /\ OneAnswer(m)
    BY DEF Places, AskOf
  <2>2. OneAnswer(m)'
    <3>1. m = h \/ \A e \in ToSet(<<a>>) : ~ (e.id = m /\ e.type \in Answers)
      BY <1>5, <1>6
    <3> QED BY <1>0, <1>4, <1>5, <1>6, <2>1, <3>1, AnswerMore
  <2>3. CASE m = h
    BY <1>4, <2>2, <2>3 DEF AskOf
  <2>4. CASE m # h
    BY <1>1, <1>7, <2>1, <2>2, <2>4, AskKept
  <2> QED BY <2>3, <2>4
<1>12. LinesOnce'
  BY <1>1, <1>8 DEF Places, LinesOnce
<1> QED BY <1>10, <1>11, <1>12 DEF Places

\* A turn of claude's own begins, a turn ends, a command ends, claude is gone.
LEMMA TurnPlaces ==
    ASSUME Types, Places, UNCHANGED <<pc, cancel>>, BeginOwnTurn \/ EndTurn \/ CommandEnds
    PROVE  Places'
<1>0. /\ ClaudeTypes /\ pipe' = pipe /\ inbox' = inbox
      /\ turn \in Seq(Inputs \union {Self}) /\ running \in Seq(Cmds)
  BY DEF Types, ClaudeTypes, BeginOwnTurn, EndTurn, CommandEnds
<1>1. PICK events \in Seq(Events) :
          /\ Tells(events)
          /\ \A e \in ToSet(events) : /\ e.type \notin Answers
                                      /\ e.type \in Takes /\ e.id \in Inputs => InTurn(e.id)
  <2>1. CASE BeginOwnTurn
    <3>1. PICK a \in Events : a = Event("init", Self)
      BY EventIn
    <3>2. a.type \notin Answers /\ a.type \notin Takes
      BY <3>1 DEF Event, Answers, Takes
    <3>3. <<a>> \in Seq(Events) /\ ToSet(<<a>>) = {a} /\ Tells(<<a>>)
      BY <2>1, <3>1, Short DEF BeginOwnTurn
    <3> QED BY <3>2, <3>3
  <2>2. CASE EndTurn
    <3>1. Tells(EndWords) /\ turn # <<>>
      BY <2>2 DEF EndTurn, EndWords, Ended
    <3>2. EndWords \in Seq(Events) /\ \A e \in ToSet(EndWords) :
              e.type = "result" \/ (e.type = "completed" /\ e.id \in ToSet(turn))
      BY <1>0, <3>1, EndWordsAre
    <3>3. "result" \notin Answers \union Takes /\ "completed" \notin Answers
      BY DEF Answers, Takes
    <3> QED BY <3>1, <3>2, <3>3 DEF InTurn
  <2>3. CASE CommandEnds
    <3>1. PICK c : c = Head(running)
      OBVIOUS
    <3>2. c \in Cmds /\ c \notin Inputs
      BY <1>0, <2>3, <3>1, Tailed, IdsAssumption DEF CommandEnds, Inputs
    <3>3. PICK a \in Events, b \in Events : a = Event("printed", c) /\ b = Event("completed", c)
      BY <3>2, EventIn
    <3>4. a.id = c /\ b.id = c /\ a.type \notin Answers /\ b.type \notin Answers
      BY <3>3 DEF Event, Answers
    <3>5. <<a>> \in Seq(Events) /\ ToSet(<<a>>) = {a}
      BY Short
    <3>6. <<a, b>> \in Seq(Events) /\ ToSet(<<a, b>>) = {a, b}
      BY Short
    <3>7. Tells(<<a>>) \/ Tells(<<a, b>>)
      BY <2>3, <3>1, <3>3 DEF CommandEnds
    <3>8. CASE Tells(<<a>>)
      BY <3>2, <3>4, <3>5, <3>8
    <3>9. CASE Tells(<<a, b>>)
      BY <3>2, <3>4, <3>6, <3>9
    <3> QED BY <3>7, <3>8, <3>9
  <2> QED BY <2>1, <2>2, <2>3
<1>2. /\ \A e : e \in ToSet(out)' <=> e \in ToSet(out) \/ e \in ToSet(events)
      /\ \A s : Told(s)' <=> Told(s) \/ \E e \in ToSet(events) : e.id = s /\ e.type \in Takes
  BY <1>0, <1>1, OutMore
<1>3. \A s \in Inputs : Told(s)' => Told(s) \/ InTurn(s)
  BY <1>1, <1>2
<1>4. \A s : GivenBack(s)' => GivenBack(s)
  <2>1. \A s : Event("cancelled", s).type \in Answers
    BY DEF Event, Answers
  <2> QED BY <1>1, <1>2, <2>1 DEF GivenBack
<1>5. \A s \in Inputs : InTurn(s)' => InTurn(s)
  <2>1. CASE BeginOwnTurn
    <3>1. ToSet(turn') = {Self}
      BY <2>1, Short DEF BeginOwnTurn
    <3> QED BY <3>1, IdsAssumption DEF InTurn
  <2>2. CASE EndTurn
    <3>1. ToSet(turn') = {}
      BY <2>2 DEF EndTurn, ToSet
    <3> QED BY <3>1 DEF InTurn
  <2>3. CASE CommandEnds
    BY <2>3 DEF CommandEnds, InTurn
  <2> QED BY <2>1, <2>2, <2>3
<1>6. \A s : (InPipe(s)' <=> InPipe(s)) /\ (Asking(s)' <=> Asking(s)) /\ (InInbox(s)' <=> InInbox(s))
  BY <1>0, PipeSame DEF InInbox
<1>7. ASSUME NEW s \in Inputs PROVE PlaceOf(s)'
  <2>1. PlaceOf(s)
    BY DEF Places
  <2>2. Told(s)' => Told(s) \/ InTurn(s)
    BY <1>3
  <2>3. InTurn(s)' => InTurn(s)
    BY <1>5
  <2> QED BY <1>4, <1>6, <2>1, <2>2, <2>3 DEF PlaceOf, Unknown
<1>8. \A m \in Msgs : AskOf(m)'
  BY <1>0, <1>1, <1>6, AskAsItWas
<1>9. LinesOnce'
  BY <1>0 DEF Places, LinesOnce
<1> QED BY <1>7, <1>8, <1>9 DEF Places

LEMMA ExitPlaces ==
    ASSUME Types, Places, UNCHANGED <<pc, cancel>>, Exit
    PROVE  Places'
<1>1. /\ ToSet(pipe') = {} /\ ToSet(inbox') = {} /\ ToSet(turn') = {}
      /\ IsInjective(pipe') /\ IsInjective(inbox')
  BY DEF Exit, ToSet, IsInjective
<1>2. PICK n \in 0 .. Len(out) : out' = SubSeq(out, 1, n)
  BY DEF Exit
<1>3. /\ out \in Seq(Events) /\ Len(out) \in Nat
      /\ \A i \in 1 .. Len(out) : out[i] \in ToSet(out) /\ out[i] \in Events
  BY Positions DEF Types, ClaudeTypes
<1>4. /\ out' \in Seq(Events) /\ Len(out') = n
      /\ \A i \in 1 .. n : i \in 1 .. Len(out) /\ out'[i] = out[i]
  <2>1. /\ Len(out') = (IF 1 <= n THEN n - 1 + 1 ELSE 0)
        /\ \A i \in 1 .. n - 1 + 1 : out'[i] = out[1 + i - 1]
    BY <1>2, <1>3, SubSeqProperties
  <2>2. out' \in Seq(Events) /\ Len(out') = n
    BY <1>2, <1>3, Cut
  <2> QED BY <1>2, <1>3, <2>1, <2>2
<1>5. ToSet(out') \subseteq ToSet(out)
  <2>1. \A e \in ToSet(out') : \E i \in 1 .. Len(out') : out'[i] = e
    BY <1>4, Positions
  <2> QED BY <1>3, <1>4, <2>1
<1>6. ASSUME NEW s \in Inputs PROVE PlaceOf(s)'
  <2>1. /\ Told(s)' => Told(s)
        /\ GivenBack(s)' => GivenBack(s)
    BY <1>5 DEF Told, GivenBack
  <2>2. /\ ~ InPipe(s)' /\ ~ InInbox(s)' /\ ~ InTurn(s)'
    BY <1>1 DEF InPipe, InInbox, InTurn
  <2>3. PlaceOf(s)
    BY DEF Places
  <2> QED BY <2>1, <2>2, <2>3, PlaceKept
<1>7. ASSUME NEW m \in Msgs PROVE AskOf(m)'
  <2>1. AskOf(m) /\ OneAnswer(m)
    BY DEF Places, AskOf
  <2>2. OneAnswer(m)'
    BY <1>4, <2>1 DEF OneAnswer, IsAnswer
  <2>3. ~ Asking(m)' /\ (Answered(m)' => Answered(m))
    BY <1>1, <1>5 DEF Asking, Answered
  <2> QED BY <2>1, <2>2, <2>3, AskKept
<1>8. LinesOnce'
  BY <1>1 DEF LinesOnce
<1> QED BY <1>6, <1>7, <1>8 DEF Places

LEMMA PlacesInit == Init => Places
<1> SUFFICES ASSUME Init PROVE Places
  OBVIOUS
<1>1. ToSet(pipe) = {} /\ ToSet(inbox) = {} /\ ToSet(turn) = {} /\ ToSet(out) = {} /\ Len(out) = 0
  BY DEF Init, ToSet
<1>2. \A m \in Msgs : cancel[m] = "none"
  BY DEF Init
<1>3. \A s \in Inputs : PlaceOf(s)
  BY <1>1, <1>2 DEF PlaceOf, Unknown, InPipe, InInbox, InTurn, Told, GivenBack
<1>4. \A m \in Msgs : AskOf(m)
  BY <1>1 DEF AskOf, Asking, Answered, OneAnswer
<1>5. LinesOnce
  BY <1>1 DEF Init, LinesOnce, IsInjective
<1> QED BY <1>3, <1>4, <1>5 DEF Places

\* The steps that move no message and tell the holder nothing: a save, the end
\* of a letter's writing, and none.
Aside == Saves \/ \E l \in Letters : Settle(l)
Idle == Aside \/ UNCHANGED vars

LEMMA IdleChanges ==
    ASSUME Types, Idle
    PROVE  /\ UNCHANGED <<queue, busy, shells, accepted, printed, jammed>>
           /\ UNCHANGED <<output, cancel, closed, withdrawn>>
           /\ UNCHANGED <<alive, newer, pipe, inbox, turn, running, out>>
           /\ \A s \in Says \union Cmds : pc'[s] = pc[s]
           /\ \A s \in Inputs \union Cmds : pc'[s] \in Unwritten => pc[s] \in Unwritten
<1>1. CASE Saves
  <2>1. UNCHANGED <<holderState, claude, pc, output, cancel, closed, withdrawn>>
    BY <1>1 DEF Saves, Snapshot, WriteOut
  <2> QED BY <2>1 DEF holderState, claude
<1>2. ASSUME NEW l \in Letters, Settle(l)
      PROVE  /\ UNCHANGED <<queue, busy, shells, accepted, printed, jammed>>
             /\ UNCHANGED <<output, cancel, closed, withdrawn>>
             /\ UNCHANGED <<alive, newer, pipe, inbox, turn, running, out>>
             /\ \A s \in Says \union Cmds : pc'[s] = pc[s]
             /\ \A s \in Inputs \union Cmds : pc'[s] \in Unwritten => pc[s] \in Unwritten
  <2>1. /\ UNCHANGED <<queue, busy, shells, accepted, printed, jammed>>
        /\ UNCHANGED <<output, cancel, closed, withdrawn>>
        /\ UNCHANGED <<alive, newer, pipe, inbox, turn, running, out>>
        /\ pc' = [pc EXCEPT ![l] = "sent"]
    BY <1>2 DEF Settle, Goes, claude
  <2>2. /\ pc \in [Inputs \union Cmds -> Steps]
        /\ l \in Inputs /\ l \notin Says \union Cmds
        /\ Says \union Cmds \subseteq Inputs \union Cmds
    BY IdsAssumption DEF Types, HolderTypes, Inputs
  <2>3. \A s \in Says \union Cmds : pc'[s] = pc[s]
    BY <2>1, <2>2
  <2>4. \A s \in Inputs \union Cmds : pc'[s] \in Unwritten => pc[s] \in Unwritten
    BY <2>1, <2>2 DEF Unwritten
  <2> QED BY <2>1, <2>3, <2>4
<1>3. CASE UNCHANGED vars
  BY <1>3 DEF vars, holderState, holderRest, claude
<1> QED BY <1>1, <1>2, <1>3 DEF Idle, Aside

LEMMA PlacesStep == Types /\ Places /\ [Next]_vars => Places'
<1> SUFFICES ASSUME Types, Places, [Next]_vars PROVE Places'
  OBVIOUS
<1>0. pc \in [Inputs \union Cmds -> Steps]
      /\ cancel \in [Msgs -> {"none", "asked", "taken", "given up", "done"}]
  BY DEF Types, HolderTypes
<1>1. ASSUME NEW s \in Says, Saying(s) PROVE Places'
  <2>1. s \in Inputs
    BY DEF Inputs
  <2>2. CASE Write(s) /\ Writable
    <3>1. /\ pc[s] \in Unwritten /\ pc' = [pc EXCEPT ![s] = "written"]
          /\ pipe' = Append(pipe, Line("message", s)) /\ UNCHANGED <<inbox, turn, out, cancel>>
      BY <2>2 DEF Write, Goes, Unwritten
    <3> QED BY <2>1, <3>1, WritePlaces
  <2>3. CASE List(s) \/ (Write(s) /\ ~ Writable) \/ Unlist(s) \/ Settle(s)
    <3>1. /\ UNCHANGED <<pipe, inbox, turn, out, cancel>>
          /\ \E step : pc' = [pc EXCEPT ![s] = step] /\ (step \in Unwritten => pc[s] \in Unwritten)
      BY <2>3 DEF List, Write, Unlist, Settle, Goes, Unwritten, claude
    <3>2. \A t \in Inputs \union Cmds : pc'[t] \in Unwritten => pc[t] \in Unwritten
      BY <1>0, <3>1
    <3> QED BY <3>1, <3>2, QuietPlaces
  <2> QED BY <1>1, <2>2, <2>3 DEF Saying
<1>2. ASSUME NEW l \in Letters, WriteLetter(l) PROVE Places'
  <2>1. /\ l \in Inputs /\ pc[l] \in Unwritten /\ pc' = [pc EXCEPT ![l] = "written"]
        /\ pipe' = Append(pipe, Line("message", l)) /\ UNCHANGED <<inbox, turn, out, cancel>>
    BY <1>2 DEF WriteLetter, Goes, Unwritten, Inputs
  <2> QED BY <2>1, WritePlaces
<1>3. ASSUME NEW c \in Cmds, Running(c) PROVE Places'
  <2>1. CASE WriteRun(c)
    BY <2>1, WriteRunPlaces
  <2>2. CASE Run(c) \/ DropShell(c)
    <3>1. /\ UNCHANGED <<pipe, inbox, turn, out, cancel>>
          /\ pc' = pc \/ (pc[c] = "idle" /\ pc' = [pc EXCEPT ![c] = "listed"])
      BY <2>2 DEF Run, DropShell, Goes, claude, holderRest
    <3>2. \A t \in Inputs \union Cmds : pc'[t] \in Unwritten => pc[t] \in Unwritten
      BY <1>0, <3>1 DEF Unwritten
    <3> QED BY <3>1, <3>2, QuietPlaces
  <2> QED BY <1>3, <2>1, <2>2 DEF Running
<1>4. ASSUME NEW m \in Msgs, Cancelling(m) PROVE Places'
  <2>1. CASE AskBack(m)
    BY <2>1, AskBackPlaces
  <2>2. CASE GiveUp(m) \/ Unqueue(m)
    <3>1. /\ UNCHANGED <<pipe, inbox, turn, out, pc>>
          /\ \/ cancel[m] = "asked" /\ cancel' = [cancel EXCEPT ![m] = "given up"]
             \/ cancel[m] = "taken" /\ cancel' = [cancel EXCEPT ![m] = "done"]
      BY <2>2 DEF GiveUp, Unqueue, claude
    <3> QED BY <1>0, <3>1, QuietPlaces
  <2> QED BY <1>4, <2>1, <2>2 DEF Cancelling
<1>5. CASE Reader
  BY <1>5, ReaderPlaces
<1>6. CASE Close
  BY <1>6, QuietPlaces DEF Close, claude
<1>7. CASE Claude
  <2>1. UNCHANGED <<pc, cancel>>
    BY <1>7 DEF Claude, holderRest
  <2> QED BY <1>7, <2>1, TakeUpPlaces, ReadMessagePlaces, ReadCommandPlaces, ReadCancelPlaces,
             TurnPlaces, ExitPlaces DEF Claude, ReadLine
<1>8. CASE Idle
  BY <1>8, IdleChanges, QuietPlaces
<1> QED BY <1>1, <1>2, <1>3, <1>4, <1>5, <1>6, <1>7, <1>8 DEF Next, Aside, Idle

-----------------------------------------------------------------------------
(* The queue.                                                              *)

\* take compares texts: what is proved of the queue is for messages that no two
\* of say the same. (With two of one text it is not so: the echo of one that
\* was taken off the queue already takes the other off.)
DistinctTexts == \A s, t \in Inputs : Text(s) = Text(t) => s = t

\* A write fails only where nothing is written any more.
Shut == (\E s \in Says : pc[s] \in {"failing", "failed"}) => ~ Open

IdleIsNotQueued == \A s \in Says : pc[s] = "idle" => s \notin ToSet(queue)

Kept == Open => \A s \in Says : pc[s] = "listed" \/ Unread(s) => s \in ToSet(queue)

\* The messages that may still drop the last of the queue, and those in it that
\* no word of claude's will ever take off it: a drop needs one.
Stuck == {s \in Says : pc[s] \in {"listed", "failing"}}
Dead == {s \in ToSet(queue) : pc[s] \in {"listed", "failing", "failed"}}
Enough == IsFiniteSet(Stuck) /\ Cardinality(Stuck) <= Cardinality(Dead)

QueueInv ==
    /\ IsInjective(queue)
    /\ Shut
    /\ IdleIsNotQueued
    /\ Kept
    /\ Enough
    /\ ~ jammed

\* Only those in the queue can be dead, and they can be counted.
LEMMA FiniteQueue ==
    ASSUME HolderTypes
    PROVE  /\ IsFiniteSet(ToSet(queue)) /\ IsFiniteSet(Dead)
           /\ Cardinality(Dead) \in Nat
<1>1. queue \in Seq(Says)
  BY DEF HolderTypes
<1>2. IsFiniteSet(ToSet(queue))
  <2>1. /\ Len(queue) \in Nat /\ queue \in [1 .. Len(queue) -> Says]
        /\ \A e : e \in ToSet(queue) <=> \E i \in 1 .. Len(queue) : queue[i] = e
    BY <1>1, Positions
  <2>2. queue \in Surjection(1 .. Len(queue), ToSet(queue))
    BY <2>1 DEF Surjection
  <2>3. IsFiniteSet(1 .. Len(queue))
    BY <2>1, FS_Interval
  <2> QED BY <2>2, <2>3, FS_Surjection
<1>3. IsFiniteSet(Dead)
  BY <1>2, FS_Subset DEF Dead
<1> QED BY <1>2, <1>3, FS_CardinalityType

\* A step that sends nothing and lists nothing, and forgets no message but one
\* claude knows of and will not read.
LEMMA QueueKept ==
    ASSUME HolderTypes, QueueInv, HolderTypes',
           \A s \in Says : pc'[s] = pc[s] /\ (Unread(s)' => Unread(s)),
           Open' => Open, jammed' = jammed,
           IsInjective(queue)', ToSet(queue)' \subseteq ToSet(queue),
           \A s \in ToSet(queue) \ ToSet(queue)' : pc[s] \notin Unwritten /\ ~ Unread(s)
    PROVE  QueueInv'
<1>1. Shut' /\ IdleIsNotQueued'
  BY DEF QueueInv, Shut, IdleIsNotQueued
<1>2. Kept'
  <2> SUFFICES ASSUME Open', NEW s \in Says, pc'[s] = "listed" \/ Unread(s)'
               PROVE  s \in ToSet(queue)'
    BY DEF Kept
  <2>1. s \in ToSet(queue) /\ (pc[s] = "listed" \/ Unread(s))
    BY DEF QueueInv, Kept
  <2> QED BY <2>1 DEF Unwritten
<1>3. Enough'
  <2>1. ToSet(queue) \subseteq Says
    BY Positions DEF HolderTypes
  <2>2. Stuck' = Stuck
    BY DEF Stuck
  <2>3. Dead' = Dead
    BY <2>1 DEF Dead, Unwritten
  <2> QED BY <2>2, <2>3 DEF QueueInv, Enough
<1> QED BY <1>1, <1>2, <1>3 DEF QueueInv

\* A step that leaves alone what the invariant is about.
LEMMA QueueSame ==
    ASSUME HolderTypes, QueueInv, HolderTypes', UNCHANGED <<queue, jammed>>,
           \A s \in Says : pc'[s] = pc[s] /\ (Unread(s)' => Unread(s)),
           Open' => Open
    PROVE  QueueInv'
<1>1. IsInjective(queue)' /\ ToSet(queue)' = ToSet(queue)
  BY DEF QueueInv
<1> QED BY <1>1, QueueKept

LEMMA ListQueue ==
    ASSUME Types, Types', QueueInv, NEW s \in Says, List(s)
    PROVE  QueueInv'
<1>0. /\ queue \in Seq(Says) /\ pc \in [Inputs \union Cmds -> Steps] /\ s \in Inputs
      /\ queue' = Append(queue, s) /\ pc' = [pc EXCEPT ![s] = "listed"] /\ pc[s] = "idle"
      /\ UNCHANGED <<pipe, inbox, alive, closed, jammed>>
  BY DEF Types, HolderTypes, Inputs, List, Goes, claude
<1>1. s \notin ToSet(queue)
  BY <1>0 DEF QueueInv, IdleIsNotQueued
<1>2. ToSet(queue)' = ToSet(queue) \union {s} /\ IsInjective(queue)'
  BY <1>0, <1>1, Appended DEF QueueInv
<1>3. /\ pc'[s] = "listed"
      /\ \A t \in Says : t # s => pc'[t] = pc[t]
      /\ \A t \in Says : Unread(t)' <=> Unread(t)
      /\ Open' <=> Open
  BY <1>0 DEF Inputs, Unread, Open
<1>4. Shut' /\ IdleIsNotQueued' /\ Kept'
  <2>1. Shut'
    BY <1>3 DEF QueueInv, Shut
  <2>2. IdleIsNotQueued'
    BY <1>2, <1>3 DEF QueueInv, IdleIsNotQueued
  <2>3. Kept'
    BY <1>2, <1>3 DEF QueueInv, Kept
  <2> QED BY <2>1, <2>2, <2>3
<1>5. Enough'
  <2>1. Stuck' = Stuck \union {s} /\ s \notin Stuck
    BY <1>0, <1>3 DEF Stuck
  <2>2. Dead' = Dead \union {s} /\ s \notin Dead
    <3>1. ToSet(queue) \subseteq Says
      BY <1>0, Positions
    <3> QED BY <1>1, <1>2, <1>3, <3>1 DEF Dead
  <2>3. /\ IsFiniteSet(Stuck') /\ Cardinality(Stuck') = Cardinality(Stuck) + 1
        /\ Cardinality(Stuck) \in Nat
    BY <2>1, FS_AddElement, FS_CardinalityType DEF QueueInv, Enough
  <2>4. Cardinality(Dead') = Cardinality(Dead) + 1 /\ Cardinality(Dead) \in Nat
    BY <2>2, FiniteQueue, FS_AddElement DEF Types
  <2> QED BY <2>3, <2>4 DEF QueueInv, Enough
<1> QED BY <1>0, <1>2, <1>4, <1>5 DEF QueueInv

\* What is written stays listed, and what cannot be written stands in the queue
\* as what may drop its last.
LEMMA WriteQueue ==
    ASSUME Types, Types', QueueInv, NEW s \in Says, Write(s)
    PROVE  QueueInv'
<1>0. /\ pc \in [Inputs \union Cmds -> Steps] /\ s \in Inputs /\ pc[s] = "listed"
      /\ queue \in Seq(Says) /\ UNCHANGED <<queue, jammed, inbox, alive, closed>>
      /\ Writable <=> Open
  BY DEF Types, HolderTypes, Inputs, Write, holderState, Writable, Open
<1>1. /\ ToSet(queue)' = ToSet(queue) /\ ToSet(queue) \subseteq Says
      /\ IsInjective(queue)'
      /\ \A t \in Says : t # s => pc'[t] = pc[t]
      /\ Open' <=> Open
  <2>1. ToSet(queue) \subseteq Says
    BY <1>0, Positions
  <2> QED BY <1>0, <2>1 DEF QueueInv, Write, Goes, Inputs, Open
<1>2. CASE Open
  <2>1. pc'[s] = "written" /\ pipe' = Append(pipe, Line("message", s))
    BY <1>0, <1>2 DEF Write, Goes
  <2>2. s \in ToSet(queue)
    BY <1>0, <1>2 DEF QueueInv, Kept
  <2>3. \A t \in Says : Unread(t)' => Unread(t) \/ t = s
    <3>1. \A t : InPipe(t)' <=> InPipe(t) \/ Line("message", s) = Line("message", t)
      BY <1>0, <2>1, LineIn, PipeMore DEF Types
    <3>2. \A t : Line("message", s) = Line("message", t) => t = s
      BY LinesDiffer
    <3> QED BY <1>0, <3>1, <3>2 DEF Unread, InPipe
  <2>4. Shut' /\ IdleIsNotQueued' /\ Kept'
    <3>1. Shut'
      BY <1>1, <2>1 DEF QueueInv, Shut
    <3>2. IdleIsNotQueued'
      BY <1>1, <2>1 DEF QueueInv, IdleIsNotQueued
    <3>3. Kept'
      BY <1>1, <1>2, <2>1, <2>2, <2>3 DEF QueueInv, Kept
    <3> QED BY <3>1, <3>2, <3>3
  <2>5. Enough'
    <3>1. Stuck' = Stuck \ {s} /\ s \in Stuck
      BY <1>0, <1>1, <2>1 DEF Stuck
    <3>2. Dead' = Dead \ {s} /\ s \in Dead
      BY <1>0, <1>1, <2>1, <2>2 DEF Dead
    <3>3. /\ IsFiniteSet(Stuck') /\ Cardinality(Stuck') = Cardinality(Stuck) - 1
          /\ Cardinality(Stuck) \in Nat
      BY <3>1, FS_RemoveElement, FS_CardinalityType DEF QueueInv, Enough
    <3>4. Cardinality(Dead') = Cardinality(Dead) - 1 /\ Cardinality(Dead) \in Nat
      BY <3>2, FiniteQueue, FS_RemoveElement DEF Types
    <3> QED BY <3>3, <3>4 DEF QueueInv, Enough
  <2> QED BY <1>0, <1>1, <2>4, <2>5 DEF QueueInv
<1>3. CASE ~ Open
  <2>1. pc'[s] = "failing"
    BY <1>0, <1>3 DEF Write, Goes
  <2>2. Shut' /\ Kept'
    BY <1>1, <1>3 DEF Shut, Kept
  <2>3. IdleIsNotQueued'
    BY <1>1, <2>1 DEF QueueInv, IdleIsNotQueued
  <2>4. Stuck' = Stuck /\ Dead' = Dead
    BY <1>0, <1>1, <2>1 DEF Stuck, Dead
  <2> QED BY <1>0, <1>1, <2>2, <2>3, <2>4 DEF QueueInv, Enough
<1> QED BY <1>2, <1>3

\* The last of the queue is dropped: there is one, for the message that failed
\* is counted by one that stands in it.
LEMMA UnlistQueue ==
    ASSUME Types, Types', QueueInv, NEW s \in Says, Unlist(s)
    PROVE  QueueInv'
<1>0. /\ pc \in [Inputs \union Cmds -> Steps] /\ s \in Inputs /\ pc[s] = "failing"
      /\ queue \in Seq(Says) /\ UNCHANGED <<pipe, inbox, alive, closed>>
      /\ pc' = [pc EXCEPT ![s] = "failed"]
  BY DEF Types, HolderTypes, Inputs, Unlist, Goes, claude
<1>1. ~ Open /\ ~ Open'
  BY <1>0 DEF QueueInv, Shut, Open
<1>2. s \in Stuck /\ IsFiniteSet(Stuck) /\ Cardinality(Stuck) \in Nat
      /\ IsFiniteSet(Dead) /\ Cardinality(Dead) \in Nat
  BY <1>0, FiniteQueue, FS_CardinalityType DEF Stuck, QueueInv, Enough, Types
<1>3. /\ IsFiniteSet(Stuck \ {s}) /\ Cardinality(Stuck \ {s}) = Cardinality(Stuck) - 1
      /\ Cardinality(Stuck \ {s}) \in Nat
  BY <1>2, FS_RemoveElement, FS_CardinalityType
<1>4. queue # <<>>
  <2>1. Cardinality(Dead) # 0
    BY <1>2, <1>3 DEF QueueInv, Enough
  <2>2. Dead # {}
    BY <2>1, FS_EmptySet
  <2> QED BY <2>2 DEF Dead, ToSet
<1>5. queue' = Front(queue) /\ jammed' = jammed
  BY <1>4 DEF Unlist
<1>6. PICK x \in Says : ToSet(queue) = ToSet(queue)' \union {x}
  BY <1>0, <1>4, <1>5, Fronted
<1>7. IsInjective(queue)'
  BY <1>0, <1>4, <1>5, Fronted DEF QueueInv
<1>8. /\ ToSet(queue) \subseteq Says
      /\ pc'[s] = "failed" /\ \A t \in Says : t # s => pc'[t] = pc[t]
  BY <1>0, Positions DEF Inputs
<1>9. Shut' /\ Kept' /\ IdleIsNotQueued'
  <2>1. Shut' /\ Kept'
    BY <1>1 DEF Shut, Kept
  <2>2. IdleIsNotQueued'
    BY <1>6, <1>8 DEF QueueInv, IdleIsNotQueued
  <2> QED BY <2>1, <2>2
<1>10. Enough'
  <2>1. Stuck' = Stuck \ {s}
    BY <1>8 DEF Stuck
  <2>2. Dead \subseteq Dead' \union {x}
    BY <1>0, <1>6, <1>8 DEF Dead
  <2>3. IsFiniteSet(Dead') /\ Cardinality(Dead') \in Nat
    <3>1. Dead' \subseteq ToSet(queue) /\ IsFiniteSet(ToSet(queue))
      BY <1>6, FiniteQueue DEF Dead, Types
    <3> QED BY <3>1, FS_Subset, FS_CardinalityType
  <2>4. Cardinality(Dead) <= Cardinality(Dead') + 1
    <3>1. IsFiniteSet(Dead' \union {x}) /\ Cardinality(Dead) <= Cardinality(Dead' \union {x})
      BY <2>2, <2>3, FS_AddElement, FS_Subset
    <3>2. Cardinality(Dead' \union {x}) \in {Cardinality(Dead'), Cardinality(Dead') + 1}
      BY <2>3, FS_AddElement
    <3> QED BY <1>2, <2>3, <3>1, <3>2
  <2> QED BY <1>2, <1>3, <2>1, <2>3, <2>4 DEF QueueInv, Enough
<1> QED BY <1>5, <1>7, <1>9, <1>10 DEF QueueInv

LEMMA SettleQueue ==
    ASSUME Types, Types', QueueInv, NEW s \in Says, Settle(s)
    PROVE  QueueInv'
<1>0. /\ pc \in [Inputs \union Cmds -> Steps] /\ s \in Inputs /\ pc[s] = "written"
      /\ queue \in Seq(Says) /\ UNCHANGED <<queue, jammed, pipe, inbox, alive, closed>>
      /\ pc' = [pc EXCEPT ![s] = "sent"]
  BY DEF Types, HolderTypes, Inputs, Settle, Goes, claude
<1>1. /\ ToSet(queue)' = ToSet(queue) /\ ToSet(queue) \subseteq Says
      /\ IsInjective(queue)'
      /\ pc'[s] = "sent" /\ \A t \in Says : t # s => pc'[t] = pc[t]
      /\ Open' <=> Open
      /\ \A t \in Says : Unread(t)' <=> Unread(t)
  <2>1. ToSet(queue) \subseteq Says
    BY <1>0, Positions
  <2> QED BY <1>0, <2>1 DEF QueueInv, Inputs, Open, Unread
<1>2. Shut'
  BY <1>1 DEF QueueInv, Shut
<1>3. Kept'
  BY <1>1 DEF QueueInv, Kept
<1>4. IdleIsNotQueued'
  BY <1>1 DEF QueueInv, IdleIsNotQueued
<1>5. Stuck' = Stuck /\ Dead' = Dead
  BY <1>0, <1>1 DEF Stuck, Dead
<1> QED BY <1>0, <1>1, <1>2, <1>3, <1>4, <1>5 DEF QueueInv, Enough

\* With the texts distinct, take removes the message of the id and no other.
LEMMA TakenIsIt ==
    ASSUME DistinctTexts, queue \in Seq(Says), NEW id, NEW texts,
           texts = {} \/ (id \in Inputs /\ texts = {Text(id)})
    PROVE  /\ ToSet(Taken(id, texts)) \subseteq ToSet(queue)
           /\ ToSet(queue) \subseteq ToSet(Taken(id, texts)) \union {id}
           /\ IsInjective(queue) => /\ IsInjective(Taken(id, texts))
                                    /\ id \notin ToSet(Taken(id, texts))
<1>1. \A q \in Says : Matches(q, id, texts) <=> q = id
  BY DEF Matches, DistinctTexts, Inputs
<1>2. ToSet(queue) \subseteq Says /\ \A i \in 1 .. Len(queue) : queue[i] \in Says
  BY Positions
<1>3. \/ /\ Taken(id, texts) = queue
         /\ \A q \in ToSet(queue) : ~ Matches(q, id, texts)
      \/ \E i \in 1 .. Len(queue) :
             Matches(queue[i], id, texts) /\ Taken(id, texts) = RemoveAt(queue, i)
  BY TakesOne
<1>4. CASE /\ Taken(id, texts) = queue
           /\ \A q \in ToSet(queue) : ~ Matches(q, id, texts)
  BY <1>1, <1>2, <1>4
<1>5. CASE \E i \in 1 .. Len(queue) :
               Matches(queue[i], id, texts) /\ Taken(id, texts) = RemoveAt(queue, i)
  <2>1. PICK i \in 1 .. Len(queue) : queue[i] = id /\ Taken(id, texts) = RemoveAt(queue, i)
    BY <1>1, <1>2, <1>5
  <2> QED BY <2>1, WithoutOne
<1> QED BY <1>3, <1>4, <1>5

\* What the reading goroutine takes off the queue is the message of the event
\* it reads: claude took that up.
LEMMA ReaderQueue ==
    ASSUME DistinctTexts, Types, Reader
    PROVE  /\ \/ queue' = queue
              \/ /\ out # <<>> /\ Head(out).type \in Takes
                 /\ ToSet(queue)' \subseteq ToSet(queue)
                 /\ ToSet(queue) \subseteq ToSet(queue)' \union {Head(out).id}
                 /\ IsInjective(queue) => IsInjective(queue)'
           /\ IsInjective(queue) /\ out # <<>> /\ Head(out).type \in Takes /\ Head(out).id \in Says
              => Head(out).id \notin ToSet(queue)'
<1>0. queue \in Seq(Says) /\ shells \in Seq(Cmds) /\ ClaudeTypes
  BY DEF Types, HolderTypes
<1>1. CASE OnStarted \/ OnCompleted
  <2>1. queue' = Taken(Head(out).id, {}) /\ out # <<>> /\ Head(out).type \in Takes
    BY <1>1 DEF OnStarted, OnCompleted, Reads, Takes
  <2> QED BY <1>0, <2>1, TakenIsIt
<1>2. CASE OnEcho
  <2>1. /\ queue' = Taken(Head(out).id, {Text(Head(out).id)})
        /\ out # <<>> /\ Head(out).type \in Takes
    BY <1>2 DEF OnEcho, Reads, Takes
  <2>2. Head(out).id \in Inputs
    <3>1. Reads("echo")
      BY <1>2 DEF OnEcho
    <3>2. Head(out) \in Events /\ Head(out).type = "echo"
      BY <1>0, <3>1, ReadTypes
    <3> QED BY <3>2, EventOut
  <2> QED BY <1>0, <2>1, <2>2, TakenIsIt
<1>3. CASE OnShellEnded
  <2>1. Head(out).id \notin Says
    BY <1>0, <1>3, Positions, IdsAssumption DEF OnShellEnded
  <2> QED BY <1>3, <2>1 DEF OnShellEnded
<1>4. CASE \/ \E type \in {"printed", "not run"} : OnPrinted(type)
           \/ OnInit \/ OnResult
           \/ \E type \in {"cancelled", "not cancelled"} : OnResponse(type)
  <2>1. queue' = queue
    BY <1>4 DEF OnPrinted, OnInit, OnResult, OnResponse, holderState
  <2>2. Head(out).type \notin Takes
    BY <1>4 DEF OnPrinted, OnInit, OnResult, OnResponse, Reads, Takes
  <2> QED BY <2>1, <2>2
<1> QED BY <1>1, <1>2, <1>3, <1>4 DEF Reader

\* A message back from claude is taken off the queue.
LEMMA UnqueueQueue ==
    ASSUME Types, NEW m \in Msgs, Unqueue(m)
    PROVE  /\ ToSet(queue)' \subseteq ToSet(queue)
           /\ ToSet(queue) \subseteq ToSet(queue)' \union {m}
           /\ IsInjective(queue) => IsInjective(queue)' /\ m \notin ToSet(queue)'
<1>1. queue \in Seq(Says) /\ queue' = RemoveFirst(queue, m)
  BY DEF Types, HolderTypes, Unqueue
<1> QED BY <1>1, RemovedFirst

LEMMA QueueInit == Init => QueueInv
<1> SUFFICES ASSUME Init PROVE QueueInv
  OBVIOUS
<1>1. ToSet(queue) = {} /\ IsInjective(queue) /\ ~ jammed
  BY DEF Init, ToSet, IsInjective
<1>2. \A s \in Says : pc[s] = "idle"
  BY DEF Init, Inputs
<1>3. \A s : ~ Unread(s)
  BY DEF Init, Unread, ToSet
<1>4. Shut /\ IdleIsNotQueued /\ Kept
  BY <1>1, <1>2, <1>3 DEF Shut, IdleIsNotQueued, Kept
<1>5. Stuck = {} /\ Dead = {}
  BY <1>1, <1>2 DEF Stuck, Dead
<1>6. Enough
  BY <1>5, FS_EmptySet DEF Enough
<1> QED BY <1>1, <1>4, <1>6 DEF QueueInv

\* Claude reads no message nobody wrote.
LEMMA ClaudeUnread ==
    ASSUME ClaudeTypes, IsInjective(pipe), IsInjective(inbox), Claude, NEW s \in Says
    PROVE  Unread(s)' => Unread(s)
<1>1. CASE TakeUp
  <2>1. inbox # <<>> /\ inbox' = Tail(inbox) /\ pipe' = pipe
    BY <1>1 DEF TakeUp, BeginTurn, RunSlash, Absorb
  <2>2. InInbox(s)' => InInbox(s)
    BY <2>1, InboxLess
  <2> QED BY <2>1, <2>2 DEF Unread, InInbox
<1>2. CASE ReadLine
  <2>1. pipe # <<>> /\ pipe' = Tail(pipe)
    BY <1>2 DEF ReadLine, ReadMessage, ReadCommand, ReadCancel
  <2>2. InPipe(s)' => InPipe(s)
    BY <2>1, PipeLess
  <2>3. CASE ReadMessage
    <3>1. PICK h : h = Head(pipe).id
      OBVIOUS
    <3>2. inbox' = Append(inbox, h) /\ Head(pipe).kind = "message"
      BY <2>3, <3>1 DEF ReadMessage
    <3>3. Head(pipe) \in Lines /\ (Head(pipe) = Line("message", s) => InPipe(s))
      BY <2>1, PipeLess
    <3>4. h \in Inputs /\ Head(pipe) = Line("message", h)
      BY <3>1, <3>2, <3>3, LineOut
    <3>5. ToSet(inbox') = ToSet(inbox) \union {h}
      BY <3>2, <3>4, Appended DEF ClaudeTypes
    <3> QED BY <2>2, <3>3, <3>4, <3>5 DEF Unread, InPipe
  <2>4. CASE ReadCommand
    BY <2>2, <2>4 DEF ReadCommand, Unread, InPipe
  <2>5. CASE ReadCancel
    <3>1. PICK h : h = Head(pipe).id
      OBVIOUS
    <3>2. inbox' = RemoveFirst(inbox, h) \/ inbox' = inbox
      BY <2>5, <3>1 DEF ReadCancel
    <3>3. ToSet(inbox') \subseteq ToSet(inbox)
      BY <3>2, RemovedFirst DEF ClaudeTypes
    <3> QED BY <2>2, <3>3 DEF Unread, InPipe
  <2> QED BY <1>2, <2>3, <2>4, <2>5 DEF ReadLine
<1>3. CASE BeginOwnTurn \/ EndTurn \/ CommandEnds
  <2>1. pipe' = pipe /\ inbox' = inbox
    BY <1>3 DEF BeginOwnTurn, EndTurn, CommandEnds
  <2> QED BY <2>1 DEF Unread
<1>4. CASE Exit
  <2>1. ToSet(pipe') = {} /\ ToSet(inbox') = {}
    BY <1>4 DEF Exit, ToSet
  <2> QED BY <2>1 DEF Unread
<1> QED BY <1>1, <1>2, <1>3, <1>4 DEF Claude

LEMMA QueueStep ==
    ASSUME DistinctTexts, Types, Places, QueueInv, Types', [Next]_vars
    PROVE  QueueInv'
<1>0. /\ pc \in [Inputs \union Cmds -> Steps]
      /\ HolderTypes /\ HolderTypes' /\ ClaudeTypes
      /\ ToSet(queue) \subseteq Says
      /\ \A s \in Says : s \in Inputs /\ s \notin Letters /\ s \notin Cmds
  BY Positions, IdsAssumption DEF Types, HolderTypes, Inputs
<1>1. ASSUME NEW s \in Says, Saying(s) PROVE QueueInv'
  BY <1>1, ListQueue, WriteQueue, UnlistQueue, SettleQueue DEF Saying
<1>2. ASSUME NEW l \in Letters, WriteLetter(l) PROVE QueueInv'
  <2>1. /\ UNCHANGED <<queue, jammed, inbox, alive, closed>>
        /\ pipe' = Append(pipe, Line("message", l)) /\ pc' = [pc EXCEPT ![l] = "written"]
    BY <1>2 DEF WriteLetter, holderState, Goes
  <2>2. ASSUME NEW s \in Says PROVE pc'[s] = pc[s] /\ (Unread(s)' => Unread(s))
    <3>1. s # l /\ Line("message", l) \in Lines
      BY <1>0, LineIn DEF Inputs
    <3>2. InPipe(s)' => InPipe(s)
      BY <1>0, <2>1, <3>1, PipeMore, LinesDiffer
    <3> QED BY <1>0, <2>1, <3>1, <3>2 DEF Unread, InPipe
  <2> QED BY <1>0, <2>1, <2>2, QueueSame DEF Open
<1>3. ASSUME NEW c \in Cmds, Running(c) PROVE QueueInv'
  <2>1. /\ UNCHANGED <<queue, jammed, inbox, alive, closed>>
        /\ pipe' = pipe \/ pipe' = Append(pipe, Line("command", c))
        /\ pc' = pc \/ \E step : pc' = [pc EXCEPT ![c] = step]
    BY <1>3 DEF Running, Run, WriteRun, DropShell, holderState, holderRest, claude, Goes
  <2>2. ASSUME NEW s \in Says PROVE pc'[s] = pc[s] /\ (Unread(s)' => Unread(s))
    <3>1. s # c /\ Line("command", c) \in Lines
      BY <1>0, LineIn
    <3>2. InPipe(s)' => InPipe(s)
      BY <1>0, <2>1, <3>1, PipeMore, PipeSame, LinesDiffer
    <3> QED BY <1>0, <2>1, <3>1, <3>2 DEF Unread, InPipe
  <2> QED BY <1>0, <2>1, <2>2, QueueSame DEF Open
<1>4. ASSUME NEW m \in Msgs, Cancelling(m) PROVE QueueInv'
  <2>1. CASE AskBack(m)
    <3>1. /\ UNCHANGED <<queue, jammed, inbox, alive, closed, pc>>
          /\ pipe' = Append(pipe, Line("cancel", m))
      BY <2>1 DEF AskBack, holderState
    <3>2. \A s : InPipe(s)' => InPipe(s)
      BY <1>0, <3>1, LineIn, PipeMore, LinesDiffer
    <3>3. \A s \in Says : pc'[s] = pc[s] /\ (Unread(s)' => Unread(s))
      BY <3>1, <3>2 DEF Unread, InPipe
    <3> QED BY <1>0, <3>1, <3>3, QueueSame DEF Open
  <2>2. CASE GiveUp(m)
    <3>1. UNCHANGED <<queue, jammed, inbox, alive, closed, pc, pipe>>
      BY <2>2 DEF GiveUp, holderState, claude
    <3>2. \A s \in Says : pc'[s] = pc[s] /\ (Unread(s)' => Unread(s))
      BY <3>1 DEF Unread
    <3> QED BY <1>0, <3>1, <3>2, QueueSame DEF Open
  <2>3. CASE Unqueue(m)
    <3>1. UNCHANGED <<jammed, inbox, alive, closed, pc, pipe>> /\ cancel[m] = "taken"
      BY <2>3 DEF Unqueue, claude
    <3>2. \A s \in Says : pc'[s] = pc[s] /\ (Unread(s)' => Unread(s))
      BY <3>1 DEF Unread
    <3>3. PlaceOf(m) /\ GivenBack(m)
      BY <3>1 DEF Places, Inputs, Says, GivenBack
    <3>4. pc[m] \notin Unwritten /\ ~ Unread(m)
      BY <3>3 DEF PlaceOf, Unknown, Unread, InPipe, InInbox
    <3>5. /\ IsInjective(queue)' /\ ToSet(queue)' \subseteq ToSet(queue)
          /\ \A s \in ToSet(queue) \ ToSet(queue)' : pc[s] \notin Unwritten /\ ~ Unread(s)
      BY <2>3, <3>4, UnqueueQueue DEF QueueInv
    <3> QED BY <1>0, <3>1, <3>2, <3>5, QueueKept DEF Open
  <2> QED BY <1>4, <2>1, <2>2, <2>3 DEF Cancelling
<1>5. CASE Reader
  <2>1. UNCHANGED <<jammed, inbox, alive, closed, pc, pipe>>
    BY <1>5 DEF Reader, OnStarted, OnShellEnded, OnCompleted, OnEcho, OnPrinted, OnInit, OnResult,
                OnResponse, Reads, holderState
  <2>2. \A s \in Says : pc'[s] = pc[s] /\ (Unread(s)' => Unread(s))
    BY <2>1 DEF Unread
  <2>3. CASE queue' = queue
    BY <1>0, <2>1, <2>2, <2>3, QueueSame DEF Open
  <2>4. CASE queue' # queue
    <3>1. /\ out # <<>> /\ Head(out).type \in Takes
          /\ ToSet(queue)' \subseteq ToSet(queue)
          /\ ToSet(queue) \subseteq ToSet(queue)' \union {Head(out).id}
          /\ IsInjective(queue)'
      BY <1>5, <2>4, ReaderQueue DEF QueueInv
    <3>2. PICK h : h = Head(out).id
      OBVIOUS
    <3>3. Told(h)
      <4>1. Head(out) \in ToSet(out)
        BY <1>0, <3>1, Tailed DEF ClaudeTypes
      <4> QED BY <3>1, <3>2, <4>1 DEF Told
    <3>4. ASSUME h \in Says PROVE pc[h] \notin Unwritten /\ ~ Unread(h)
      <4>1. PlaceOf(h)
        BY <1>0, <3>4 DEF Places
      <4> QED BY <3>3, <4>1 DEF PlaceOf, Unknown, Unread, InPipe, InInbox
    <3>5. \A s \in ToSet(queue) \ ToSet(queue)' : pc[s] \notin Unwritten /\ ~ Unread(s)
      BY <1>0, <3>1, <3>2, <3>4
    <3> QED BY <1>0, <2>1, <2>2, <3>1, <3>5, QueueKept DEF Open
  <2> QED BY <2>3, <2>4
<1>6. CASE Close
  <2>1. UNCHANGED <<queue, jammed, inbox, alive, pc, pipe>> /\ ~ closed
    BY <1>6 DEF Close, holderState, claude
  <2>2. \A s \in Says : pc'[s] = pc[s] /\ (Unread(s)' => Unread(s))
    BY <2>1 DEF Unread
  <2> QED BY <1>0, <2>1, <2>2, QueueSame DEF Open
<1>7. CASE Claude
  <2>1. UNCHANGED <<queue, jammed, closed, pc>> /\ (alive' => alive)
    BY <1>7, OnceShut DEF Claude, holderState, holderRest
  <2>2. \A s \in Says : Unread(s)' => Unread(s)
    BY <1>0, <1>7, ClaudeUnread DEF Places, LinesOnce
  <2> QED BY <1>0, <2>1, <2>2, QueueSame DEF Open
<1>8. CASE Idle
  <2>1. /\ UNCHANGED <<queue, jammed, inbox, alive, closed, pipe>>
        /\ \A s \in Says : pc'[s] = pc[s]
    BY <1>8, IdleChanges
  <2>2. \A s \in Says : pc'[s] = pc[s] /\ (Unread(s)' => Unread(s))
    BY <2>1 DEF Unread
  <2> QED BY <1>0, <2>1, <2>2, QueueSame DEF Open
<1> QED BY <1>1, <1>2, <1>3, <1>4, <1>5, <1>6, <1>7, <1>8 DEF Next, Aside, Idle

\* A message claude has not read is in the queue, for any messages, commands
\* and letters, whoever sends, takes back or passes on another one meanwhile.
THEOREM NothingUnreadIsForgotten ==
    ASSUME DistinctTexts
    PROVE  Spec => []UnreadIsQueued
<1>1. Init => Types /\ Places /\ QueueInv
  BY TypesInit, PlacesInit, QueueInit
<1>2. Types /\ Places /\ QueueInv /\ [Next]_vars => (Types /\ Places /\ QueueInv)'
  BY TypesStep, PlacesStep, QueueStep
<1>3. QueueInv => UnreadIsQueued
  BY DEF QueueInv, Kept, UnreadIsQueued
<1> QED BY <1>1, <1>2, <1>3, PTL DEF Spec

\* No goroutine falls with h.mu held, however many messages are sent at once:
\* a message whose write failed always finds one to drop.
THEOREM NothingDropsFromEmpty ==
    ASSUME DistinctTexts
    PROVE  Spec => []SessionGoesOn
<1>1. Init => Types /\ Places /\ QueueInv
  BY TypesInit, PlacesInit, QueueInit
<1>2. Types /\ Places /\ QueueInv /\ [Next]_vars => (Types /\ Places /\ QueueInv)'
  BY TypesStep, PlacesStep, QueueStep
<1>3. QueueInv => SessionGoesOn
  BY DEF QueueInv, SessionGoesOn
<1> QED BY <1>1, <1>2, <1>3, PTL DEF Spec

-----------------------------------------------------------------------------
(* What stays in the queue is pending.                                     *)

\* What is closed or fallen stays so.
LEMMA OpenStays == [Next]_vars /\ Open' => Open
<1> SUFFICES ASSUME [Next]_vars, Open' PROVE Open
  OBVIOUS
<1>1. CASE Claude
  <2>1. closed' = closed
    BY <1>1 DEF Claude, holderRest
  <2> QED BY <1>1, <2>1, OnceShut DEF Open
<1>2. CASE Close
  BY <1>2 DEF Close, Open
<1>3. CASE UNCHANGED <<alive, closed>>
  BY <1>3 DEF Open
<1>4. CASE Reader
  BY <1>3, <1>4 DEF Reader, OnStarted, OnShellEnded, OnCompleted, OnEcho, OnPrinted, OnInit,
                    OnResult, OnResponse, Reads
<1>5. ASSUME NEW s \in Says, Saying(s) PROVE Open
  BY <1>3, <1>5 DEF Saying, List, Write, Unlist, Settle, claude
<1>6. ASSUME NEW l \in Letters, WriteLetter(l) PROVE Open
  BY <1>3, <1>6 DEF WriteLetter
<1>7. ASSUME NEW c \in Cmds, Running(c) PROVE Open
  BY <1>3, <1>7 DEF Running, Run, WriteRun, DropShell, claude, holderRest
<1>8. ASSUME NEW m \in Msgs, Cancelling(m) PROVE Open
  BY <1>3, <1>8 DEF Cancelling, AskBack, GiveUp, Unqueue, claude
<1>9. CASE Idle
  BY <1>3, <1>9 DEF Idle, Aside, Saves, Snapshot, WriteOut, Settle, vars, holderRest, claude
<1> QED BY <1>1, <1>2, <1>4, <1>5, <1>6, <1>7, <1>8, <1>9 DEF Next, Aside, Idle

\* Word of a message, by where it stands.
Pending(s) == pc[s] = "listed" \/ InPipe(s) \/ InInbox(s) \/ Told(s) \/ GivenBack(s) \/ GivenUp(s)

\* Pending says the property, with the word of a message split by what it is.
LEMMA PendingIs ==
    ASSUME ClaudeTypes, NEW s \in Says
    PROVE  Pending(s) <=> (pc[s] = "listed" \/ Unread(s) \/ WordOf(s) \/ GivenUp(s))
<1>1. \A e \in ToSet(out) : e \in Events
  BY Positions DEF ClaudeTypes
<1>2. \A e \in ToSet(out) : e.id = s /\ e.type = "cancelled" <=> e = Event("cancelled", s)
  <2> TAKE e \in ToSet(out)
  <2>1. e = Event(e.type, e.id)
    BY <1>1, EventOut
  <2>2. Event("cancelled", s).type = "cancelled" /\ Event("cancelled", s).id = s
    BY DEF Event
  <2> QED BY <2>1, <2>2
<1>3. s \in Msgs \/ Event("cancelled", s) \notin ToSet(out)
  <2>1. Event("cancelled", s).type = "cancelled" /\ Event("cancelled", s).id = s
    BY DEF Event
  <2> QED BY <1>1, <2>1, EventOut
<1>4. WordOf(s) <=> Told(s) \/ GivenBack(s)
  BY <1>2 DEF WordOf, Told, GivenBack, Takes
<1> QED BY <1>4 DEF Pending, Unread, InPipe, InInbox

\* What claude writes as it takes a message up.
LEMMA TakeUpSays ==
    ASSUME ClaudeTypes, TakeUp, NEW h, h = Head(inbox)
    PROVE  /\ inbox # <<>> /\ inbox' = Tail(inbox) /\ pipe' = pipe /\ h \in Inputs
           /\ \E events \in Seq(Events) :
                  /\ Tells(events) /\ Event("started", h) \in ToSet(events)
                  /\ \A e \in ToSet(events) : e.id = h /\ e.type \in Takes \union {"result"}
<1>1. inbox # <<>> /\ inbox' = Tail(inbox) /\ pipe' = pipe
  BY DEF TakeUp, BeginTurn, RunSlash, Absorb
<1>2. h \in Inputs
  BY <1>1, Tailed DEF ClaudeTypes
<1>3. \/ Tells(<<Event("started", h), Event("echo", h)>>)
      \/ Tells(<<Event("echo", h), Event("started", h)>>)
      \/ Tells(<<Event("started", h), Event("completed", h), Event("result", h)>>)
  BY DEF TakeUp, BeginTurn, RunSlash, Absorb
<1> QED BY <1>1, <1>2, <1>3, TakeWords, Zenon

\* What it writes as it reads a line, or as a command ends: of a command, or the
\* answer to who takes a message back.
LEMMA LineSays ==
    ASSUME ClaudeTypes, ReadLine \/ CommandEnds
    PROVE  \E events \in Seq(Events) :
               /\ Tells(events) \/ out' = out
               /\ \A e \in ToSet(events) :
                      \/ e.id \in Cmds
                      \/ /\ e.id \in Msgs /\ e.type \in Answers
                         /\ e.type = "cancelled" => InInbox(e.id)
<1>1. CASE ReadMessage
  <2>1. <<>> \in Seq(Events) /\ ToSet(<<>>) = {}
    BY EmptySeq DEF ToSet
  <2>2. out' = out
    BY <1>1 DEF ReadMessage
  <2> QED BY <2>1, <2>2
<1>2. CASE ReadCommand
  <2>1. PICK c : c = Head(pipe).id
    OBVIOUS
  <2>2. c \in Cmds
    <3>1. Head(pipe) \in Lines /\ Head(pipe).kind = "command"
      BY <1>2, Tailed DEF ReadCommand, ClaudeTypes
    <3> QED BY <2>1, <3>1, LineOut
  <2>3. PICK a \in Events, b \in Events, d \in Events :
            a = Event("started", c) /\ b = Event("completed", c) /\ d = Event("not run", c)
    BY <2>2, EventIn
  <2>4. a.id = c /\ b.id = c /\ d.id = c
    BY <2>3 DEF Event
  <2>5. <<a, b>> \in Seq(Events) /\ ToSet(<<a, b>>) = {a, b}
    BY Short
  <2>6. PICK p : p = <<a, b>>
    OBVIOUS
  <2>7. p \in Seq(Events)
    BY <2>5, <2>6
  <2>8. Append(p, d) \in Seq(Events) /\ ToSet(Append(p, d)) = ToSet(p) \union {d}
    BY <2>7, Appended
  <2>9. out' = out \/ Tells(p) \/ Tells(Append(p, d))
    BY <1>2, <2>1, <2>3, <2>6 DEF ReadCommand
  <2>10. CASE out' = out \/ Tells(p)
    BY <2>2, <2>4, <2>5, <2>6, <2>7, <2>10
  <2>11. CASE Tells(Append(p, d))
    BY <2>2, <2>4, <2>5, <2>6, <2>8, <2>11
  <2> QED BY <2>9, <2>10, <2>11
<1>3. CASE ReadCancel
  <2>1. PICK m : m = Head(pipe).id
    OBVIOUS
  <2>2. m \in Msgs
    <3>1. Head(pipe) \in Lines /\ Head(pipe).kind = "cancel"
      BY <1>3, Tailed DEF ReadCancel, ClaudeTypes
    <3> QED BY <2>1, <3>1, LineOut
  <2>3. PICK a \in Events, b \in Events : a = Event("cancelled", m) /\ b = Event("not cancelled", m)
    BY <2>2, EventIn
  <2>4. /\ a.id = m /\ a.type \in Answers
        /\ b.id = m /\ b.type \in Answers /\ b.type # "cancelled"
    BY <2>3 DEF Event, Answers
  <2>5. <<a>> \in Seq(Events) /\ ToSet(<<a>>) = {a}
    BY Short
  <2>6. <<b>> \in Seq(Events) /\ ToSet(<<b>>) = {b}
    BY Short
  <2>7. (Tells(<<a>>) /\ InInbox(m)) \/ Tells(<<b>>)
    BY <1>3, <2>1, <2>3 DEF ReadCancel, InInbox
  <2> QED BY <2>2, <2>4, <2>5, <2>6, <2>7
<1>4. CASE CommandEnds
  <2>1. PICK c : c = Head(running)
    OBVIOUS
  <2>2. c \in Cmds
    BY <1>4, <2>1, Tailed DEF CommandEnds, ClaudeTypes
  <2>3. PICK a \in Events, b \in Events : a = Event("printed", c) /\ b = Event("completed", c)
    BY <2>2, EventIn
  <2>4. a.id = c /\ b.id = c
    BY <2>3 DEF Event
  <2>5. <<a>> \in Seq(Events) /\ ToSet(<<a>>) = {a}
    BY Short
  <2>6. <<a, b>> \in Seq(Events) /\ ToSet(<<a, b>>) = {a, b}
    BY Short
  <2>7. Tells(<<a>>) \/ Tells(<<a, b>>)
    BY <1>4, <2>1, <2>3 DEF CommandEnds
  <2> QED BY <2>2, <2>4, <2>5, <2>6, <2>7
<1> QED BY <1>1, <1>2, <1>3, <1>4 DEF ReadLine

\* So it is about no message taken up, and no end of a turn.
LEMMA OtherSays ==
    ASSUME ClaudeTypes, ReadLine \/ BeginOwnTurn \/ CommandEnds
    PROVE  \E events \in Seq(Events) :
               /\ Tells(events) \/ out' = out
               /\ \A e \in ToSet(events) :
                      e.type # "result" /\ (e.type \in Takes => e.id \notin Inputs)
<1>1. CASE ReadLine \/ CommandEnds
  <2>1. PICK events \in Seq(Events) :
            /\ Tells(events) \/ out' = out
            /\ \A e \in ToSet(events) : e.id \in Cmds \/ e.type \in Answers
    BY <1>1, LineSays
  <2>2. ASSUME NEW e \in ToSet(events)
        PROVE  e.type # "result" /\ (e.type \in Takes => e.id \notin Inputs)
    <3>1. e \in Events
      BY Positions
    <3>2. e.id \in Cmds => e.id \notin Inputs \union {Self}
      BY IdsAssumption DEF Inputs
    <3>3. e.type \in Answers => e.type \notin Takes \union {"result"}
      BY DEF Answers, Takes
    <3> QED BY <2>1, <3>1, <3>2, <3>3, EventOut
  <2> QED BY <2>1, <2>2
<1>2. CASE BeginOwnTurn
  <2>1. PICK a \in Events : a = Event("init", Self)
    BY EventIn
  <2>2. a.type \notin Takes \union {"result"}
    BY <2>1 DEF Event, Takes
  <2>3. <<a>> \in Seq(Events) /\ ToSet(<<a>>) = {a} /\ Tells(<<a>>)
    BY <1>2, <2>1, Short DEF BeginOwnTurn
  <2> QED BY <2>2, <2>3
<1> QED BY <1>1, <1>2

\* While claude lives nothing it wrote is taken back, and a message it will not
\* read any more is one it wrote of.
LEMMA ClaudeKeeps ==
    ASSUME ClaudeTypes, Claude, alive'
    PROVE  /\ \A s : Told(s) => Told(s)'
           /\ \A s : GivenBack(s) => GivenBack(s)'
           /\ ToSet(out) \subseteq ToSet(out)'
           /\ \A s \in Says : InPipe(s) \/ InInbox(s) =>
                                  (InPipe(s) \/ InInbox(s) \/ Told(s) \/ GivenBack(s))'
<1>0. cancel' = cancel /\ ~ Exit
  BY DEF Claude, holderRest, Exit
<1>1. PICK events \in Seq(Events) : Tells(events) \/ out' = out
  <2>1. CASE EndTurn
    <3>1. Tells(EndWords) /\ turn # <<>>
      BY <2>1 DEF EndTurn, EndWords, Ended
    <3> QED BY <3>1, EndWordsAre DEF ClaudeTypes
  <2>2. CASE TakeUp
    BY <2>2, TakeUpSays
  <2>3. CASE ReadLine \/ BeginOwnTurn \/ CommandEnds
    BY <2>3, OtherSays
  <2> QED BY <1>0, <2>1, <2>2, <2>3 DEF Claude
<1>2. ToSet(out) \subseteq ToSet(out')
  BY <1>1, OutMore
<1>3. ASSUME NEW s \in Says, InPipe(s) \/ InInbox(s)
      PROVE  (InPipe(s) \/ InInbox(s) \/ Told(s) \/ GivenBack(s))'
  <2>1. CASE TakeUp
    <3>1. PICK h : h = Head(inbox)
      OBVIOUS
    <3>2. PICK words \in Seq(Events) : Tells(words) /\ Event("started", h) \in ToSet(words)
      BY <2>1, <3>1, TakeUpSays
    <3>3. Told(h)'
      <4>1. Event("started", h) \in ToSet(out)'
        BY <3>2, OutMore
      <4>2. Event("started", h).id = h /\ Event("started", h).type \in Takes
        BY DEF Event, Takes
      <4> QED BY <4>1, <4>2 DEF Told
    <3>4. inbox # <<>> /\ inbox' = Tail(inbox) /\ pipe' = pipe
      BY <2>1, <3>1, TakeUpSays
    <3>5. ToSet(inbox) = {h} \union ToSet(inbox')
      BY <3>1, <3>4, Tailed DEF ClaudeTypes
    <3> QED BY <1>3, <3>3, <3>4, <3>5 DEF InPipe, InInbox
  <2>2. CASE ReadLine
    <3>0. pipe # <<>> /\ pipe' = Tail(pipe)
      BY <2>2 DEF ReadLine, ReadMessage, ReadCommand, ReadCancel
    <3>1. Head(pipe) \in Lines /\ ToSet(pipe) = {Head(pipe)} \union ToSet(pipe')
      BY <3>0, Tailed DEF ClaudeTypes
    <3>2. InPipe(s) => InPipe(s)' \/ Head(pipe) = Line("message", s)
      BY <3>1 DEF InPipe
    <3>3. Line("message", s).kind = "message" /\ Line("message", s).id = s
      BY DEF Line
    <3>4. CASE ReadMessage
      <4>1. PICK h : h = Head(pipe).id
        OBVIOUS
      <4>2. h \in Inputs /\ inbox' = Append(inbox, h)
        BY <3>1, <3>4, <4>1, LineOut DEF ReadMessage
      <4>3. ToSet(inbox') = ToSet(inbox) \union {h}
        BY <4>2, Appended DEF ClaudeTypes
      <4> QED BY <1>3, <3>2, <3>3, <4>1, <4>3 DEF InInbox
    <3>5. CASE ReadCommand
      <4>1. Head(pipe).kind = "command" /\ inbox' = inbox
        BY <3>5 DEF ReadCommand
      <4> QED BY <1>3, <3>2, <3>3, <4>1 DEF InInbox
    <3>6. CASE ReadCancel
      <4>1. PICK h : h = Head(pipe).id
        OBVIOUS
      <4>2. Head(pipe).kind = "cancel" /\ h \in Msgs
        BY <3>1, <3>6, <4>1, LineOut DEF ReadCancel
      <4>3. InPipe(s) => InPipe(s)'
        BY <3>2, <3>3, <4>2
      <4>4. CASE h \notin ToSet(inbox)
        <5>1. inbox' = inbox
          BY <3>6, <4>1, <4>4 DEF ReadCancel
        <5> QED BY <1>3, <4>3, <5>1 DEF InInbox
      <4>5. CASE h \in ToSet(inbox)
        <5>1. inbox' = RemoveFirst(inbox, h) /\ Tells(<<Event("cancelled", h)>>)
          BY <3>6, <4>1, <4>5 DEF ReadCancel
        <5>2. PICK a \in Events : a = Event("cancelled", h)
          BY <4>2, EventIn
        <5>3. <<a>> \in Seq(Events) /\ ToSet(<<a>>) = {a}
          BY Short
        <5>4. a \in ToSet(out)'
          BY <5>1, <5>2, <5>3, OutMore
        <5>5. GivenBack(h)'
          BY <5>2, <5>4 DEF GivenBack
        <5>6. ToSet(inbox) \subseteq ToSet(inbox') \union {h}
          BY <5>1, RemovedFirst DEF ClaudeTypes
        <5> QED BY <1>3, <4>3, <5>5, <5>6 DEF InInbox
      <4> QED BY <4>4, <4>5
    <3> QED BY <2>2, <3>4, <3>5, <3>6 DEF ReadLine
  <2>3. CASE BeginOwnTurn \/ EndTurn \/ CommandEnds
    <3>1. pipe' = pipe /\ inbox' = inbox
      BY <2>3 DEF BeginOwnTurn, EndTurn, CommandEnds
    <3> QED BY <1>3, <3>1 DEF InPipe, InInbox
  <2> QED BY <1>0, <2>1, <2>2, <2>3 DEF Claude
<1> QED BY <1>0, <1>2, <1>3 DEF Told, GivenBack

AllPending == Open => \A s \in ToSet(queue) : Pending(s)

LEMMA PendingKept ==
    ASSUME NEW s \in Says, Pending(s), pc[s] = "listed" => pc'[s] = "listed",
           InPipe(s) => InPipe(s)', UNCHANGED <<inbox, out>>,
           s \in Msgs => cancel'[s] = cancel[s] \/ cancel'[s] = "given up"
    PROVE  Pending(s)'
BY DEF Pending, InInbox, Told, GivenBack, GivenUp

\* Whatever ends one reason to stay in the queue begins another, or takes it off.
LEMMA PendingStep ==
    ASSUME DistinctTexts, Types, Places, QueueInv, AllPending, [Next]_vars
    PROVE  AllPending'
<1> SUFFICES ASSUME Open', NEW s \in ToSet(queue)' PROVE Pending(s)'
  BY DEF AllPending
<1>0. /\ Open /\ pc \in [Inputs \union Cmds -> Steps]
      /\ cancel \in [Msgs -> {"none", "asked", "taken", "given up", "done"}]
      /\ queue \in Seq(Says) /\ ClaudeTypes /\ ToSet(queue) \subseteq Says
      /\ \A t \in Says : t \in Inputs /\ t \notin Letters /\ t \notin Cmds
  BY OpenStays, Positions, IdsAssumption DEF Types, HolderTypes, Inputs
<1>1. ASSUME s \in ToSet(queue) PROVE s \in Says /\ Pending(s)
  BY <1>0, <1>1 DEF AllPending
<1>2. ASSUME NEW t \in Says, Saying(t) PROVE Pending(s)'
  <2>1. CASE List(t)
    <3>1. /\ queue' = Append(queue, t) /\ UNCHANGED <<pipe, inbox, out, cancel>>
          /\ pc[t] = "idle" /\ pc' = [pc EXCEPT ![t] = "listed"]
      BY <2>1 DEF List, Goes, claude
    <3>2. ToSet(queue') = ToSet(queue) \union {t}
      <4>1. queue \in Seq(Says) /\ t \in Says
        BY <1>0
      <4> QED BY <3>1, <4>1, Appended
    <3>3. CASE s = t
      BY <1>0, <3>1, <3>3 DEF Pending
    <3>4. CASE s # t
      <4>1. s \in ToSet(queue) /\ pc'[s] = pc[s]
        BY <1>0, <3>1, <3>2, <3>4
      <4>2. InPipe(s)' <=> InPipe(s)
        BY <3>1, PipeSame
      <4> QED BY <1>1, <3>1, <4>1, <4>2, PendingKept
    <3> QED BY <3>3, <3>4
  <2>2. CASE Write(t)
    <3>1. /\ UNCHANGED <<queue, inbox, out, cancel>> /\ pipe' = Append(pipe, Line("message", t))
          /\ pc' = [pc EXCEPT ![t] = "written"]
      BY <1>0, <2>2 DEF Write, Goes, holderState, Writable, Open
    <3>2. \A u : InPipe(u)' <=> InPipe(u) \/ Line("message", t) = Line("message", u)
      BY <1>0, <3>1, LineIn, PipeMore
    <3>3. CASE s = t
      BY <3>2, <3>3 DEF Pending
    <3>4. CASE s # t
      <4>1. s \in ToSet(queue) /\ pc'[s] = pc[s]
        BY <1>0, <3>1, <3>4
      <4> QED BY <1>1, <3>1, <3>2, <4>1, PendingKept
    <3> QED BY <3>3, <3>4
  <2>3. CASE Unlist(t)
    BY <1>0, <2>3 DEF Unlist, QueueInv, Shut
  <2>4. CASE Settle(t)
    <3>1. /\ UNCHANGED <<queue, pipe, inbox, out, cancel>> /\ pc[t] = "written"
          /\ pc' = [pc EXCEPT ![t] = "sent"]
      BY <2>4 DEF Settle, Goes, claude
    <3>2. s \in ToSet(queue) /\ (pc[s] = "listed" => pc'[s] = "listed")
      BY <1>0, <3>1
    <3>3. InPipe(s)' <=> InPipe(s)
      BY <3>1, PipeSame
    <3> QED BY <1>1, <3>1, <3>2, <3>3, PendingKept
  <2> QED BY <1>2, <2>1, <2>2, <2>3, <2>4 DEF Saying
<1>3. ASSUME NEW l \in Letters, WriteLetter(l) PROVE Pending(s)'
  <2>1. /\ UNCHANGED <<queue, inbox, out, cancel>> /\ pipe' = Append(pipe, Line("message", l))
        /\ pc' = [pc EXCEPT ![l] = "written"]
    BY <1>3 DEF WriteLetter, holderState, Goes
  <2>2. InPipe(s) => InPipe(s)'
    BY <1>0, <2>1, LineIn, PipeMore DEF Inputs
  <2>3. s \in ToSet(queue) /\ pc'[s] = pc[s]
    BY <1>0, <2>1
  <2> QED BY <1>1, <2>1, <2>2, <2>3, PendingKept
<1>4. ASSUME NEW c \in Cmds, Running(c) PROVE Pending(s)'
  <2>1. /\ UNCHANGED <<queue, inbox, out, cancel>>
        /\ pipe' = pipe \/ pipe' = Append(pipe, Line("command", c))
        /\ pc' = pc \/ \E step : pc' = [pc EXCEPT ![c] = step]
    BY <1>4 DEF Running, Run, WriteRun, DropShell, holderState, holderRest, claude, Goes
  <2>2. InPipe(s) => InPipe(s)'
    BY <1>0, <2>1, LineIn, PipeMore, PipeSame
  <2>3. s \in ToSet(queue) /\ pc'[s] = pc[s]
    BY <1>0, <2>1
  <2> QED BY <1>1, <2>1, <2>2, <2>3, PendingKept
<1>5. ASSUME NEW m \in Msgs, Cancelling(m) PROVE Pending(s)'
  <2>1. CASE AskBack(m)
    <3>1. /\ UNCHANGED <<queue, inbox, out, pc>> /\ pipe' = Append(pipe, Line("cancel", m))
          /\ cancel[m] = "none" /\ cancel' = [cancel EXCEPT ![m] = "asked"]
      BY <2>1 DEF AskBack, holderState
    <3>2. \A t : InPipe(t) => InPipe(t)'
      BY <1>0, <3>1, LineIn, PipeMore
    <3>3. (GivenBack(s) => GivenBack(s)') /\ (GivenUp(s) => GivenUp(s)')
      BY <1>0, <3>1 DEF GivenBack, GivenUp
    <3> QED BY <1>1, <3>1, <3>2, <3>3 DEF Pending, InInbox, Told
  <2>2. CASE GiveUp(m)
    <3>1. /\ UNCHANGED <<queue, inbox, out, pc, pipe>>
          /\ cancel' = [cancel EXCEPT ![m] = "given up"]
      BY <2>2 DEF GiveUp, holderState, claude
    <3>2. s \in Msgs => cancel'[s] = cancel[s] \/ cancel'[s] = "given up"
      BY <1>0, <3>1
    <3>3. InPipe(s)' <=> InPipe(s)
      BY <3>1, PipeSame
    <3> QED BY <1>1, <3>1, <3>2, <3>3, PendingKept
  <2>3. CASE Unqueue(m)
    <3>1. /\ UNCHANGED <<inbox, out, pc, pipe>> /\ cancel' = [cancel EXCEPT ![m] = "done"]
      BY <2>3 DEF Unqueue, claude
    <3>2. s \in ToSet(queue) /\ s # m
      BY <2>3, UnqueueQueue DEF QueueInv
    <3>3. s \in Msgs => cancel'[s] = cancel[s]
      BY <1>0, <3>1, <3>2
    <3>4. InPipe(s)' <=> InPipe(s)
      BY <3>1, PipeSame
    <3> QED BY <1>1, <3>1, <3>2, <3>3, <3>4, PendingKept
  <2> QED BY <1>5, <2>1, <2>2, <2>3 DEF Cancelling
<1>6. CASE Reader
  <2>1. UNCHANGED <<pc, pipe, inbox>>
    BY <1>6 DEF Reader, OnStarted, OnShellEnded, OnCompleted, OnEcho, OnPrinted, OnInit, OnResult,
                OnResponse, Reads
  <2>2. PICK type : Reads(type) /\ (cancel' = cancel \/ OnResponse(type))
                    /\ (type = "cancelled" => OnResponse(type))
    <3>1. CASE OnStarted
      BY <3>1 DEF OnStarted
    <3>2. CASE OnShellEnded \/ OnCompleted
      BY <3>2 DEF OnShellEnded, OnCompleted
    <3>3. CASE OnEcho
      BY <3>3 DEF OnEcho
    <3>4. ASSUME NEW t \in {"printed", "not run"}, OnPrinted(t)
          PROVE  Reads(t) /\ cancel' = cancel /\ t # "cancelled"
      BY <3>4 DEF OnPrinted
    <3>5. CASE OnInit \/ OnResult
      BY <3>5 DEF OnInit, OnResult
    <3>6. ASSUME NEW t \in {"cancelled", "not cancelled"}, OnResponse(t)
          PROVE  Reads(t)
      BY <3>6 DEF OnResponse
    <3> QED BY <1>6, <3>1, <3>2, <3>3, <3>4, <3>5, <3>6 DEF Reader
  <2>3. PICK h : h = Head(out).id
    OBVIOUS
  <2>4. /\ \A e : e \in ToSet(out) <=> e \in ToSet(out)' \/ e = Head(out)
        /\ Head(out) = Event(type, h) /\ Head(out).type = type /\ out # <<>>
    BY <1>0, <2>2, <2>3, OutLess DEF Reads
  <2>5. /\ s \in ToSet(queue) /\ s \in Says /\ Pending(s)
        /\ type \in Takes => s # h
    <3>1. s \in ToSet(queue)
      BY <1>6, ReaderQueue
    <3>2. s \in Says /\ Pending(s)
      BY <1>1, <3>1
    <3>3. type \in Takes => s # h
      BY <1>6, <2>3, <2>4, <3>2, ReaderQueue DEF QueueInv
    <3> QED BY <3>1, <3>2, <3>3
  <2>6. /\ Told(s) => Told(s)'
        /\ InPipe(s) => InPipe(s)'
        /\ InInbox(s) => InInbox(s)'
    BY <2>1, <2>3, <2>4, <2>5, PipeSame DEF Told, InInbox
  <2>7. ASSUME s \in Msgs PROVE GivenUp(s) => GivenUp(s)'
    BY <1>0, <2>2, <2>7 DEF GivenUp, OnResponse
  <2>8. ASSUME s \in Msgs, cancel[s] = "taken" PROVE cancel'[s] = "taken"
    BY <1>0, <2>2, <2>8 DEF OnResponse
  <2>9. ASSUME Event("cancelled", s) \in ToSet(out), Event("cancelled", s) \notin ToSet(out)'
        PROVE  GivenBack(s)' \/ GivenUp(s)'
    <3>1. type = "cancelled" /\ h = s
      <4>1. Event("cancelled", s) = Event(type, h)
        BY <2>4, <2>9
      <4> QED BY <4>1 DEF Event
    <3>2. s \in Msgs
      <4>1. Head(out) \in Events
        BY <1>0, <2>2, ReadTypes
      <4> QED BY <2>3, <2>4, <3>1, <4>1, EventOut
    <3>3. Answered(s)
      <4>1. Event("cancelled", s).id = s /\ Event("cancelled", s).type \in Answers
        BY DEF Event, Answers
      <4> QED BY <2>9, <4>1 DEF Answered
    <3>4. cancel[s] \in {"asked", "given up"}
      BY <3>2, <3>3 DEF Places, AskOf
    <3>5. cancel' = IF cancel[s] # "asked" THEN cancel ELSE [cancel EXCEPT ![s] = "taken"]
      BY <2>2, <2>3, <3>1 DEF OnResponse
    <3>6. cancel'[s] \in {"taken", "given up"}
      BY <1>0, <3>2, <3>4, <3>5
    <3> QED BY <3>2, <3>6 DEF GivenBack, GivenUp
  <2>10. GivenBack(s) => GivenBack(s)' \/ GivenUp(s)'
    BY <2>8, <2>9 DEF GivenBack
  <2> QED BY <2>1, <2>5, <2>6, <2>7, <2>10 DEF Pending, GivenUp
<1>7. CASE Close
  BY <1>7 DEF Close, Open
<1>8. CASE Claude
  <2>1. UNCHANGED <<queue, pc, cancel>> /\ alive'
    BY <1>8 DEF Claude, holderState, holderRest, Open
  <2>2. s \in Says /\ Pending(s)
    BY <1>1, <2>1
  <2>3. /\ Told(s) => Told(s)'
        /\ GivenBack(s) => GivenBack(s)'
        /\ InPipe(s) \/ InInbox(s) => (InPipe(s) \/ InInbox(s) \/ Told(s) \/ GivenBack(s))'
    BY <1>0, <1>8, <2>1, <2>2, ClaudeKeeps
  <2> QED BY <2>1, <2>2, <2>3 DEF Pending, GivenUp
<1>9. CASE Idle
  <2>1. /\ UNCHANGED <<queue, inbox, out, cancel, pipe>>
        /\ \A t \in Says : pc'[t] = pc[t]
    BY <1>9, IdleChanges
  <2> QED BY <1>1, <2>1, PendingKept, PipeSame
<1> QED BY <1>2, <1>3, <1>4, <1>5, <1>6, <1>7, <1>8, <1>9 DEF Next, Aside, Idle

LEMMA PendingInit == Init => AllPending
BY DEF Init, AllPending, ToSet

\* A message stands in the queue only as long as it is being written, or claude
\* has it unread, or word of it is on its way, or the holder gave up waiting
\* for its taking back: nothing else stays there and holds a switch back.
THEOREM QueueIsPending ==
    ASSUME DistinctTexts
    PROVE  Spec => []QueuedIsPending
<1>1. Init => Types /\ Places /\ QueueInv /\ AllPending
  BY TypesInit, PlacesInit, QueueInit, PendingInit
<1>2. Types /\ Places /\ QueueInv /\ AllPending /\ [Next]_vars
      => (Types /\ Places /\ QueueInv /\ AllPending)'
  BY TypesStep, PlacesStep, QueueStep, PendingStep
<1>3. Types /\ AllPending => QueuedIsPending
  <2> SUFFICES ASSUME Types, AllPending, Open, NEW s \in ToSet(queue)
               PROVE  pc[s] = "listed" \/ Unread(s) \/ WordOf(s) \/ GivenUp(s)
    BY DEF QueuedIsPending
  <2>1. s \in Says /\ ClaudeTypes
    BY Positions DEF Types, HolderTypes
  <2> QED BY <2>1, PendingIs DEF AllPending
<1> QED BY <1>1, <1>2, <1>3, PTL DEF Spec

-----------------------------------------------------------------------------
(* The answer to a message is seen.                                        *)

Ends(i) == out[i].type = "result"
Begins(i) == out[i].type \in {"started", "init"} /\ out[i].id = Head(turn)
TellsOf(i, s) == out[i].id = s /\ out[i].type \in Takes

\* The holder read that claude's turn began, and no end of a turn is on its way.
AtWork == busy /\ \A i \in 1 .. Len(out) : ~ Ends(i)

\* Or it has still to read it: after the ends on their way, before any word of
\* what the turn answers, which is therefore in the queue.
Ahead(i) ==
    /\ Begins(i)
    /\ \A j \in 1 .. Len(out) : Ends(j) => j < i
    /\ \A s \in ToSet(turn) \intersect Says :
           s \in ToSet(queue) /\ \A j \in 1 .. Len(out) : TellsOf(j, s) => i <= j

Begun == Open /\ turn # <<>> => AtWork \/ \E i \in 1 .. Len(out) : Ahead(i)

LEMMA BegunKept ==
    ASSUME Open, Begun, UNCHANGED <<turn, out>>, busy => busy',
           \A s \in ToSet(turn) \intersect Says : s \in ToSet(queue) => s \in ToSet(queue)'
    PROVE  Begun'
<1> SUFFICES ASSUME turn' # <<>> PROVE AtWork' \/ \E i \in 1 .. Len(out') : Ahead(i)'
  BY DEF Begun
<1>1. CASE AtWork
  BY <1>1 DEF AtWork, Ends
<1>2. ASSUME NEW i \in 1 .. Len(out), Ahead(i) PROVE Ahead(i)' /\ i \in 1 .. Len(out')
  BY <1>2 DEF Ahead, Begins, Ends, TellsOf
<1> QED BY <1>1, <1>2 DEF Begun

\* The words of claude after those it had written.
LEMMA OutAfter ==
    ASSUME ClaudeTypes, NEW events \in Seq(Events), Tells(events)
    PROVE  /\ Len(out) \in Nat /\ Len(out') = Len(out) + Len(events)
           /\ \A i \in 1 .. Len(out) : i \in 1 .. Len(out') /\ out'[i] = out[i]
           /\ \A i \in 1 .. Len(out') : \/ i \in 1 .. Len(out) /\ out'[i] = out[i]
                                        \/ i > Len(out) /\ out'[i] \in ToSet(events)
           /\ Len(events) # 0 => /\ Len(out) + 1 \in 1 .. Len(out')
                                 /\ out'[Len(out) + 1] = events[1]
<1>1. /\ Len(out) \in Nat /\ Len(out') = Len(out) + Len(events)
      /\ \A i \in 1 .. Len(out) : i \in 1 .. Len(out') /\ out'[i] = out[i]
      /\ \A i \in 1 .. Len(out') : \/ i \in 1 .. Len(out)
                                   \/ /\ i > Len(out) /\ i - Len(out) \in 1 .. Len(events)
                                      /\ out'[i] = events[i - Len(out)]
  BY OutMore
<1>2. Len(events) \in Nat /\ \A i \in 1 .. Len(events) : events[i] \in ToSet(events)
  BY Positions
<1>3. ASSUME Len(events) # 0
      PROVE  Len(out) + 1 \in 1 .. Len(out') /\ out'[Len(out) + 1] = events[1]
  <2>1. Len(out) + 1 \in 1 .. Len(out') /\ Len(out) + 1 \notin 1 .. Len(out)
    BY <1>1, <1>2, <1>3
  <2>2. out'[Len(out) + 1] = events[(Len(out) + 1) - Len(out)]
    BY <1>1, <2>1
  <2>3. (Len(out) + 1) - Len(out) = 1
    BY <1>1
  <2> QED BY <2>1, <2>2, <2>3
<1> QED BY <1>1, <1>2, <1>3

LEMMA BegunMore ==
    ASSUME ClaudeTypes, Open, Begun, UNCHANGED <<busy, queue>>,
           turn' # <<>> => turn # <<>> /\ Head(turn') = Head(turn),
           NEW events \in Seq(Events), Tells(events) \/ out' = out,
           \A e \in ToSet(events) : e.type # "result",
           \A s \in ToSet(turn') \intersect Says :
               s \in ToSet(turn) \/ (s \in ToSet(queue) /\ ~ Told(s))
    PROVE  Begun'
<1> SUFFICES ASSUME turn' # <<>> PROVE AtWork' \/ \E i \in 1 .. Len(out') : Ahead(i)'
  BY DEF Begun
<1>0. /\ Len(out) \in Nat /\ turn # <<>> /\ Head(turn') = Head(turn)
      /\ \A i \in 1 .. Len(out) : i \in 1 .. Len(out') /\ out'[i] = out[i]
      /\ \A i \in 1 .. Len(out') : \/ i \in 1 .. Len(out) /\ out'[i] = out[i]
                                   \/ i > Len(out) /\ out'[i] \in ToSet(events)
  <2>1. Len(out) \in Nat
    BY Positions DEF ClaudeTypes
  <2>2. CASE out' = out
    BY <2>1, <2>2
  <2>3. CASE Tells(events)
    BY <2>3, OutAfter
  <2> QED BY <2>2, <2>3
<1>1. \A i \in 1 .. Len(out') : Ends(i)' => i \in 1 .. Len(out) /\ Ends(i)
  BY <1>0 DEF Ends
<1>2. CASE AtWork
  BY <1>1, <1>2 DEF AtWork
<1>3. ASSUME NEW i \in 1 .. Len(out), Ahead(i) PROVE i \in 1 .. Len(out') /\ Ahead(i)'
  <2>1. i \in 1 .. Len(out') /\ Begins(i)'
    BY <1>0, <1>3 DEF Ahead, Begins
  <2>2. \A j \in 1 .. Len(out') : Ends(j)' => j < i
    BY <1>1, <1>3 DEF Ahead
  <2>3. ASSUME NEW s \in ToSet(turn') \intersect Says
        PROVE  s \in ToSet(queue) /\ \A j \in 1 .. Len(out) : TellsOf(j, s) => i <= j
    <3>1. CASE s \in ToSet(turn)
      BY <1>3, <3>1 DEF Ahead
    <3>2. CASE s \in ToSet(queue) /\ ~ Told(s)
      <4>1. \A j \in 1 .. Len(out) : out[j] \in ToSet(out)
        BY Positions DEF ClaudeTypes
      <4> QED BY <3>2, <4>1 DEF Told, TellsOf
    <3> QED BY <3>1, <3>2
  <2>4. ASSUME NEW s, NEW j \in 1 .. Len(out'), TellsOf(j, s)'
        PROVE  (j \in 1 .. Len(out) /\ TellsOf(j, s)) \/ i <= j
    BY <1>0, <2>4 DEF TellsOf
  <2> QED BY <2>1, <2>2, <2>3, <2>4 DEF Ahead
<1> QED BY <1>0, <1>2, <1>3 DEF Begun

\* A turn begins: what says so is the first of what claude writes.
LEMMA BegunNow ==
    ASSUME ClaudeTypes, NEW events \in Seq(Events), Tells(events), Len(events) # 0,
           NEW h, turn' = <<h>>, events[1].type \in {"started", "init"}, events[1].id = h,
           \A e \in ToSet(events) : e.type # "result",
           h \in Says => h \in ToSet(queue)' /\ ~ Told(h)
    PROVE  Begun'
<1> PICK n : n = Len(out) + 1
  OBVIOUS
<1>0. /\ Len(out) \in Nat /\ n \in 1 .. Len(out') /\ out'[n] = events[1]
      /\ \A i \in 1 .. Len(out') : \/ i \in 1 .. Len(out) /\ out'[i] = out[i]
                                   \/ i > Len(out) /\ out'[i] \in ToSet(events)
  BY OutAfter
<1>1. Begins(n)'
  BY <1>0 DEF Begins
<1>2. \A j \in 1 .. Len(out') : Ends(j)' => j < n
  BY <1>0 DEF Ends
<1>3. ASSUME NEW s \in ToSet(turn') \intersect Says
      PROVE  s \in ToSet(queue)' /\ \A j \in 1 .. Len(out') : TellsOf(j, s)' => n <= j
  <2>1. s = h /\ s \in ToSet(queue)' /\ ~ Told(s)
    <3>1. ToSet(turn') = {h}
      BY DEF ToSet
    <3> QED BY <1>3, <3>1
  <2>2. \A j \in 1 .. Len(out) : out[j] \in ToSet(out)
    BY Positions DEF ClaudeTypes
  <2>3. ASSUME NEW j \in 1 .. Len(out'), TellsOf(j, s)' PROVE n <= j
    <3>1. CASE j \in 1 .. Len(out) /\ out'[j] = out[j]
      BY <2>1, <2>2, <2>3, <3>1 DEF TellsOf, Told
    <3>2. CASE j > Len(out)
      BY <1>0, <3>2
    <3> QED BY <1>0, <3>1, <3>2
  <2> QED BY <2>1, <2>3
<1>4. Ahead(n)'
  BY <1>1, <1>2, <1>3 DEF Ahead
<1> QED BY <1>0, <1>4 DEF Begun

\* As the reader goes on, the word of the turn comes first or the holder has it.
LEMMA BegunRead ==
    ASSUME DistinctTexts, Types, QueueInv, Open, Begun, Reader
    PROVE  Begun'
<1>0. ClaudeTypes /\ queue \in Seq(Says) /\ shells \in Seq(Cmds)
  BY DEF Types, HolderTypes
<1>1. UNCHANGED <<turn, alive, closed>>
  BY DEF Reader, OnStarted, OnShellEnded, OnCompleted, OnEcho, OnPrinted, OnInit, OnResult,
         OnResponse, Reads
<1>2. PICK type : Reads(type)
  BY DEF Reader, OnStarted, OnShellEnded, OnCompleted, OnEcho, OnPrinted, OnInit, OnResult,
         OnResponse
<1>3. PICK h : h = Head(out).id
  OBVIOUS
<1>4. /\ Head(out) \in Events /\ Head(out) = Event(type, h) /\ out # <<>>
      /\ Head(out).type = type /\ Head(out).id = h
      /\ Len(out') = Len(out) - 1 /\ Len(out) \in Nat \ {0} /\ Head(out) = out[1]
      /\ \A i \in 1 .. Len(out') : i + 1 \in 1 .. Len(out) /\ out'[i] = out[i + 1]
  BY <1>0, <1>2, <1>3, OutLess DEF Reads
<1>5. type # "result" => busy' = busy \/ busy' = TRUE \/ busy' = (busy \/ h \notin ToSet(shells))
  BY <1>3, <1>4 DEF Reader, OnStarted, OnShellEnded, OnCompleted, OnEcho, OnPrinted, OnInit,
         OnResult, OnResponse, Reads, holderState
<1>6. \A i \in 1 .. Len(out') : /\ Ends(i)' => Ends(i + 1)
                                /\ \A s : TellsOf(i, s)' => TellsOf(i + 1, s)
  BY <1>4 DEF Ends, TellsOf
<1> SUFFICES ASSUME turn' # <<>> PROVE AtWork' \/ \E i \in 1 .. Len(out') : Ahead(i)'
  BY DEF Begun
<1>7. CASE AtWork
  <2>1. type # "result"
    BY <1>4, <1>7 DEF AtWork, Ends
  <2>2. busy'
    BY <1>5, <1>7, <2>1 DEF AtWork
  <2> QED BY <1>4, <1>6, <1>7, <2>2 DEF AtWork
<1>8. ASSUME Ahead(1) PROVE AtWork'
  <2>1. type \in {"started", "init"} /\ h = Head(turn)
    BY <1>4, <1>8 DEF Ahead, Begins
  <2>2. busy'
    <3>1. CASE type = "init"
      BY <1>4, <3>1 DEF Reader, OnStarted, OnShellEnded, OnCompleted, OnEcho, OnPrinted, OnInit,
                        OnResult, OnResponse, Reads
    <3>2. CASE type = "started"
      <4>1. h \in Inputs \union Cmds
        BY <1>4, <3>2, EventOut
      <4>2. h \in Inputs \union {Self}
        BY <1>0, <1>1, <2>1, Tailed DEF ClaudeTypes
      <4>3. h \notin Cmds
        BY <4>1, <4>2, IdsAssumption DEF Inputs
      <4>4. h \notin ToSet(shells)
        BY <1>0, <4>3, Positions
      <4>5. OnStarted
        BY <1>4, <3>2 DEF Reader, OnShellEnded, OnCompleted, OnEcho, OnPrinted, OnInit,
                          OnResult, OnResponse, Reads
      <4> QED BY <1>3, <4>4, <4>5 DEF OnStarted
    <3> QED BY <2>1, <3>1, <3>2
  <2>3. \A i \in 1 .. Len(out') : ~ Ends(i)'
    <3> SUFFICES ASSUME NEW i \in 1 .. Len(out'), Ends(i)' PROVE FALSE
      OBVIOUS
    <3>1. i + 1 < 1
      BY <1>4, <1>6, <1>8 DEF Ahead
    <3> QED BY <1>4, <3>1
  <2> QED BY <2>2, <2>3 DEF AtWork
<1>9. ASSUME NEW i \in 1 .. Len(out), Ahead(i), i # 1
      PROVE  \E j \in 1 .. Len(out') : Ahead(j)'
  <2>1. PICK n : n = i - 1
    OBVIOUS
  <2>2. n \in 1 .. Len(out') /\ n + 1 = i
    BY <1>4, <1>9, <2>1
  <2>3. out'[n] = out[i]
    BY <1>4, <2>2
  <2>4. Begins(n)'
    BY <1>1, <1>9, <2>3 DEF Ahead, Begins
  <2>5. ASSUME NEW j \in 1 .. Len(out'), Ends(j)' PROVE j < n
    <3>1. j + 1 < i
      BY <1>4, <1>6, <1>9, <2>5 DEF Ahead
    <3> QED BY <1>4, <2>2, <3>1
  <2>6. ASSUME NEW s \in ToSet(turn) \intersect Says
        PROVE  s \in ToSet(queue)' /\ \A j \in 1 .. Len(out') : TellsOf(j, s)' => n <= j
    <3>1. s \in ToSet(queue) /\ \A j \in 1 .. Len(out) : TellsOf(j, s) => i <= j
      BY <1>9 DEF Ahead
    <3>2. ~ (s = h /\ type \in Takes)
      <4>1. 1 \in 1 .. Len(out) /\ ~ i <= 1
        BY <1>4, <1>9
      <4> QED BY <1>4, <3>1, <4>1 DEF TellsOf
    <3>3. s \in ToSet(queue)'
      BY <1>4, <3>1, <3>2, ReaderQueue
    <3>4. ASSUME NEW j \in 1 .. Len(out'), TellsOf(j, s)' PROVE n <= j
      <4>1. i <= j + 1
        BY <1>4, <1>6, <3>1, <3>4
      <4> QED BY <1>4, <2>2, <4>1
    <3> QED BY <3>3, <3>4
  <2> QED BY <1>1, <2>2, <2>4, <2>5, <2>6 DEF Ahead
<1> QED BY <1>1, <1>7, <1>8, <1>9 DEF Begun, Open

\* Claude takes up what is in the queue, and has said nothing of it yet.
LEMMA BegunClaude ==
    ASSUME Types, Places, QueueInv, Open, Begun, Claude, alive'
    PROVE  Begun'
<1>0. ClaudeTypes /\ UNCHANGED <<busy, queue>> /\ ~ Exit
  BY DEF Types, Claude, holderState, Exit
<1>1. PICK h : h = Head(inbox)
  OBVIOUS
<1>2. ASSUME TakeUp PROVE h \in Inputs /\ ~ Told(h) /\ (h \in Says => h \in ToSet(queue))
  <2>1. h \in Inputs /\ InInbox(h)
    BY <1>0, <1>1, <1>2, TakeUpSays, Tailed DEF ClaudeTypes, InInbox
  <2>2. PlaceOf(h)
    BY <2>1 DEF Places
  <2> QED BY <2>1, <2>2 DEF PlaceOf, InInbox, Unread, QueueInv, Kept
<1>3. CASE BeginTurn
  <2>1. PICK a \in Events, b \in Events : a = Event("started", h) /\ b = Event("echo", h)
    BY <1>2, <1>3, EventIn DEF TakeUp
  <2>2. /\ a.type = "started" /\ a.id = h /\ b.type = "echo"
    BY <2>1 DEF Event
  <2>3. PICK p : p = <<a, b>>
    OBVIOUS
  <2>4. p \in Seq(Events) /\ ToSet(p) = {a, b} /\ Len(p) # 0 /\ p[1] = a
    <3>1. <<a, b>> \in Seq(Events) /\ ToSet(<<a, b>>) = {a, b} /\ Len(<<a, b>>) = 2
      BY Short
    <3>2. <<a, b>>[1] = a
      OBVIOUS
    <3> QED BY <2>3, <3>1, <3>2
  <2>5. Tells(p) /\ turn' = <<h>>
    BY <1>1, <1>3, <2>1, <2>3 DEF BeginTurn
  <2>6. h \in Says => h \in ToSet(queue)' /\ ~ Told(h)
    BY <1>0, <1>2, <1>3 DEF TakeUp
  <2> QED BY <1>0, <2>2, <2>4, <2>5, <2>6, BegunNow
<1>4. CASE Absorb
  <2>1. PICK a \in Events, b \in Events : a = Event("echo", h) /\ b = Event("started", h)
    BY <1>2, <1>4, EventIn DEF TakeUp
  <2>2. a.type # "result" /\ b.type # "result"
    BY <2>1 DEF Event
  <2>3. PICK p : p = <<a, b>>
    OBVIOUS
  <2>4. p \in Seq(Events) /\ ToSet(p) = {a, b}
    BY <2>3, Short
  <2>5. Tells(p) /\ turn' = Append(turn, h) /\ turn # <<>> /\ turn \in Seq(Inputs \union {Self})
    BY <1>0, <1>1, <1>4, <2>1, <2>3 DEF Absorb, ClaudeTypes
  <2>6. h \in Inputs \union {Self}
    BY <1>2, <1>4 DEF TakeUp
  <2>7. ToSet(turn') = ToSet(turn) \union {h} /\ Head(turn') = Head(turn)
    <3>1. ToSet(turn') = ToSet(turn) \union {h}
      BY <2>5, <2>6, Appended
    <3>2. Len(turn) \in Nat \ {0}
      BY <2>5, Tailed
    <3>3. Append(turn, h)[1] = turn[1]
      BY <2>5, <2>6, <3>2, AppendProperties
    <3>4. Head(turn) = turn[1] /\ Head(turn') = turn'[1]
      OBVIOUS
    <3> QED BY <2>5, <3>1, <3>3, <3>4
  <2>8. \A s \in ToSet(turn') \intersect Says :
            s \in ToSet(turn) \/ (s \in ToSet(queue) /\ ~ Told(s))
    BY <1>2, <1>4, <2>7 DEF TakeUp
  <2> QED BY <1>0, <2>2, <2>4, <2>5, <2>7, <2>8, BegunMore
<1>5. CASE BeginOwnTurn
  <2>1. PICK a \in Events : a = Event("init", Self)
    BY EventIn
  <2>2. a.type = "init" /\ a.id = Self
    BY <2>1 DEF Event
  <2>3. PICK p : p = <<a>>
    OBVIOUS
  <2>4. p \in Seq(Events) /\ ToSet(p) = {a} /\ Len(p) # 0 /\ p[1] = a
    BY <2>3, Short
  <2>5. Tells(p) /\ turn' = <<Self>>
    BY <1>5, <2>1, <2>3 DEF BeginOwnTurn
  <2>6. Self \notin Says
    BY IdsAssumption DEF Inputs
  <2> QED BY <1>0, <2>2, <2>4, <2>5, <2>6, BegunNow
<1>6. CASE EndTurn \/ RunSlash
  BY <1>6 DEF EndTurn, RunSlash, Begun
<1>7. CASE ReadLine \/ CommandEnds
  <2>1. PICK events \in Seq(Events) :
            (Tells(events) \/ out' = out) /\ \A e \in ToSet(events) : e.type # "result"
    BY <1>0, <1>7, OtherSays
  <2>2. turn' = turn
    BY <1>7 DEF ReadLine, ReadMessage, ReadCommand, ReadCancel, CommandEnds
  <2> QED BY <1>0, <2>1, <2>2, BegunMore
<1> QED BY <1>0, <1>3, <1>4, <1>5, <1>6, <1>7 DEF Claude, TakeUp

LEMMA BegunStep ==
    ASSUME DistinctTexts, Types, Places, QueueInv, Begun, [Next]_vars
    PROVE  Begun'
<1> SUFFICES ASSUME Open' PROVE Begun'
  BY DEF Begun
<1>0. Open /\ queue \in Seq(Says)
  BY OpenStays DEF Types, HolderTypes
<1>1. ASSUME NEW s \in Says, Saying(s) PROVE Begun'
  <2>1. UNCHANGED <<turn, out>> /\ (busy => busy')
    BY <1>1 DEF Saying, List, Write, Unlist, Settle, holderState, claude
  <2>2. CASE List(s)
    <3>1. queue' = Append(queue, s)
      BY <2>2 DEF List
    <3>2. ToSet(queue') = ToSet(queue) \union {s}
      BY <1>0, <3>1, Appended
    <3> QED BY <1>0, <2>1, <3>2, BegunKept
  <2>3. CASE Write(s) \/ Settle(s)
    <3>1. queue' = queue
      BY <2>3 DEF Write, Settle, holderState
    <3> QED BY <1>0, <2>1, <3>1, BegunKept
  <2>4. CASE Unlist(s)
    BY <1>0, <2>4 DEF Unlist, QueueInv, Shut
  <2> QED BY <1>1, <2>2, <2>3, <2>4 DEF Saying
<1>2. CASE UNCHANGED <<turn, out, busy, queue>>
  BY <1>0, <1>2, BegunKept
<1>3. ASSUME NEW l \in Letters, WriteLetter(l) PROVE Begun'
  BY <1>2, <1>3 DEF WriteLetter, holderState
<1>4. ASSUME NEW c \in Cmds, Running(c) PROVE Begun'
  BY <1>2, <1>4 DEF Running, Run, WriteRun, DropShell, holderState, claude
<1>5. ASSUME NEW m \in Msgs, Cancelling(m) PROVE Begun'
  <2>1. CASE AskBack(m) \/ GiveUp(m)
    BY <1>2, <2>1 DEF AskBack, GiveUp, holderState, claude
  <2>2. CASE Unqueue(m)
    <3>1. UNCHANGED <<turn, out, busy>> /\ cancel[m] = "taken"
      BY <2>2 DEF Unqueue, claude
    <3>2. ~ InTurn(m)
      <4>1. PlaceOf(m) /\ GivenBack(m)
        BY <3>1 DEF Places, Inputs, Says, GivenBack
      <4> QED BY <4>1 DEF PlaceOf
    <3>3. ToSet(queue) \subseteq ToSet(queue)' \union {m}
      BY <2>2, UnqueueQueue
    <3> QED BY <1>0, <3>1, <3>2, <3>3, BegunKept DEF InTurn
  <2> QED BY <1>5, <2>1, <2>2 DEF Cancelling
<1>6. CASE Reader
  BY <1>0, <1>6, BegunRead
<1>7. CASE Close
  BY <1>7 DEF Close, Open
<1>8. CASE Claude
  BY <1>0, <1>8, BegunClaude DEF Open
<1>9. CASE Idle
  BY <1>2, <1>9, IdleChanges
<1> QED BY <1>1, <1>3, <1>4, <1>5, <1>6, <1>7, <1>8, <1>9 DEF Next, Aside, Idle

\* The session never looks free while claude answers a message of the person or
\* the output of a command, however far the holder is behind with its reading.
THEOREM AnswersAreSeen ==
    ASSUME DistinctTexts
    PROVE  Spec => []AnswerIsSeen
<1>1. Init => Types /\ Places /\ QueueInv /\ Begun
  BY TypesInit, PlacesInit, QueueInit DEF Init, Begun
<1>2. Types /\ Places /\ QueueInv /\ Begun /\ [Next]_vars
      => (Types /\ Places /\ QueueInv /\ Begun)'
  BY TypesStep, PlacesStep, QueueStep, BegunStep
<1>3. Types /\ Begun => AnswerIsSeen
  <2> SUFFICES ASSUME Types, Begun, Open, NEW s \in ToSet(turn) \intersect Says
               PROVE  busy \/ queue # <<>>
    BY DEF AnswerIsSeen
  <2>1. turn # <<>>
    BY DEF ToSet
  <2>2. ASSUME NEW i \in 1 .. Len(out), Ahead(i) PROVE queue # <<>>
    <3>1. s \in ToSet(queue)
      BY <2>2 DEF Ahead
    <3> QED BY <3>1 DEF ToSet
  <2> QED BY <2>1, <2>2 DEF Begun, AtWork
<1> QED BY <1>1, <1>2, <1>3, PTL DEF Spec

-----------------------------------------------------------------------------
(* What the holder will make of the commands' words on their way.          *)

Other(e) == /\ e.type \notin {"printed", "not run"}
            /\ ~ (e.type = "completed" /\ e.id \in Cmds)

\* With a accepted and p noted, event e is that of the command it is taken for,
\* and leaves b and q.
Foresees(a, p, e, b, q) ==
    /\ e.type = "completed" /\ e.id \in Cmds =>
           IF p = None THEN b = Append(a, e.id) /\ q = None
                       ELSE p = e.id /\ b = a /\ q = None
    /\ e.type = "printed" =>
           IF a = <<>> THEN b = <<>> /\ q = e.id
                       ELSE a[1] = e.id /\ b = RemoveAt(a, 1) /\ q = p
    /\ e.type = "not run" => a # <<>> /\ a[Len(a)] = e.id /\ b = RemoveAt(a, Len(a)) /\ q = p
    /\ Other(e) => b = a /\ q = p

\* A newer claude's output is never noted, an older one's end never waits.
Mode(n, a, p) == IF n THEN p = None ELSE a = <<>>

\* So it goes for all the events of o.
Forecast(o, n, a, p, b, q) ==
    \E A \in [0 .. Len(o) -> Seq(Cmds)], P \in [0 .. Len(o) -> Cmds \union {None}] :
        /\ A[0] = a /\ P[0] = p /\ A[Len(o)] = b /\ P[Len(o)] = q
        /\ \A i \in 1 .. Len(o) : Foresees(A[i - 1], P[i - 1], o[i], A[i], P[i])
        /\ \A i \in 0 .. Len(o) : Mode(n, A[i], P[i])

\* Words that are no command's change nothing of what is accepted and noted.
LEMMA ForecastOthers ==
    ASSUME NEW o \in Seq(Events), \A e \in ToSet(o) : Other(e),
           NEW n, NEW a \in Seq(Cmds), NEW p \in Cmds \union {None}, Mode(n, a, p)
    PROVE  Forecast(o, n, a, p, a, p)
<1> DEFINE A == [i \in 0 .. Len(o) |-> a]
           P == [i \in 0 .. Len(o) |-> p]
<1>0. Len(o) \in Nat /\ \A i \in 1 .. Len(o) : o[i] \in ToSet(o)
  BY Positions
<1>1. A \in [0 .. Len(o) -> Seq(Cmds)] /\ P \in [0 .. Len(o) -> Cmds \union {None}]
  OBVIOUS
<1>2. /\ A[0] = a /\ P[0] = p /\ A[Len(o)] = a /\ P[Len(o)] = p
      /\ \A i \in 0 .. Len(o) : A[i] = a /\ P[i] = p
  BY <1>0
<1>3. \A i \in 1 .. Len(o) : i - 1 \in 0 .. Len(o) /\ i \in 0 .. Len(o)
  BY <1>0
<1> HIDE DEF A, P
<1>4. \A i \in 1 .. Len(o) : Foresees(A[i - 1], P[i - 1], o[i], A[i], P[i])
  <2> TAKE i \in 1 .. Len(o)
  <2>1. Foresees(a, p, o[i], a, p)
    BY <1>0 DEF Foresees, Other
  <2> QED BY <1>2, <1>3, <2>1
<1>5. \A i \in 0 .. Len(o) : Mode(n, A[i], P[i])
  BY <1>2
<1> QED BY <1>1, <1>2, <1>4, <1>5 DEF Forecast

\* One word.
LEMMA ForecastOne ==
    ASSUME NEW e \in Events, NEW n,
           NEW a \in Seq(Cmds), NEW p \in Cmds \union {None}, Mode(n, a, p),
           NEW b \in Seq(Cmds), NEW q \in Cmds \union {None}, Mode(n, b, q),
           Foresees(a, p, e, b, q)
    PROVE  Forecast(<<e>>, n, a, p, b, q)
<1> DEFINE A == [i \in 0 .. 1 |-> IF i = 0 THEN a ELSE b]
           P == [i \in 0 .. 1 |-> IF i = 0 THEN p ELSE q]
<1>1. A \in [0 .. 1 -> Seq(Cmds)] /\ P \in [0 .. 1 -> Cmds \union {None}]
  OBVIOUS
<1>2. A[0] = a /\ P[0] = p /\ A[1] = b /\ P[1] = q
  OBVIOUS
<1>3. Len(<<e>>) = 1 /\ <<e>>[1] = e
  OBVIOUS
<1> HIDE DEF A, P
<1>4. \A i \in 1 .. 1 : Foresees(A[i - 1], P[i - 1], <<e>>[i], A[i], P[i])
  BY <1>2, <1>3
<1>5. \A i \in 0 .. 1 : Mode(n, A[i], P[i])
  BY <1>2
<1> QED BY <1>1, <1>2, <1>3, <1>4, <1>5 DEF Forecast

\* Words after words.
LEMMA ForecastJoin ==
    ASSUME NEW o \in Seq(Events), NEW t \in Seq(Events), NEW n, NEW a, NEW p, NEW b, NEW q,
           NEW c, NEW r, Forecast(o, n, a, p, b, q), Forecast(t, n, b, q, c, r)
    PROVE  Forecast(o \o t, n, a, p, c, r)
<1>0. /\ Len(o) \in Nat /\ Len(t) \in Nat /\ Len(o \o t) = Len(o) + Len(t)
      /\ \A i \in 1 .. Len(o) : (o \o t)[i] = o[i]
      /\ \A i \in 1 .. Len(o \o t) :
             i \notin 1 .. Len(o) => /\ i > Len(o) /\ i - Len(o) \in 1 .. Len(t)
                                     /\ (o \o t)[i] = t[i - Len(o)]
  BY Joined, Positions
<1>1. PICK A \in [0 .. Len(o) -> Seq(Cmds)], P \in [0 .. Len(o) -> Cmds \union {None}] :
        /\ A[0] = a /\ P[0] = p /\ A[Len(o)] = b /\ P[Len(o)] = q
        /\ \A i \in 1 .. Len(o) : Foresees(A[i - 1], P[i - 1], o[i], A[i], P[i])
        /\ \A i \in 0 .. Len(o) : Mode(n, A[i], P[i])
  BY DEF Forecast
<1>2. PICK B \in [0 .. Len(t) -> Seq(Cmds)], Q \in [0 .. Len(t) -> Cmds \union {None}] :
        /\ B[0] = b /\ Q[0] = q /\ B[Len(t)] = c /\ Q[Len(t)] = r
        /\ \A i \in 1 .. Len(t) : Foresees(B[i - 1], Q[i - 1], t[i], B[i], Q[i])
        /\ \A i \in 0 .. Len(t) : Mode(n, B[i], Q[i])
  BY DEF Forecast
<1> DEFINE N == Len(o) + Len(t)
           C == [i \in 0 .. N |-> IF i <= Len(o) THEN A[i] ELSE B[i - Len(o)]]
           R == [i \in 0 .. N |-> IF i <= Len(o) THEN P[i] ELSE Q[i - Len(o)]]
<1>3. \A i \in 0 .. N : \/ i \in 0 .. Len(o)
                        \/ ~ i <= Len(o) /\ i - Len(o) \in 0 .. Len(t)
  BY <1>0
<1>4. C \in [0 .. N -> Seq(Cmds)] /\ R \in [0 .. N -> Cmds \union {None}]
  BY <1>3
<1>5. \A i \in 0 .. N : i <= Len(o) => i \in 0 .. Len(o) /\ C[i] = A[i] /\ R[i] = P[i]
  BY <1>0
<1>6. ASSUME NEW i \in 0 .. N, i >= Len(o)
      PROVE  i - Len(o) \in 0 .. Len(t) /\ C[i] = B[i - Len(o)] /\ R[i] = Q[i - Len(o)]
  <2>1. CASE i = Len(o)
    <3>1. i - Len(o) = 0 /\ 0 \in 0 .. Len(t) /\ i <= Len(o)
      BY <1>0, <2>1
    <3> QED BY <1>1, <1>2, <2>1, <3>1
  <2>2. CASE i # Len(o)
    BY <1>0, <1>6, <2>2
  <2> QED BY <2>1, <2>2
<1>7. 0 \in 0 .. N /\ N \in 0 .. N /\ N >= Len(o) /\ N - Len(o) = Len(t) /\ 0 <= Len(o)
  BY <1>0
<1>8. C[0] = a /\ R[0] = p /\ C[N] = c /\ R[N] = r
  BY <1>1, <1>2, <1>5, <1>6, <1>7
<1> HIDE DEF C, R
<1>9. ASSUME NEW i \in 1 .. N
      PROVE  Foresees(C[i - 1], R[i - 1], (o \o t)[i], C[i], R[i])
  <2>1. CASE i <= Len(o)
    <3>1. i \in 1 .. Len(o) /\ i \in 0 .. N /\ i - 1 \in 0 .. N /\ i - 1 <= Len(o)
      BY <1>0, <2>1
    <3> QED BY <1>0, <1>1, <1>5, <2>1, <3>1
  <2>2. CASE ~ i <= Len(o)
    <3>1. PICK k : k = i - Len(o)
      OBVIOUS
    <3>2. /\ k \in 1 .. Len(t) /\ i \in 0 .. N /\ i - 1 \in 0 .. N /\ i - 1 >= Len(o) /\ i >= Len(o)
          /\ (i - 1) - Len(o) = k - 1 /\ i \notin 1 .. Len(o)
      BY <1>0, <2>2, <3>1
    <3>3. (o \o t)[i] = t[k]
      BY <1>0, <3>1, <3>2
    <3>4. C[i] = B[k] /\ R[i] = Q[k]
      BY <1>6, <3>1, <3>2
    <3>5. C[i - 1] = B[k - 1] /\ R[i - 1] = Q[k - 1]
      BY <1>6, <3>2
    <3>6. Foresees(B[k - 1], Q[k - 1], t[k], B[k], Q[k])
      BY <1>2, <3>2
    <3> QED BY <3>3, <3>4, <3>5, <3>6
  <2> QED BY <2>1, <2>2
<1>10. ASSUME NEW i \in 0 .. N PROVE Mode(n, C[i], R[i])
  <2>1. CASE i <= Len(o)
    BY <1>1, <1>5, <2>1
  <2>2. CASE ~ i <= Len(o)
    <3>1. i >= Len(o)
      BY <1>0, <2>2
    <3> QED BY <1>2, <1>6, <3>1
  <2> QED BY <2>1, <2>2
<1> QED BY <1>0, <1>4, <1>8, <1>9, <1>10 DEF Forecast

\* The first of the events is read.
LEMMA ForecastRead ==
    ASSUME NEW o \in Seq(Events), o # <<>>, NEW n, NEW a, NEW p, NEW b, NEW q,
           Forecast(o, n, a, p, b, q)
    PROVE  \E c \in Seq(Cmds), r \in Cmds \union {None} :
               /\ Foresees(a, p, Head(o), c, r)
               /\ Mode(n, a, p) /\ Mode(n, c, r)
               /\ Forecast(Tail(o), n, c, r, b, q)
<1>0. /\ Len(o) \in Nat \ {0} /\ Len(Tail(o)) = Len(o) - 1 /\ Head(o) = o[1]
      /\ \A i \in 1 .. Len(o) - 1 : Tail(o)[i] = o[i + 1]
  BY Tailed
<1>1. PICK A \in [0 .. Len(o) -> Seq(Cmds)], P \in [0 .. Len(o) -> Cmds \union {None}] :
        /\ A[0] = a /\ P[0] = p /\ A[Len(o)] = b /\ P[Len(o)] = q
        /\ \A i \in 1 .. Len(o) : Foresees(A[i - 1], P[i - 1], o[i], A[i], P[i])
        /\ \A i \in 0 .. Len(o) : Mode(n, A[i], P[i])
  BY DEF Forecast
<1> DEFINE N == Len(Tail(o))
           C == [i \in 0 .. N |-> A[i + 1]]
           R == [i \in 0 .. N |-> P[i + 1]]
<1>2. /\ N \in Nat /\ N + 1 = Len(o) /\ 0 \in 0 .. N /\ N \in 0 .. N /\ 0 + 1 = 1
      /\ \A i \in 0 .. N : i + 1 \in 0 .. Len(o)
      /\ \A i \in 1 .. N : /\ i \in 0 .. N /\ i - 1 \in 0 .. N /\ i + 1 \in 1 .. Len(o)
                           /\ (i - 1) + 1 = i /\ (i + 1) - 1 = i /\ i \in 1 .. Len(o) - 1
  BY <1>0
<1>3. C \in [0 .. N -> Seq(Cmds)] /\ R \in [0 .. N -> Cmds \union {None}]
  BY <1>2
<1>4. \A i \in 0 .. N : C[i] = A[i + 1] /\ R[i] = P[i + 1]
  OBVIOUS
<1> HIDE DEF N, C, R
<1>5. C[0] = A[1] /\ R[0] = P[1] /\ C[N] = b /\ R[N] = q
  BY <1>1, <1>2, <1>4
<1>6. ASSUME NEW i \in 1 .. N
      PROVE  Foresees(C[i - 1], R[i - 1], Tail(o)[i], C[i], R[i])
  <2>1. C[i - 1] = A[i] /\ R[i - 1] = P[i] /\ C[i] = A[i + 1] /\ R[i] = P[i + 1]
    BY <1>2, <1>4
  <2>2. Foresees(A[i], P[i], o[i + 1], A[i + 1], P[i + 1])
    <3>1. i + 1 \in 1 .. Len(o) /\ (i + 1) - 1 = i
      BY <1>2
    <3> QED BY <1>1, <3>1
  <2>3. Tail(o)[i] = o[i + 1]
    BY <1>0, <1>2
  <2> QED BY <2>1, <2>2, <2>3
<1>7. \A i \in 0 .. N : Mode(n, C[i], R[i])
  BY <1>1, <1>2, <1>4
<1>8. Forecast(Tail(o), n, A[1], P[1], b, q)
  BY <1>3, <1>5, <1>6, <1>7 DEF Forecast, N
<1>9. /\ 0 \in 0 .. Len(o) /\ 1 \in 0 .. Len(o) /\ 1 \in 1 .. Len(o) /\ 1 - 1 = 0
  BY <1>0
<1>10. Foresees(a, p, Head(o), A[1], P[1]) /\ Mode(n, a, p) /\ Mode(n, A[1], P[1])
  BY <1>0, <1>1, <1>9
<1> QED BY <1>1, <1>8, <1>9, <1>10

\* The last of them are lost.
LEMMA ForecastCut ==
    ASSUME NEW o \in Seq(Events), NEW k \in 0 .. Len(o), NEW n, NEW a, NEW p, NEW b, NEW q,
           Forecast(o, n, a, p, b, q)
    PROVE  \E c \in Seq(Cmds), r \in Cmds \union {None} :
               Forecast(SubSeq(o, 1, k), n, a, p, c, r)
<1>0. /\ Len(o) \in Nat /\ k \in Nat /\ k <= Len(o)
      /\ Len(SubSeq(o, 1, k)) = k
      /\ \A i \in 1 .. k : i \in 1 .. Len(o) /\ SubSeq(o, 1, k)[i] = o[i]
  <2>1. Len(o) \in Nat /\ \A i \in 1 .. Len(o) : o[i] \in Events
    BY Positions
  <2>2. \A i \in 1 .. k - 1 + 1 : SubSeq(o, 1, k)[i] = o[1 + i - 1]
    BY <2>1, SubSeqProperties
  <2>3. Len(SubSeq(o, 1, k)) = k
    BY Cut
  <2> QED BY <2>1, <2>2, <2>3
<1>1. PICK A \in [0 .. Len(o) -> Seq(Cmds)], P \in [0 .. Len(o) -> Cmds \union {None}] :
        /\ A[0] = a /\ P[0] = p /\ A[Len(o)] = b /\ P[Len(o)] = q
        /\ \A i \in 1 .. Len(o) : Foresees(A[i - 1], P[i - 1], o[i], A[i], P[i])
        /\ \A i \in 0 .. Len(o) : Mode(n, A[i], P[i])
  BY DEF Forecast
<1> DEFINE C == [i \in 0 .. k |-> A[i]]
           R == [i \in 0 .. k |-> P[i]]
<1>2. /\ 0 \in 0 .. k /\ k \in 0 .. k /\ k \in 0 .. Len(o)
      /\ \A i \in 0 .. k : i \in 0 .. Len(o)
      /\ \A i \in 1 .. k : i \in 0 .. k /\ i - 1 \in 0 .. k
  BY <1>0
<1>3. C \in [0 .. k -> Seq(Cmds)] /\ R \in [0 .. k -> Cmds \union {None}]
  BY <1>2
<1>4. \A i \in 0 .. k : C[i] = A[i] /\ R[i] = P[i]
  OBVIOUS
<1> HIDE DEF C, R
<1>5. C[0] = a /\ R[0] = p /\ C[k] = A[k] /\ R[k] = P[k]
  BY <1>1, <1>2, <1>4
<1>6. \A i \in 1 .. k : Foresees(C[i - 1], R[i - 1], SubSeq(o, 1, k)[i], C[i], R[i])
  BY <1>0, <1>1, <1>2, <1>4
<1>7. \A i \in 0 .. k : Mode(n, C[i], R[i])
  BY <1>1, <1>2, <1>4
<1>8. Forecast(SubSeq(o, 1, k), n, a, p, A[k], P[k])
  <2>1. PICK s : s = SubSeq(o, 1, k)
    OBVIOUS
  <2>2. Len(s) = k /\ \A i \in 1 .. k : Foresees(C[i - 1], R[i - 1], s[i], C[i], R[i])
    BY <1>0, <1>6, <2>1
  <2>3. Forecast(s, n, a, p, A[k], P[k])
    BY <1>3, <1>5, <1>7, <2>2 DEF Forecast
  <2> QED BY <2>1, <2>3
<1> QED BY <1>1, <1>2, <1>8

\* Sequences of one and of two, and those with one more or one less.
LEMMA Single ==
    ASSUME NEW S, NEW s \in Seq(S), Len(s) = 1
    PROVE  s[1] \in S /\ s = <<s[1]>>
<1>1. 1 \in 1 .. Len(s) /\ s[1] \in S
  BY Positions
<1>2. <<s[1]>> \in Seq(S) /\ Len(<<s[1]>>) = 1 /\ <<s[1]>>[1] = s[1]
  BY <1>1
<1>3. \A i \in 1 .. Len(s) : i = 1
  OBVIOUS
<1>4. PICK t \in Seq(S) : t = <<s[1]>>
  BY <1>2
<1> QED BY <1>1, <1>2, <1>3, <1>4, SeqEqual

LEMMA Double ==
    ASSUME NEW S, NEW s \in Seq(S), Len(s) = 2
    PROVE  s[1] \in S /\ s[2] \in S /\ s = <<s[1], s[2]>>
<1>1. s[1] \in S /\ s[2] \in S
  BY Positions
<1>2. /\ <<s[1], s[2]>> \in Seq(S) /\ Len(<<s[1], s[2]>>) = 2
      /\ <<s[1], s[2]>>[1] = s[1] /\ <<s[1], s[2]>>[2] = s[2]
  BY <1>1
<1>3. \A i \in 1 .. Len(s) : i = 1 \/ i = 2
  OBVIOUS
<1>4. PICK t \in Seq(S) : t = <<s[1], s[2]>>
  BY <1>2
<1> QED BY <1>1, <1>2, <1>3, <1>4, SeqEqual

LEMMA Brief ==
    ASSUME NEW S, NEW a \in S, NEW b \in S
    PROVE  /\ Append(<<>>, a) = <<a>> /\ Append(<<a>>, b) = <<a, b>>
           /\ <<a>> \o <<b>> = <<a, b>>
           /\ \A s \in Seq(S) : Append(s, a) = s \o <<a>>
           /\ RemoveAt(<<a>>, 1) = <<>>
           /\ RemoveAt(<<a, b>>, 2) = <<a>>
           /\ \A s \in Seq(S) : s # <<>> /\ Len(s) <= 1 => s = <<Head(s)>>
<1>1. /\ <<>> \in Seq(S) /\ <<a>> \in Seq(S) /\ <<b>> \in Seq(S) /\ <<a, b>> \in Seq(S)
      /\ Len(<<>>) = 0 /\ Len(<<a>>) = 1 /\ Len(<<b>>) = 1 /\ Len(<<a, b>>) = 2
      /\ <<a>>[1] = a /\ <<b>>[1] = b /\ <<a, b>>[1] = a /\ <<a, b>>[2] = b
  OBVIOUS
<1>2. \A s \in Seq(S) : Append(s, a) = s \o <<a>>
  BY AppendIsConcat
<1>3. Append(<<>>, a) = <<a>>
  <2>1. PICK e \in Seq(S) : e = <<>>
    BY <1>1
  <2>2. /\ Append(e, a) \in Seq(S) /\ Len(Append(e, a)) = 1 /\ Append(e, a)[1] = a
    BY <1>1, <2>1, AppendProperties
  <2> QED BY <2>1, <2>2, Single
<1>4. Append(<<a>>, b) = <<a, b>>
  <2>1. PICK e \in Seq(S) : e = <<a>> /\ Len(e) = 1 /\ e[1] = a
    BY <1>1
  <2>2. PICK t : t = Append(e, b)
    OBVIOUS
  <2>3. t \in Seq(S) /\ Len(t) = 2 /\ t[2] = b /\ t[1] = a
    BY <2>1, <2>2, AppendProperties
  <2>4. t = <<t[1], t[2]>>
    BY <2>3, Double
  <2> QED BY <2>1, <2>2, <2>3, <2>4
<1>5. <<a>> \o <<b>> = <<a, b>>
  <2>1. PICK e \in Seq(S) : e = <<a>>
    BY <1>1
  <2>2. Append(e, b) = e \o <<b>>
    BY AppendIsConcat
  <2> QED BY <1>4, <2>1, <2>2
<1>6. RemoveAt(<<a>>, 1) = <<>>
  <2>1. PICK s : s = <<a>>
    OBVIOUS
  <2>2. s \in Seq(S) /\ 1 \in 1 .. Len(s) /\ Len(s) = 1
    BY <1>1, <2>1
  <2>3. RemoveAt(s, 1) \in Seq(S) /\ Len(RemoveAt(s, 1)) = 0
    BY <2>2, WithoutOne
  <2>4. RemoveAt(s, 1) = <<>>
    BY <2>3, Positions
  <2> QED BY <2>1, <2>4
<1>7. RemoveAt(<<a, b>>, 2) = <<a>>
  <2>1. PICK s : s = <<a, b>>
    OBVIOUS
  <2>0. s \in Seq(S) /\ Len(s) = 2 /\ s[1] = a
    BY <1>1, <2>1
  <2>2. SubSeq(s, 3, 2) = <<>>
    BY SubSeqEmpty
  <2>3. SubSeq(s, 1, 1) = <<a>>
    <3>1. /\ SubSeq(s, 1, 1) \in Seq(S) /\ Len(SubSeq(s, 1, 1)) = 1
      BY <2>0, Cut
    <3>2. SubSeq(s, 1, 1)[1] = s[1]
      <4>1. \A i \in 1 .. 1 : s[i] \in S
        BY <2>0, Positions
      <4>2. \A i \in 1 .. 1 - 1 + 1 : SubSeq(s, 1, 1)[i] = s[1 + i - 1]
        BY <4>1, SubSeqProperties
      <4> QED BY <4>2
    <3> QED BY <2>0, <3>1, <3>2, Single
  <2>4. RemoveAt(s, 2) = SubSeq(s, 1, 1) \o SubSeq(s, 3, 2)
    BY <2>0 DEF RemoveAt
  <2>5. <<a>> \o <<>> = <<a>>
    BY <1>1, ConcatEmptySeq
  <2> QED BY <2>1, <2>2, <2>3, <2>4, <2>5
<1>8. ASSUME NEW s \in Seq(S), s # <<>>, Len(s) <= 1 PROVE s = <<Head(s)>>
  <2>1. Len(s) \in Nat \ {0} /\ Head(s) = s[1]
    BY <1>8, Tailed
  <2>2. Len(s) = 1
    BY <1>8, <2>1
  <2> QED BY <2>1, <2>2, Single
<1> QED BY <1>2, <1>3, <1>4, <1>5, <1>6, <1>7, <1>8

\* What the holder will have accepted once it has read it all is what runs; and
\* nothing is left of a claude that is gone.
ForecastInv ==
    /\ \E b \in Seq(Cmds), q \in Cmds \union {None} :
           /\ Forecast(out, newer, accepted, printed, b, q)
           /\ alive => b = (IF newer THEN running ELSE <<>>) /\ q = None
    /\ ~ alive => pipe = <<>> /\ running = <<>>

LEMMA ForecastModes ==
    ASSUME NEW o, Len(o) \in Nat, NEW n, NEW a, NEW p, NEW b, NEW q, Forecast(o, n, a, p, b, q)
    PROVE  Mode(n, a, p) /\ Mode(n, b, q)
<1>1. 0 \in 0 .. Len(o) /\ Len(o) \in 0 .. Len(o)
  OBVIOUS
<1> QED BY <1>1 DEF Forecast

\* Words that are none of a command's change nothing.
LEMMA ForecastIdle ==
    ASSUME ClaudeTypes, ForecastInv, NEW events \in Seq(Events), Tells(events) \/ out' = out,
           \A e \in ToSet(events) : Other(e),
           UNCHANGED <<newer, accepted, printed, running, alive>>,
           ~ alive => pipe' = <<>>
    PROVE  ForecastInv'
<1>1. PICK b \in Seq(Cmds), q \in Cmds \union {None} :
          /\ Forecast(out, newer, accepted, printed, b, q)
          /\ alive => b = (IF newer THEN running ELSE <<>>) /\ q = None
  BY DEF ForecastInv
<1>2. Forecast(out', newer, accepted, printed, b, q)
  <2>1. CASE out' = out
    BY <1>1, <2>1
  <2>2. CASE Tells(events)
    <3>1. out \in Seq(Events) /\ out' = out \o events /\ Len(out) \in Nat
      BY <2>2, Positions DEF ClaudeTypes, Tells
    <3>2. Mode(newer, b, q)
      BY <1>1, <3>1, ForecastModes
    <3>3. Forecast(events, newer, b, q, b, q)
      BY <3>2, ForecastOthers
    <3>4. Forecast(out \o events, newer, accepted, printed, b, q)
      BY <1>1, <3>1, <3>3, ForecastJoin
    <3> QED BY <3>1, <3>4
  <2> QED BY <2>1, <2>2
<1> QED BY <1>1, <1>2 DEF ForecastInv

LEMMA ForecastCommandRead ==
    ASSUME ClaudeTypes, ForecastInv, ReadCommand, UNCHANGED <<accepted, printed>>
    PROVE  ForecastInv'
<1>0. /\ alive /\ UNCHANGED <<alive, newer>> /\ newer \in BOOLEAN
      /\ out \in Seq(Events) /\ Len(out) \in Nat
      /\ running \in Seq(Cmds) /\ Len(running) <= 1
  BY Positions DEF ReadCommand, ForecastInv, ClaudeTypes
<1>1. PICK b \in Seq(Cmds) :
          /\ Forecast(out, newer, accepted, printed, b, None)
          /\ b = IF newer THEN running ELSE <<>>
  BY <1>0 DEF ForecastInv
<1>2. PICK c : c = Head(pipe).id
  OBVIOUS
<1>3. c \in Cmds
  <2>1. Head(pipe) \in Lines /\ Head(pipe).kind = "command"
    BY Tailed DEF ReadCommand, ClaudeTypes
  <2> QED BY <1>2, <2>1, LineOut
<1>4. CASE ~ newer
  <2>1. out' = out
    BY <1>2, <1>4 DEF ReadCommand
  <2> QED BY <1>0, <1>1, <1>4, <2>1 DEF ForecastInv
<1>5. CASE newer
  <2>1. PICK x \in Events, y \in Events, z \in Events :
            x = Event("started", c) /\ y = Event("completed", c) /\ z = Event("not run", c)
    BY <1>3, EventIn
  <2>2. /\ x.type = "started" /\ x.id = c /\ y.type = "completed" /\ y.id = c
        /\ z.type = "not run" /\ z.id = c
    BY <2>1 DEF Event
  <2>3. <<x>> \in Seq(Events) /\ ToSet(<<x>>) = {x} /\ <<y>> \in Seq(Events) /\ <<z>> \in Seq(Events)
        /\ <<x, y>> \in Seq(Events)
    <3>1. <<x>> \in Seq(Events) /\ ToSet(<<x>>) = {x}
      BY Short
    <3>2. <<y>> \in Seq(Events) /\ <<z>> \in Seq(Events) /\ <<x, y>> \in Seq(Events)
      OBVIOUS
    <3> QED BY <3>1, <3>2
  <2>4. /\ Mode(newer, b, None) /\ Append(b, c) \in Seq(Cmds) /\ Mode(newer, Append(b, c), None)
    BY <1>3, <1>5 DEF Mode
  <2>5. Forecast(<<x>>, newer, b, None, b, None)
    <3>1. Other(x)
      BY <2>2 DEF Other
    <3> QED BY <2>3, <2>4, <3>1, ForecastOthers
  <2>6. Forecast(<<y>>, newer, b, None, Append(b, c), None)
    <3>1. Foresees(b, None, y, Append(b, c), None)
      BY <1>3, <2>2 DEF Foresees, Other
    <3> QED BY <2>4, <3>1, ForecastOne
  <2>7. Forecast(<<x, y>>, newer, b, None, Append(b, c), None)
    <3>1. Forecast(<<x>> \o <<y>>, newer, b, None, Append(b, c), None)
      BY <2>3, <2>5, <2>6, ForecastJoin
    <3>2. <<x>> \o <<y>> = <<x, y>>
      BY Brief
    <3> QED BY <3>1, <3>2
  <2>8. CASE running = <<>>
    <3>1. out' = out \o <<x, y>> /\ running' = <<c>>
      BY <1>2, <1>5, <2>1, <2>8 DEF ReadCommand, Tells
    <3>2. Append(b, c) = <<c>>
      BY <1>1, <1>3, <1>5, <2>8, Brief
    <3>3. Forecast(out \o <<x, y>>, newer, accepted, printed, Append(b, c), None)
      BY <1>0, <1>1, <2>3, <2>7, ForecastJoin
    <3>4. Forecast(out', newer', accepted', printed', <<c>>, None)
      BY <1>0, <3>1, <3>2, <3>3
    <3>5. <<c>> \in Seq(Cmds)
      BY <1>3
    <3> QED BY <1>0, <1>5, <3>1, <3>4, <3>5 DEF ForecastInv
  <2>9. CASE running # <<>>
    <3>1. out' = out \o Append(<<x, y>>, z) /\ running' = running
      BY <1>2, <1>5, <2>1, <2>9 DEF ReadCommand, Tells
    <3>2. PICK r \in Cmds : b = <<r>>
      <4>1. running = <<Head(running)>> /\ Head(running) \in Cmds
        BY <1>0, <1>3, <2>9, Brief, Tailed
      <4> QED BY <1>1, <1>5, <4>1
    <3>0. <<r, c>> \in Seq(Cmds) /\ Len(<<r, c>>) = 2 /\ <<r, c>>[2] = c
      BY <1>3
    <3>00. Append(<<r>>, c) = <<r, c>> /\ RemoveAt(<<r, c>>, 2) = <<r>>
      BY <1>3, Brief
    <3>3. PICK d \in Seq(Cmds) : d = Append(b, c) /\ d = <<r, c>> /\ Len(d) = 2 /\ d[2] = c
      BY <3>0, <3>00, <3>2
    <3>4. RemoveAt(d, Len(d)) = b
      BY <3>00, <3>2, <3>3
    <3>5. Foresees(d, None, z, b, None)
      <4>1. d # <<>> /\ d[Len(d)] = c
        BY <3>3
      <4> QED BY <2>2, <3>4, <4>1 DEF Foresees, Other
    <3>6. Forecast(<<z>>, newer, d, None, b, None)
      BY <2>4, <3>3, <3>5, ForecastOne
    <3>7. Forecast(<<x, y>> \o <<z>>, newer, b, None, b, None)
      BY <2>3, <2>7, <3>3, <3>6, ForecastJoin
    <3>8. Append(<<x, y>>, z) = <<x, y>> \o <<z>> /\ <<x, y>> \o <<z>> \in Seq(Events)
      BY <2>3, Brief, ConcatProperties
    <3>9. Forecast(out \o (<<x, y>> \o <<z>>), newer, accepted, printed, b, None)
      BY <1>0, <1>1, <3>7, <3>8, ForecastJoin
    <3>10. Forecast(out', newer', accepted', printed', b, None)
      BY <1>0, <3>1, <3>8, <3>9
    <3> QED BY <1>0, <1>1, <1>5, <3>1, <3>10 DEF ForecastInv
  <2> QED BY <2>8, <2>9
<1> QED BY <1>0, <1>4, <1>5

LEMMA ForecastCommandEnd ==
    ASSUME ClaudeTypes, ForecastInv, CommandEnds, UNCHANGED <<accepted, printed>>
    PROVE  ForecastInv'
<1>0. /\ alive /\ UNCHANGED <<alive, newer>> /\ newer \in BOOLEAN /\ running # <<>> /\ running' = <<>>
      /\ out \in Seq(Events) /\ Len(out) \in Nat
      /\ running \in Seq(Cmds) /\ Len(running) <= 1
  BY Positions DEF CommandEnds, ForecastInv, ClaudeTypes
<1>1. PICK b \in Seq(Cmds) :
          /\ Forecast(out, newer, accepted, printed, b, None)
          /\ b = IF newer THEN running ELSE <<>>
  BY <1>0 DEF ForecastInv
<1>2. PICK c \in Cmds : c = Head(running) /\ running = <<c>>
  <2>1. Head(running) \in Cmds
    BY <1>0, Tailed
  <2> QED BY <1>0, <2>1, Brief
<1>3. PICK x \in Events, y \in Events : x = Event("printed", c) /\ y = Event("completed", c)
  BY EventIn
<1>4. x.type = "printed" /\ x.id = c /\ y.type = "completed" /\ y.id = c
  BY <1>3 DEF Event
<1>5. <<x>> \in Seq(Events) /\ <<y>> \in Seq(Events) /\ <<x, y>> \in Seq(Events) /\ <<>> \in Seq(Cmds)
  OBVIOUS
<1>6. CASE newer
  <2>1. out' = out \o <<x>>
    BY <1>2, <1>3, <1>6 DEF CommandEnds, Tells
  <2>2. b = <<c>>
    BY <1>1, <1>2, <1>6
  <2>3. Foresees(b, None, x, <<>>, None)
    <3>1. b # <<>> /\ b[1] = c /\ RemoveAt(b, 1) = <<>>
      BY <2>2, Brief
    <3> QED BY <1>4, <3>1 DEF Foresees, Other
  <2>4. Mode(newer, b, None) /\ Mode(newer, <<>>, None)
    BY <1>6 DEF Mode
  <2>5. Forecast(<<x>>, newer, b, None, <<>>, None)
    BY <1>5, <2>3, <2>4, ForecastOne
  <2>6. Forecast(out \o <<x>>, newer, accepted, printed, <<>>, None)
    BY <1>0, <1>1, <1>5, <2>5, ForecastJoin
  <2>7. Forecast(out', newer', accepted', printed', <<>>, None)
    BY <1>0, <2>1, <2>6
  <2> QED BY <1>0, <1>5, <1>6, <2>7 DEF ForecastInv
<1>7. CASE ~ newer
  <2>1. out' = out \o <<x, y>>
    BY <1>2, <1>3, <1>7 DEF CommandEnds, Tells
  <2>2. b = <<>>
    BY <1>1, <1>7
  <2>3. Mode(newer, <<>>, None) /\ Mode(newer, <<>>, c)
    BY <1>7 DEF Mode
  <2>4. Foresees(<<>>, None, x, <<>>, c)
    BY <1>4 DEF Foresees, Other
  <2>5. Foresees(<<>>, c, y, <<>>, None)
    <3>1. c # None
      BY IdsAssumption
    <3> QED BY <1>4, <3>1 DEF Foresees, Other
  <2>6. Forecast(<<x>>, newer, <<>>, None, <<>>, c)
    BY <1>5, <2>3, <2>4, ForecastOne
  <2>7. Forecast(<<y>>, newer, <<>>, c, <<>>, None)
    BY <1>5, <2>3, <2>5, ForecastOne
  <2>8. Forecast(<<x>> \o <<y>>, newer, <<>>, None, <<>>, None)
    BY <1>5, <2>6, <2>7, ForecastJoin
  <2>9. <<x>> \o <<y>> = <<x, y>>
    BY Brief
  <2>10. Forecast(out \o <<x, y>>, newer, accepted, printed, <<>>, None)
    BY <1>0, <1>1, <1>5, <2>2, <2>8, <2>9, ForecastJoin
  <2>11. Forecast(out', newer', accepted', printed', <<>>, None)
    BY <1>0, <2>1, <2>10
  <2> QED BY <1>0, <1>5, <1>7, <2>11 DEF ForecastInv
<1> QED BY <1>0, <1>6, <1>7

\* Claude ends, and the last of its words are lost.
LEMMA ForecastExit ==
    ASSUME ClaudeTypes, ForecastInv, Exit, UNCHANGED <<accepted, printed>>
    PROVE  ForecastInv'
<1>1. PICK b \in Seq(Cmds), q \in Cmds \union {None} : Forecast(out, newer, accepted, printed, b, q)
  BY DEF ForecastInv
<1>2. PICK n \in 0 .. Len(out) : out' = SubSeq(out, 1, n)
  BY DEF Exit
<1>3. PICK c \in Seq(Cmds), r \in Cmds \union {None} :
          Forecast(SubSeq(out, 1, n), newer, accepted, printed, c, r)
  <2>1. out \in Seq(Events)
    BY DEF ClaudeTypes
  <2> QED BY <1>1, <2>1, ForecastCut
<1>4. Forecast(out', newer', accepted', printed', c, r)
  BY <1>2, <1>3 DEF Exit
<1>5. ~ alive' /\ pipe' = <<>> /\ running' = <<>>
  BY DEF Exit
<1> QED BY <1>4, <1>5 DEF ForecastInv

\* Of what claude writes besides, nothing is about a command.
LEMMA NoCommandSays ==
    ASSUME ClaudeTypes,
           TakeUp \/ ReadMessage \/ ReadCancel \/ BeginOwnTurn \/ EndTurn
    PROVE  \E events \in Seq(Events) :
               /\ Tells(events) \/ out' = out
               /\ \A e \in ToSet(events) : e.id \notin Cmds
<1>0. <<>> \in Seq(Events) /\ ToSet(<<>>) = {} /\ turn \in Seq(Inputs \union {Self})
  BY EmptySeq DEF ToSet, ClaudeTypes
<1>1. (Inputs \union {Self}) \intersect Cmds = {} /\ Msgs \intersect Cmds = {}
  BY IdsAssumption DEF Inputs, Says
<1>2. CASE TakeUp
  <2>1. PICK h : h = Head(inbox)
    OBVIOUS
  <2>2. PICK events \in Seq(Events) :
            h \in Inputs /\ Tells(events) /\ \A e \in ToSet(events) : e.id = h
    BY <1>2, <2>1, TakeUpSays
  <2> QED BY <1>1, <2>2
<1>3. CASE ReadMessage
  BY <1>0, <1>3 DEF ReadMessage
<1>4. CASE ReadCancel
  <2>1. PICK m : m = Head(pipe).id
    OBVIOUS
  <2>2. m \in Msgs
    <3>1. Head(pipe) \in Lines /\ Head(pipe).kind = "cancel"
      BY <1>4, Tailed DEF ReadCancel, ClaudeTypes
    <3> QED BY <2>1, <3>1, LineOut
  <2>3. PICK a \in Events, b \in Events : a = Event("cancelled", m) /\ b = Event("not cancelled", m)
    BY <2>2, EventIn
  <2>4. a.id = m /\ b.id = m
    BY <2>3 DEF Event
  <2>5. <<a>> \in Seq(Events) /\ ToSet(<<a>>) = {a}
    BY Short
  <2>6. <<b>> \in Seq(Events) /\ ToSet(<<b>>) = {b}
    BY Short
  <2>7. Tells(<<a>>) \/ Tells(<<b>>)
    BY <1>4, <2>1, <2>3 DEF ReadCancel
  <2> QED BY <1>1, <2>2, <2>4, <2>5, <2>6, <2>7
<1>5. CASE BeginOwnTurn
  <2>1. PICK a \in Events : a = Event("init", Self)
    BY EventIn
  <2>2. a.id = Self
    BY <2>1 DEF Event
  <2>3. <<a>> \in Seq(Events) /\ ToSet(<<a>>) = {a} /\ Tells(<<a>>)
    BY <1>5, <2>1, Short DEF BeginOwnTurn
  <2> QED BY <1>1, <2>2, <2>3
<1>6. CASE EndTurn
  <2>1. Tells(EndWords) /\ turn # <<>>
    BY <1>6 DEF EndTurn, EndWords, Ended
  <2>2. EndWords \in Seq(Events) /\ \A e \in ToSet(EndWords) :
            e.type = "result" \/ (e.type = "completed" /\ e.id \in ToSet(turn))
    BY <1>0, <2>1, EndWordsAre
  <2>3. ASSUME NEW e \in ToSet(EndWords) PROVE e.id \in Inputs \union {Self}
    <3>1. e \in Events /\ ToSet(turn) \subseteq Inputs \union {Self}
      BY <1>0, <2>2, Positions
    <3> QED BY <2>2, <3>1, EventOut
  <2> QED BY <1>1, <2>1, <2>2, <2>3
<1> QED BY <1>2, <1>3, <1>4, <1>5, <1>6

-----------------------------------------------------------------------------
(* Where a shell command is.                                               *)

CommandLine(c) == Line("command", c) \in ToSet(pipe)
InRun(c) == c \in ToSet(running)
Words(c) == \E e \in ToSet(out) : e.id = c
NoneLeft(c) == ~ CommandLine(c) /\ ~ InRun(c) /\ ~ Words(c)

\* What the holder passes the output on at, and the last claude says of it.
LastTypes == IF newer THEN {"printed", "not run"} ELSE {"completed"}
LastWord(i, c) == out[i].id = c /\ out[i].type \in LastTypes
Closing(c) == \A i \in 1 .. Len(out) :
                  LastWord(i, c) => /\ ~ CommandLine(c) /\ ~ InRun(c)
                                    /\ \A j \in 1 .. Len(out) : j > i => out[j].id # c

\* A command is listed until its output is written; and of one not written, or
\* of one whose output is known, claude has nothing more to say.
CommandOf(c) ==
    /\ pc[c] \in Unwritten => NoneLeft(c) /\ output[c] = None
    /\ output[c] # None => NoneLeft(c)
    /\ pc[Out(c)] # "idle" => output[c] # None
    /\ c \notin ToSet(shells) => /\ NoneLeft(c) /\ pc[c] # "listed"
                                 /\ output[c] = None \/ pc[Out(c)] \notin {"idle", "listed"}
    /\ CommandLine(c) => ~ InRun(c)
    /\ Closing(c)

Commands == \A c \in Cmds : CommandOf(c)

\* A step of the holder that reads nothing.
LEMMA CommandKept ==
    ASSUME NEW c \in Cmds, CommandOf(c), UNCHANGED <<running, out, newer>>,
           CommandLine(c)' => CommandLine(c),
           pc'[c] = pc[c], output'[c] = output[c],
           \/ pc'[Out(c)] = pc[Out(c)]
           \/ /\ output[c] # None
              /\ pc[Out(c)] \notin {"idle", "listed"} => pc'[Out(c)] \notin {"idle", "listed"},
           c \notin ToSet(shells)' => c \notin ToSet(shells)
    PROVE  CommandOf(c)'
<1>1. (InRun(c)' <=> InRun(c)) /\ (Words(c)' <=> Words(c))
  BY DEF InRun, Words
<1>2. NoneLeft(c) => NoneLeft(c)'
  BY <1>1 DEF NoneLeft
<1>3. Closing(c)'
  BY <1>1 DEF CommandOf, Closing, LastWord, LastTypes
<1> QED BY <1>1, <1>2, <1>3 DEF CommandOf

\* Claude says nothing of the command.
LEMMA CommandMore ==
    ASSUME ClaudeTypes, NEW c \in Cmds, CommandOf(c), UNCHANGED <<newer, pc, output, shells>>,
           CommandLine(c)' => CommandLine(c), InRun(c)' => InRun(c),
           NEW events \in Seq(Events), Tells(events) \/ out' = out,
           \A e \in ToSet(events) : e.id # c
    PROVE  CommandOf(c)'
<1>0. /\ Len(out) \in Nat
      /\ \A i \in 1 .. Len(out) : i \in 1 .. Len(out') /\ out'[i] = out[i]
      /\ \A i \in 1 .. Len(out') : \/ i \in 1 .. Len(out) /\ out'[i] = out[i]
                                   \/ i > Len(out) /\ out'[i] \in ToSet(events)
  <2>1. Len(out) \in Nat
    BY Positions DEF ClaudeTypes
  <2>2. CASE out' = out
    BY <2>1, <2>2
  <2>3. CASE Tells(events)
    BY <2>3, OutAfter
  <2> QED BY <2>2, <2>3
<1>1. Words(c)' => Words(c)
  <2>1. CASE out' = out
    BY <2>1 DEF Words
  <2>2. CASE Tells(events)
    BY <2>2, OutMore DEF Words
  <2> QED BY <2>1, <2>2
<1>2. NoneLeft(c) => NoneLeft(c)'
  BY <1>1 DEF NoneLeft
<1>3. Closing(c)'
  <2> SUFFICES ASSUME NEW i \in 1 .. Len(out'), LastWord(i, c)'
               PROVE  /\ ~ CommandLine(c)' /\ ~ InRun(c)'
                      /\ \A j \in 1 .. Len(out') : j > i => out'[j].id # c
    BY DEF Closing
  <2>1. i \in 1 .. Len(out) /\ LastWord(i, c)
    BY <1>0 DEF LastWord, LastTypes
  <2>2. /\ ~ CommandLine(c) /\ ~ InRun(c)
        /\ \A j \in 1 .. Len(out) : j > i => out[j].id # c
    BY <2>1 DEF CommandOf, Closing
  <2> QED BY <1>0, <2>2
<1> QED BY <1>2, <1>3 DEF CommandOf

\* The holder knows whose output it passes on.
LEMMA ReaderForecast ==
    ASSUME Types, Commands, ForecastInv, Reader
    PROVE  /\ ForecastInv'
           /\ \/ output' = output
              \/ \E h \in Cmds : out # <<>> /\ LastWord(1, h) /\ output' = [output EXCEPT ![h] = h]
<1>0. /\ ClaudeTypes /\ out \in Seq(Events) /\ accepted \in Seq(Cmds) /\ shells \in Seq(Cmds)
      /\ printed \in Cmds \union {None} /\ newer \in BOOLEAN
  BY DEF Types, HolderTypes, ClaudeTypes
<1>1. PICK type : Reads(type)
  BY DEF Reader, OnStarted, OnShellEnded, OnCompleted, OnEcho, OnPrinted, OnInit, OnResult,
         OnResponse
<1>2. PICK h : h = Head(out).id
  OBVIOUS
<1>3. /\ out # <<>> /\ out' = Tail(out) /\ UNCHANGED <<alive, newer, pipe, running>>
      /\ Head(out) \in Events /\ Head(out).type = type /\ Head(out).id = h
      /\ Head(out) \in ToSet(out) /\ Head(out) = out[1]
  BY <1>0, <1>1, <1>2, Tailed DEF Reads
<1>4. h \in Cmds => h \in ToSet(shells) /\ shells # <<>>
  <2>1. h \in Cmds => h \in ToSet(shells)
    BY <1>3 DEF Commands, CommandOf, NoneLeft, Words
  <2> QED BY <2>1 DEF ToSet
<1>5. PICK b \in Seq(Cmds), q \in Cmds \union {None} :
          /\ Forecast(out, newer, accepted, printed, b, q)
          /\ alive => b = (IF newer THEN running ELSE <<>>) /\ q = None
          /\ ~ alive => pipe = <<>> /\ running = <<>>
  BY DEF ForecastInv
<1>6. PICK a \in Seq(Cmds), p \in Cmds \union {None} :
          /\ Foresees(accepted, printed, Head(out), a, p)
          /\ Mode(newer, accepted, printed) /\ Mode(newer, a, p)
          /\ Forecast(Tail(out), newer, a, p, b, q)
  BY <1>0, <1>3, <1>5, ForecastRead
<1>7. SUFFICES /\ accepted' = a /\ printed' = p
               /\ \/ output' = output
                  \/ /\ h \in Cmds /\ type \in LastTypes
                     /\ output' = [output EXCEPT ![h] = h]
  BY <1>3, <1>5, <1>6 DEF ForecastInv, LastWord
<1>8. CASE OnShellEnded
  <2>1. type = "completed" /\ h \in ToSet(shells) /\ h \in Cmds
    BY <1>0, <1>2, <1>3, <1>8, Positions DEF OnShellEnded, Reads
  <2>2. CASE printed = None
    BY <1>2, <1>3, <1>6, <1>8, <2>1, <2>2 DEF OnShellEnded, Foresees
  <2>3. CASE printed # None
    <3>1. printed = h /\ a = accepted /\ p = None
      BY <1>3, <1>6, <2>1, <2>3 DEF Foresees
    <3>2. type \in LastTypes
      BY <1>6, <2>1, <2>3 DEF Mode, LastTypes
    <3> QED BY <1>2, <1>8, <2>1, <2>3, <3>1, <3>2 DEF OnShellEnded, PassOn
  <2> QED BY <2>2, <2>3
<1>9. ASSUME NEW w \in {"printed", "not run"}, OnPrinted(w)
      PROVE  /\ accepted' = a /\ printed' = p
             /\ \/ output' = output
                \/ /\ h \in Cmds /\ type \in LastTypes
                   /\ output' = [output EXCEPT ![h] = h]
  <2>1. type = w /\ h \in Cmds /\ h # None
    <3>1. type = w
      BY <1>3, <1>9 DEF OnPrinted, Reads
    <3> QED BY <1>3, <3>1, EventOut, IdsAssumption
  <2>2. CASE accepted = <<>>
    <3>1. type = "printed" /\ a = <<>> /\ p = h
      BY <1>3, <1>6, <2>1, <2>2 DEF Foresees
    <3>2. accepted' = <<>> /\ printed' = h /\ output' = output
      BY <1>2, <1>4, <1>9, <2>1, <2>2 DEF OnPrinted
    <3> QED BY <3>1, <3>2
  <2>3. CASE accepted # <<>>
    <3>1. PICK at : at = IF w = "not run" THEN Len(accepted) ELSE 1
      OBVIOUS
    <3>2. accepted[at] = h /\ a = RemoveAt(accepted, at) /\ p = printed
      BY <1>3, <1>6, <2>1, <2>3, <3>1 DEF Foresees
    <3>3. type \in LastTypes
      BY <1>0, <1>6, <2>1, <2>3 DEF Mode, LastTypes
    <3>4. /\ output' = [output EXCEPT ![accepted[at]] = h]
          /\ accepted' = RemoveAt(accepted, at) /\ printed' = printed
      BY <1>2, <1>9, <2>3, <3>1 DEF OnPrinted, PassOn
    <3> QED BY <2>1, <3>2, <3>3, <3>4
  <2> QED BY <2>2, <2>3
<1>10. ASSUME UNCHANGED <<accepted, printed, output>>, Other(Head(out))
       PROVE  accepted' = a /\ printed' = p /\ output' = output
  BY <1>6, <1>10 DEF Foresees
<1>11. CASE OnCompleted
  <2>1. h \notin Cmds
    BY <1>2, <1>4, <1>11 DEF OnCompleted
  <2>2. Other(Head(out))
    BY <1>3, <1>11, <2>1 DEF OnCompleted, Reads, Other
  <2> QED BY <1>10, <1>11, <2>2 DEF OnCompleted
<1>12. CASE OnStarted \/ OnEcho \/ OnInit \/ OnResult
  <2>1. Other(Head(out)) /\ UNCHANGED <<accepted, printed, output>>
    BY <1>12 DEF OnStarted, OnEcho, OnInit, OnResult, Reads, Other
  <2> QED BY <1>10, <2>1
<1>13. ASSUME NEW w \in {"cancelled", "not cancelled"}, OnResponse(w)
       PROVE  accepted' = a /\ printed' = p /\ output' = output
  <2>1. Other(Head(out)) /\ UNCHANGED <<accepted, printed, output>>
    BY <1>13 DEF OnResponse, Reads, Other, holderState
  <2> QED BY <1>10, <2>1
<1> QED BY <1>8, <1>9, <1>11, <1>12, <1>13 DEF Reader

\* Each step keeps the forecast: claude by what it may write, the reader by
\* doing what was foreseen.
LEMMA ForecastStep ==
    ASSUME Types, Commands, ForecastInv, [Next]_vars
    PROVE  ForecastInv'
<1>0. ClaudeTypes /\ <<>> \in Seq(Events) /\ ToSet(<<>>) = {}
  BY EmptySeq DEF Types, ToSet
<1>1. CASE UNCHANGED <<newer, accepted, printed, running, alive, out>> /\ (~ alive => pipe' = <<>>)
  BY <1>0, <1>1, ForecastIdle
<1>2. ~ alive => pipe = <<>>
  BY DEF ForecastInv
<1>3. ASSUME NEW s \in Says, Saying(s) PROVE ForecastInv'
  <2>1. CASE List(s)
    BY <1>1, <1>2, <2>1 DEF List, claude
  <2>2. CASE Write(s)
    BY <1>1, <1>2, <2>2 DEF Write, Writable, holderState
  <2>3. CASE Unlist(s)
    BY <1>1, <1>2, <2>3 DEF Unlist, claude
  <2>4. CASE Settle(s)
    BY <1>1, <1>2, <2>4 DEF Settle, claude
  <2> QED BY <1>3, <2>1, <2>2, <2>3, <2>4 DEF Saying
<1>4. ASSUME NEW l \in Letters, WriteLetter(l) PROVE ForecastInv'
  BY <1>1, <1>4 DEF WriteLetter, Writable, holderState
<1>5. ASSUME NEW c \in Cmds, Running(c) PROVE ForecastInv'
  <2>1. CASE Run(c)
    BY <1>1, <1>2, <2>1 DEF Run, claude
  <2>2. CASE WriteRun(c)
    BY <1>1, <1>2, <2>2 DEF WriteRun, Writable, holderState
  <2>3. CASE DropShell(c)
    BY <1>1, <1>2, <2>3 DEF DropShell, claude
  <2> QED BY <1>5, <2>1, <2>2, <2>3 DEF Running
<1>6. ASSUME NEW m \in Msgs, Cancelling(m) PROVE ForecastInv'
  <2>1. CASE AskBack(m)
    BY <1>1, <1>2, <2>1 DEF AskBack, Writable, holderState
  <2>2. CASE GiveUp(m)
    BY <1>1, <1>2, <2>2 DEF GiveUp, holderState, claude
  <2>3. CASE Unqueue(m)
    BY <1>1, <1>2, <2>3 DEF Unqueue, claude
  <2> QED BY <1>6, <2>1, <2>2, <2>3 DEF Cancelling
<1>7. CASE Reader
  BY <1>7, ReaderForecast
<1>8. CASE Close
  BY <1>1, <1>2, <1>8 DEF Close, holderState, claude
<1>9. CASE Claude
  <2>1. UNCHANGED <<accepted, printed>>
    BY <1>9 DEF Claude, holderState
  <2>2. CASE Exit
    BY <1>0, <2>1, <2>2, ForecastExit
  <2>3. CASE ReadCommand
    BY <1>0, <2>1, <2>3, ForecastCommandRead
  <2>4. CASE CommandEnds
    BY <1>0, <2>1, <2>4, ForecastCommandEnd
  <2>5. CASE TakeUp \/ ReadMessage \/ ReadCancel \/ BeginOwnTurn \/ EndTurn
    <3>1. PICK events \in Seq(Events) :
              (Tells(events) \/ out' = out) /\ \A e \in ToSet(events) : e.id \notin Cmds
      BY <1>0, <2>5, NoCommandSays
    <3>2. \A e \in ToSet(events) : e \in Events
      BY Positions
    <3>3. \A e \in ToSet(events) : Other(e)
      BY <3>1, <3>2, EventOut DEF Other
    <3>4. UNCHANGED <<newer, running, alive>> /\ (pipe' = pipe \/ pipe # <<>> \/ alive)
      BY <2>5 DEF TakeUp, BeginTurn, RunSlash, Absorb, ReadMessage, ReadCancel, BeginOwnTurn,
                  EndTurn
    <3>5. ~ alive => pipe' = <<>>
      BY <1>2, <3>4
    <3> QED BY <1>0, <2>1, <3>1, <3>3, <3>4, <3>5, ForecastIdle
  <2> QED BY <1>9, <2>2, <2>3, <2>4, <2>5 DEF Claude, ReadLine
<1>10. CASE Idle
  BY <1>1, <1>2, <1>10, IdleChanges
<1> QED BY <1>3, <1>4, <1>5, <1>6, <1>7, <1>8, <1>9, <1>10 DEF Next, Aside, Idle

\* The holder reads of a command.
LEMMA CommandRead ==
    ASSUME Types, Commands, ForecastInv, Reader
    PROVE  Commands'
<1>0. /\ ClaudeTypes /\ out \in Seq(Events) /\ output \in [Cmds -> Cmds \union {None}]
      /\ None \notin Cmds
  BY IdsAssumption DEF Types, HolderTypes, ClaudeTypes
<1>1. UNCHANGED <<pc, shells, pipe, running, newer>>
  BY DEF Reader, OnStarted, OnShellEnded, OnCompleted, OnEcho, OnPrinted, OnInit, OnResult,
         OnResponse, Reads, holderState
<1>2. PICK type : Reads(type)
  BY DEF Reader, OnStarted, OnShellEnded, OnCompleted, OnEcho, OnPrinted, OnInit, OnResult,
         OnResponse
<1>3. /\ Len(out') = Len(out) - 1 /\ Len(out) \in Nat \ {0} /\ Head(out) = out[1]
      /\ \A i \in 1 .. Len(out') : i + 1 \in 1 .. Len(out) /\ out'[i] = out[i + 1]
      /\ \A e : e \in ToSet(out) <=> e \in ToSet(out)' \/ e = Head(out)
  BY <1>0, <1>2, OutLess
<1> SUFFICES ASSUME NEW c \in Cmds PROVE CommandOf(c)'
  BY DEF Commands
<1>4. CommandOf(c)
  BY DEF Commands
<1>5. /\ CommandLine(c)' <=> CommandLine(c)
      /\ InRun(c)' <=> InRun(c)
      /\ Words(c)' => Words(c)
      /\ NoneLeft(c) => NoneLeft(c)'
  BY <1>1, <1>3 DEF CommandLine, InRun, Words, NoneLeft
<1>6. Closing(c)'
  <2> SUFFICES ASSUME NEW i \in 1 .. Len(out'), LastWord(i, c)'
               PROVE  /\ ~ CommandLine(c)' /\ ~ InRun(c)'
                      /\ \A j \in 1 .. Len(out') : j > i => out'[j].id # c
    BY DEF Closing
  <2>1. i + 1 \in 1 .. Len(out) /\ LastWord(i + 1, c)
    BY <1>1, <1>3 DEF LastWord, LastTypes
  <2>2. /\ ~ CommandLine(c) /\ ~ InRun(c)
        /\ \A j \in 1 .. Len(out) : j > i + 1 => out[j].id # c
    BY <1>4, <2>1 DEF CommandOf, Closing
  <2>3. ASSUME NEW j \in 1 .. Len(out'), j > i PROVE out'[j].id # c
    <3>1. j + 1 \in 1 .. Len(out) /\ out'[j] = out[j + 1] /\ j + 1 > i + 1
      BY <1>3, <2>3
    <3> QED BY <2>2, <3>1
  <2> QED BY <1>5, <2>2, <2>3
<1>7. CASE output'[c] = output[c]
  BY <1>1, <1>4, <1>5, <1>6, <1>7 DEF CommandOf
<1>8. CASE output'[c] # output[c]
  <2>1. out # <<>> /\ LastWord(1, c) /\ output'[c] = c
    BY <1>0, <1>8, ReaderForecast
  <2>2. 1 \in 1 .. Len(out) /\ 1 \in Nat
    BY <1>3
  <2>3. ~ CommandLine(c) /\ ~ InRun(c) /\ \A j \in 1 .. Len(out) : j > 1 => out[j].id # c
    BY <1>4, <2>1, <2>2 DEF CommandOf, Closing
  <2>4. Words(c) /\ output'[c] # None
    <3>1. out[1] \in ToSet(out)
      BY <1>0, <2>2, Positions
    <3> QED BY <1>0, <2>1, <3>1 DEF Words, LastWord
  <2>5. ~ Words(c)'
    <3> SUFFICES ASSUME NEW e \in ToSet(out'), e.id = c PROVE FALSE
      BY DEF Words
    <3>1. out' \in Seq(Events)
      BY <1>0, <1>2, ReadTypes DEF ClaudeTypes
    <3>2. PICK i \in 1 .. Len(out') : out'[i] = e
      BY <3>1, Positions
    <3>3. i + 1 \in 1 .. Len(out) /\ out[i + 1].id = c /\ i + 1 > 1
      BY <1>3, <3>2
    <3> QED BY <2>3, <3>3
  <2>6. NoneLeft(c)'
    BY <1>5, <2>3, <2>5 DEF NoneLeft
  <2>7. pc[c] \notin Unwritten /\ c \in ToSet(shells)
    BY <1>4, <2>4 DEF CommandOf, NoneLeft
  <2> QED BY <1>1, <1>6, <1>5, <2>3, <2>4, <2>6, <2>7 DEF CommandOf
<1> QED BY <1>7, <1>8

\* Claude takes a command off its input, or is done with one.
LEMMA CommandTurns ==
    ASSUME ClaudeTypes, NEW c \in Cmds, CommandOf(c), UNCHANGED <<newer, pc, output, shells>>,
           CommandLine(c) \/ InRun(c), ~ CommandLine(c)',
           NEW events \in Seq(Events), Tells(events) \/ out' = out,
           \A i \in 1 .. Len(events) :
               events[i].type \in LastTypes => i = Len(events) /\ ~ InRun(c)'
    PROVE  CommandOf(c)'
<1>1. /\ pc[c] \notin Unwritten /\ output[c] = None /\ c \in ToSet(shells)
      /\ \A i \in 1 .. Len(out) : ~ LastWord(i, c)
  BY DEF CommandOf, NoneLeft, Closing
<1>2. Len(out) \in Nat /\ Len(events) \in Nat
  BY Positions DEF ClaudeTypes
<1>3. Closing(c)'
  <2> SUFFICES ASSUME NEW i \in 1 .. Len(out'), LastWord(i, c)'
               PROVE  /\ ~ InRun(c)'
                      /\ \A j \in 1 .. Len(out') : j > i => out'[j].id # c
    BY DEF Closing
  <2>1. CASE out' = out
    BY <1>1, <2>1 DEF LastWord, LastTypes
  <2>2. CASE Tells(events)
    <3>1. /\ Len(out') = Len(out) + Len(events)
          /\ \/ i \in 1 .. Len(out) /\ out'[i] = out[i]
             \/ /\ i > Len(out) /\ i - Len(out) \in 1 .. Len(events)
                /\ out'[i] = events[i - Len(out)]
      BY <2>2, OutMore
    <3>2. ~ (i \in 1 .. Len(out) /\ out'[i] = out[i])
      BY <1>1 DEF LastWord, LastTypes
    <3>3. i - Len(out) = Len(events) /\ ~ InRun(c)'
      BY <3>1, <3>2 DEF LastWord, LastTypes
    <3>4. i = Len(out') /\ Len(out') \in Nat
      BY <1>2, <3>1, <3>3
    <3>5. \A j \in 1 .. Len(out') : ~ j > i
      BY <3>4
    <3> QED BY <3>3, <3>5
  <2> QED BY <2>1, <2>2
<1> QED BY <1>1, <1>3 DEF CommandOf

LEMMA CommandsReadCommand ==
    ASSUME ClaudeTypes, Places, Commands, ReadCommand, UNCHANGED <<pc, output, shells>>
    PROVE  Commands'
<1>1. PICK c : c = Head(pipe).id
  OBVIOUS
<1>2. /\ c \in Cmds /\ CommandLine(c) /\ ~ CommandLine(c)'
      /\ \A d : CommandLine(d)' => CommandLine(d)
  <2>1. /\ Head(pipe) \in Lines /\ Head(pipe).kind = "command"
        /\ ToSet(pipe) = ToSet(pipe)' \union {Head(pipe)} /\ Head(pipe) \notin ToSet(pipe)'
    BY PipeLess DEF ReadCommand, Places, LinesOnce
  <2>2. c \in Cmds /\ Head(pipe) = Line("command", c)
    BY <1>1, <2>1, LineOut
  <2> QED BY <2>1, <2>2 DEF CommandLine
<1>3. newer' = newer /\ newer \in BOOLEAN
  BY DEF ReadCommand, ClaudeTypes
<1>4. /\ \A d : d # c => (InRun(d)' => InRun(d))
      /\ running # <<>> => running' = running
  <2>1. running' = <<c>> \/ running' = running
    BY <1>1 DEF ReadCommand
  <2>2. ToSet(<<c>>) = {c}
    BY DEF ToSet
  <2> QED BY <1>1, <2>1, <2>2 DEF InRun, ReadCommand
<1>5. PICK events \in Seq(Events) :
          /\ Tells(events) \/ out' = out
          /\ \A i \in 1 .. Len(events) :
                 events[i].id = c /\ (events[i].type \in LastTypes
                                          => i = Len(events) /\ running' = running)
  <2>1. CASE ~ newer
    <3>1. out' = out
      BY <2>1 DEF ReadCommand
    <3>2. PICK e \in Seq(Events) : Len(e) = 0
      BY EmptySeq
    <3>3. \A i \in 1 .. Len(e) : FALSE
      BY <3>2
    <3> QED BY <3>1, <3>3
  <2>2. CASE newer
    <3>1. PICK a \in Events, b \in Events, d \in Events :
              a = Event("started", c) /\ b = Event("completed", c) /\ d = Event("not run", c)
      BY <1>2, EventIn
    <3>2. /\ a.id = c /\ a.type \notin LastTypes /\ b.id = c /\ b.type \notin LastTypes
          /\ d.id = c
      BY <2>2, <3>1 DEF Event, LastTypes
    <3>3. PICK p : p = <<a, b>>
      OBVIOUS
    <3>4. p \in Seq(Events) /\ Len(p) = 2 /\ p[1] = a /\ p[2] = b
      BY <3>3
    <3>5. CASE running = <<>>
      <4>1. Tells(p)
        BY <1>1, <2>2, <3>1, <3>3, <3>5 DEF ReadCommand
      <4>2. \A i \in 1 .. Len(p) : p[i] = a \/ p[i] = b
        BY <3>4
      <4> QED BY <3>2, <3>4, <4>1, <4>2
    <3>6. CASE running # <<>>
      <4>1. PICK r : r = Append(p, d)
        OBVIOUS
      <4>0. /\ r \in Seq(Events) /\ Len(r) = Len(p) + 1 /\ r[Len(p) + 1] = d
            /\ \A i \in 1 .. Len(p) : r[i] = p[i]
        <5>1. p \in Seq(Events)
          BY <3>4
        <5>2. Append(p, d) \in Seq(Events)
          BY <5>1, AppendProperties
        <5>3. Len(Append(p, d)) = Len(p) + 1 /\ Append(p, d)[Len(p) + 1] = d
          BY <5>1, AppendProperties
        <5>4. \A i \in 1 .. Len(p) : Append(p, d)[i] = p[i]
          BY <5>1, AppendProperties
        <5> QED BY <4>1, <5>2, <5>3, <5>4
      <4>2. r \in Seq(Events) /\ Len(r) = 3 /\ r[1] = a /\ r[2] = b /\ r[3] = d
        BY <3>4, <4>0
      <4>3. Tells(r) /\ running' = running
        BY <1>1, <2>2, <3>1, <3>3, <3>6, <4>1 DEF ReadCommand
      <4>4. \A i \in 1 .. Len(r) : r[i] = a \/ r[i] = b \/ (i = Len(r) /\ r[i] = d)
        BY <4>2
      <4> QED BY <3>2, <4>2, <4>3, <4>4
    <3> QED BY <3>5, <3>6
  <2> QED BY <1>3, <2>1, <2>2
<1>6. CommandOf(c)'
  <2>1. CommandOf(c) /\ ~ InRun(c)
    BY <1>2 DEF Commands, CommandOf
  <2>2. running' = running => ~ InRun(c)'
    BY <2>1 DEF InRun
  <2> QED BY <1>2, <1>3, <1>5, <2>1, <2>2, CommandTurns
<1>7. ASSUME NEW d \in Cmds, d # c PROVE CommandOf(d)'
  <2>1. \A e \in ToSet(events) : e.id # d
    <3>1. \A e \in ToSet(events) : \E i \in 1 .. Len(events) : events[i] = e
      BY Positions
    <3> QED BY <1>5, <1>7, <3>1
  <2> QED BY <1>2, <1>3, <1>4, <1>5, <1>7, <2>1, CommandMore DEF Commands
<1> QED BY <1>6, <1>7 DEF Commands

LEMMA CommandsCommandEnd ==
    ASSUME ClaudeTypes, Commands, CommandEnds, UNCHANGED <<pc, output, shells>>
    PROVE  Commands'
<1>1. PICK c : c = Head(running)
  OBVIOUS
<1>2. /\ c \in Cmds /\ InRun(c) /\ running' = <<>> /\ UNCHANGED <<newer, pipe>>
      /\ newer \in BOOLEAN
  BY <1>1, Tailed DEF CommandEnds, ClaudeTypes, InRun
<1>3. /\ \A d : CommandLine(d)' <=> CommandLine(d)
      /\ \A d : ~ InRun(d)'
  BY <1>2 DEF CommandLine, InRun, ToSet
<1>4. PICK events \in Seq(Events) :
          /\ Tells(events)
          /\ \A i \in 1 .. Len(events) :
                 events[i].id = c /\ (events[i].type \in LastTypes => i = Len(events))
  <2>1. PICK a \in Events, b \in Events : a = Event("printed", c) /\ b = Event("completed", c)
    BY <1>2, EventIn
  <2>2. a.id = c /\ a.type = "printed" /\ b.id = c
    BY <2>1 DEF Event
  <2>3. CASE newer
    <3>1. <<a>> \in Seq(Events) /\ Len(<<a>>) = 1 /\ <<a>>[1] = a
      OBVIOUS
    <3>2. Tells(<<a>>)
      BY <1>1, <2>1, <2>3 DEF CommandEnds
    <3>3. \A i \in 1 .. 1 : i = 1
      OBVIOUS
    <3> QED BY <2>2, <3>1, <3>2, <3>3
  <2>4. CASE ~ newer
    <3>1. PICK p : p = <<a, b>>
      OBVIOUS
    <3>2. p \in Seq(Events) /\ Len(p) = 2 /\ p[1] = a /\ p[2] = b
      BY <3>1
    <3>3. Tells(p)
      BY <1>1, <2>1, <2>4, <3>1 DEF CommandEnds
    <3>4. \A i \in 1 .. Len(p) : p[i] = a \/ (i = Len(p) /\ p[i] = b)
      BY <3>2
    <3>5. "printed" \notin LastTypes
      BY <2>4 DEF LastTypes
    <3> QED BY <2>2, <3>2, <3>3, <3>4, <3>5
  <2> QED BY <1>2, <2>3, <2>4
<1>5. CommandOf(c)'
  <2>1. CommandOf(c) /\ ~ CommandLine(c)'
    BY <1>2, <1>3 DEF Commands, CommandOf
  <2> QED BY <1>2, <1>3, <1>4, <2>1, CommandTurns
<1>6. ASSUME NEW d \in Cmds, d # c PROVE CommandOf(d)'
  <2>1. \A e \in ToSet(events) : e.id # d
    <3>1. \A e \in ToSet(events) : \E i \in 1 .. Len(events) : events[i] = e
      BY Positions
    <3> QED BY <1>4, <1>6, <3>1
  <2> QED BY <1>2, <1>3, <1>4, <1>6, <2>1, CommandMore DEF Commands
<1> QED BY <1>5, <1>6 DEF Commands

LEMMA CommandsExit ==
    ASSUME ClaudeTypes, Commands, Exit, UNCHANGED <<pc, output, shells>>
    PROVE  Commands'
<1>1. /\ newer' = newer
      /\ \A c : ~ CommandLine(c)' /\ ~ InRun(c)'
  BY DEF Exit, CommandLine, InRun, ToSet
<1>2. PICK n \in 0 .. Len(out) : out' = SubSeq(out, 1, n)
  BY DEF Exit
<1>3. /\ out \in Seq(Events) /\ Len(out) \in Nat
      /\ \A i \in 1 .. Len(out) : out[i] \in ToSet(out) /\ out[i] \in Events
  BY Positions DEF ClaudeTypes
<1>4. /\ out' \in Seq(Events) /\ Len(out') = n
      /\ \A i \in 1 .. n : i \in 1 .. Len(out) /\ out'[i] = out[i]
  <2>1. \A i \in 1 .. n - 1 + 1 : out'[i] = out[1 + i - 1]
    BY <1>2, <1>3, SubSeqProperties
  <2>2. out' \in Seq(Events) /\ Len(out') = n
    BY <1>2, <1>3, Cut
  <2> QED BY <1>2, <1>3, <2>1, <2>2
<1> SUFFICES ASSUME NEW c \in Cmds PROVE CommandOf(c)'
  BY DEF Commands
<1>5. CommandOf(c)
  BY DEF Commands
<1>6. Words(c)' => Words(c)
  <2>1. \A e \in ToSet(out') : \E i \in 1 .. Len(out') : out'[i] = e
    BY <1>4, Positions
  <2> QED BY <1>3, <1>4, <2>1 DEF Words
<1>7. Closing(c)'
  <2>1. \A i \in 1 .. n : LastWord(i, c)' => LastWord(i, c)
    BY <1>1, <1>4 DEF LastWord, LastTypes
  <2> QED BY <1>1, <1>4, <1>5, <2>1 DEF CommandOf, Closing
<1> QED BY <1>1, <1>5, <1>6, <1>7 DEF CommandOf, NoneLeft

LEMMA CommandsClaude ==
    ASSUME ClaudeTypes, Places, Commands, Claude
    PROVE  Commands'
<1>1. UNCHANGED <<pc, output, shells>>
  BY DEF Claude, holderState, holderRest
<1>2. CASE TakeUp \/ ReadMessage \/ ReadCancel \/ BeginOwnTurn \/ EndTurn
  <2>1. PICK events \in Seq(Events) :
            (Tells(events) \/ out' = out) /\ \A e \in ToSet(events) : e.id \notin Cmds
    BY <1>2, NoCommandSays
  <2>2. UNCHANGED <<newer, running>>
    BY <1>2 DEF TakeUp, BeginTurn, RunSlash, Absorb, ReadMessage, ReadCancel, BeginOwnTurn, EndTurn
  <2>3. ToSet(pipe') \subseteq ToSet(pipe)
    <3>1. CASE pipe' = pipe
      BY <3>1
    <3>2. CASE pipe # <<>> /\ pipe' = Tail(pipe)
      BY <3>2, Tailed DEF ClaudeTypes
    <3> QED BY <1>2, <3>1, <3>2 DEF TakeUp, BeginTurn, RunSlash, Absorb, ReadMessage, ReadCancel,
                                    BeginOwnTurn, EndTurn
  <2> SUFFICES ASSUME NEW c \in Cmds PROVE CommandOf(c)'
    BY DEF Commands
  <2>4. (CommandLine(c)' => CommandLine(c)) /\ (InRun(c)' => InRun(c)) /\ CommandOf(c)
    BY <2>2, <2>3 DEF CommandLine, InRun, Commands
  <2> QED BY <1>1, <2>1, <2>2, <2>4, CommandMore
<1> QED BY <1>1, <1>2, CommandsReadCommand, CommandsCommandEnd, CommandsExit DEF Claude, ReadLine

LEMMA OutsDiffer ==
    /\ \A c \in Cmds : Out(c) \in Says /\ Out(c) \in Inputs /\ c \in Inputs \union Cmds
    /\ \A c \in Cmds : c \notin Inputs /\ Out(c) \notin Msgs /\ Out(c) \notin Letters
    /\ \A c, d \in Cmds : c # d => Out(c) # Out(d)
<1>1. \A c \in Cmds : Out(c) \in Outs
  BY DEF Outs
<1> QED BY <1>1, IdsAssumption DEF Says, Inputs, Out

\* The places of the commands, through every step.
LEMMA CommandsStep ==
    ASSUME Types, Places, Commands, ForecastInv, [Next]_vars
    PROVE  Commands'
<1>0. /\ ClaudeTypes /\ pc \in [Inputs \union Cmds -> Steps] /\ shells \in Seq(Cmds)
      /\ pipe \in Seq(Lines) /\ output \in [Cmds -> Cmds \union {None}]
  BY DEF Types, HolderTypes, ClaudeTypes
<1>1. ASSUME UNCHANGED <<running, out, newer, output, pc, shells>>,
             \A c : CommandLine(c)' => CommandLine(c)
      PROVE  Commands'
  BY <1>1, CommandKept DEF Commands
<1>2. ASSUME NEW k, NEW s, pipe' = pipe \/ pipe' = Append(pipe, Line(k, s)), k # "command",
             Line(k, s) \in Lines
      PROVE  \A c : CommandLine(c)' => CommandLine(c)
  <2>1. CASE pipe' = pipe
    BY <2>1 DEF CommandLine
  <2>2. CASE pipe' = Append(pipe, Line(k, s))
    <3>1. ToSet(pipe') = ToSet(pipe) \union {Line(k, s)}
      BY <1>0, <1>2, <2>2, Appended
    <3>2. \A c : Line("command", c) # Line(k, s)
      BY <1>2, LinesDiffer
    <3> QED BY <3>1, <3>2 DEF CommandLine
  <2> QED BY <1>2, <2>1, <2>2
<1>3. ASSUME NEW s \in Says, Saying(s) PROVE Commands'
  <2>1. s \in Inputs /\ s \notin Cmds
    BY IdsAssumption DEF Inputs
  <2>2. UNCHANGED <<running, out, newer, output, shells>>
    BY <1>3 DEF Saying, List, Write, Unlist, Settle, claude, holderState
  <2>3. \A c : CommandLine(c)' => CommandLine(c)
    <3>1. Line("message", s) \in Lines /\ (pipe' = pipe \/ pipe' = Append(pipe, Line("message", s)))
      BY <1>3, <2>1, LineIn DEF Saying, List, Write, Unlist, Settle, claude
    <3> QED BY <1>2, <3>1
  <2>4. PICK step : /\ pc' = [pc EXCEPT ![s] = step]
                    /\ pc[s] = "idle" => step = "listed" /\ Due(s)
                    /\ pc[s] # "idle" => step \notin {"idle", "listed"}
    BY <1>3 DEF Saying, List, Write, Unlist, Settle, Goes
  <2> SUFFICES ASSUME NEW c \in Cmds PROVE CommandOf(c)'
    BY DEF Commands
  <2>5. CommandOf(c) /\ pc'[c] = pc[c] /\ output'[c] = output[c]
    BY <1>0, <2>1, <2>2, <2>4 DEF Commands
  <2>6. \/ pc'[Out(c)] = pc[Out(c)]
        \/ /\ output[c] # None
           /\ pc[Out(c)] \notin {"idle", "listed"} => pc'[Out(c)] \notin {"idle", "listed"}
    <3>1. CASE s # Out(c)
      BY <1>0, <2>4, <3>1, OutsDiffer
    <3>2. CASE s = Out(c)
      <4>1. pc'[s] = step
        BY <1>0, <2>1, <2>4
      <4>2. output[c] # None
        BY <2>4, <2>5, <3>2 DEF Due, CommandOf
      <4> QED BY <2>4, <3>2, <4>1, <4>2
    <3> QED BY <3>1, <3>2
  <2> QED BY <2>2, <2>3, <2>5, <2>6, CommandKept
<1>4. ASSUME NEW l \in Letters, WriteLetter(l) PROVE Commands'
  <2>1. l \in Inputs /\ l \notin Cmds /\ \A c \in Cmds : Out(c) # l
    BY OutsDiffer, IdsAssumption DEF Inputs
  <2>2. UNCHANGED <<running, out, newer, output, shells>> /\ pc' = [pc EXCEPT ![l] = "written"]
    BY <1>4 DEF WriteLetter, holderState, Goes
  <2>3. \A c : CommandLine(c)' => CommandLine(c)
    BY <1>2, <1>4, <2>1, LineIn DEF WriteLetter
  <2> SUFFICES ASSUME NEW c \in Cmds PROVE CommandOf(c)'
    BY DEF Commands
  <2>4. /\ CommandOf(c) /\ pc'[c] = pc[c] /\ output'[c] = output[c]
        /\ pc'[Out(c)] = pc[Out(c)]
    BY <1>0, <2>1, <2>2, OutsDiffer DEF Commands
  <2> QED BY <2>2, <2>3, <2>4, CommandKept
<1>5. ASSUME NEW c \in Cmds, Running(c) PROVE Commands'
  <2>0. /\ CommandOf(c)
        /\ \A d \in Cmds : CommandOf(d) /\ Out(d) # c /\ Out(d) \in Inputs \union Cmds
    BY OutsDiffer DEF Commands
  <2>1. UNCHANGED <<running, out, newer, output>>
    BY <1>5 DEF Running, Run, WriteRun, DropShell, claude, holderRest
  <2>2. CASE Run(c)
    <3>1. /\ pipe' = pipe /\ pc[c] = "idle" /\ pc' = [pc EXCEPT ![c] = "listed"]
          /\ shells' = Append(shells, c)
      BY <2>2 DEF Run, claude, Goes
    <3>2. ToSet(shells') = ToSet(shells) \union {c}
      BY <1>0, <3>1, Appended
    <3>3. \A d : CommandLine(d)' <=> CommandLine(d)
      BY <3>1 DEF CommandLine
    <3>4. ASSUME NEW d \in Cmds, d # c PROVE CommandOf(d)'
      BY <1>0, <2>0, <2>1, <3>1, <3>2, <3>3, <3>4, CommandKept
    <3>5. CommandOf(c)'
      <4>1. /\ pc[c] \in Unwritten /\ NoneLeft(c) /\ output[c] = None /\ Closing(c)
            /\ pc[Out(c)] = "idle" /\ pc'[Out(c)] = pc[Out(c)]
        BY <1>0, <2>0, <3>1 DEF Unwritten, CommandOf
      <4>2. NoneLeft(c)' /\ Closing(c)'
        BY <2>1, <3>3, <4>1 DEF NoneLeft, Closing, InRun, Words, LastWord, LastTypes
      <4> QED BY <2>1, <3>2, <4>1, <4>2 DEF CommandOf, NoneLeft
    <3> QED BY <3>4, <3>5 DEF Commands
  <2>3. CASE WriteRun(c)
    <3>1. PICK step : /\ pc[c] = "listed" /\ shells' = shells /\ pc' = [pc EXCEPT ![c] = step]
                      /\ step \in {"sent", "failing"}
                      /\ step = "sent" => pipe' = Append(pipe, Line("command", c))
                      /\ step = "failing" => pipe' = pipe
      BY <2>3 DEF WriteRun, holderState, Goes
    <3>2. \A d : CommandLine(d)' => CommandLine(d) \/ (step = "sent" /\ d = c)
      <4>1. CASE step = "sent"
        <5>1. ToSet(pipe') = ToSet(pipe) \union {Line("command", c)}
          <6>1. PICK e \in Lines : e = Line("command", c)
            BY LineIn
          <6>2. ToSet(Append(pipe, e)) = ToSet(pipe) \union {e}
            BY <1>0, Appended
          <6> QED BY <3>1, <4>1, <6>1, <6>2
        <5> QED BY <4>1, <5>1, LinesDiffer DEF CommandLine
      <4>2. CASE step = "failing"
        BY <3>1, <4>2 DEF CommandLine
      <4> QED BY <3>1, <4>1, <4>2
    <3>3. ASSUME NEW d \in Cmds, d # c PROVE CommandOf(d)'
      BY <1>0, <2>0, <2>1, <3>1, <3>2, <3>3, CommandKept
    <3>4. CommandOf(c)'
      <4>1. /\ NoneLeft(c) /\ output[c] = None /\ c \in ToSet(shells)
            /\ pc[Out(c)] = "idle" /\ pc'[Out(c)] = pc[Out(c)] /\ pc'[c] = step
        BY <1>0, <2>0, <3>1 DEF Unwritten, CommandOf
      <4>2. ~ Words(c)' /\ ~ InRun(c)' /\ (step = "failing" => NoneLeft(c)')
        BY <2>1, <3>1, <3>2, <4>1 DEF NoneLeft, InRun, Words
      <4>3. Closing(c)'
        <5>1. \A i \in 1 .. Len(out) : out[i] \in ToSet(out)
          BY <1>0, Positions DEF ClaudeTypes
        <5>2. \A i \in 1 .. Len(out) : out[i].id # c
          BY <4>1, <5>1 DEF NoneLeft, Words
        <5> QED BY <2>1, <5>2 DEF Closing, LastWord
      <4> QED BY <2>1, <3>1, <4>1, <4>2, <4>3 DEF CommandOf, Unwritten
    <3> QED BY <3>3, <3>4 DEF Commands
  <2>4. CASE DropShell(c)
    <3>1. pipe' = pipe /\ pc' = pc /\ shells' = RemoveFirst(shells, c)
      BY <2>4 DEF DropShell, claude, holderRest
    <3>2. ToSet(shells) \subseteq ToSet(shells') \union {c}
      BY <1>0, <3>1, RemovedFirst
    <3>3. \A d : CommandLine(d)' <=> CommandLine(d)
      BY <3>1 DEF CommandLine
    <3>4. ASSUME NEW d \in Cmds, d # c PROVE CommandOf(d)'
      BY <2>0, <2>1, <3>1, <3>2, <3>3, <3>4, CommandKept
    <3>5. CommandOf(c)'
      <4>1. /\ NoneLeft(c) /\ pc[c] # "listed"
            /\ output[c] = None \/ pc[Out(c)] \notin {"idle", "listed"}
        BY <2>0, <2>4 DEF DropShell, Passed, CommandOf, Unwritten
      <4>2. NoneLeft(c)' /\ Closing(c)'
        BY <2>0, <2>1, <3>3, <4>1 DEF CommandOf, NoneLeft, Closing, InRun, Words, LastWord, LastTypes
      <4> QED BY <2>0, <2>1, <3>1, <4>1, <4>2 DEF CommandOf, NoneLeft
    <3> QED BY <3>4, <3>5 DEF Commands
  <2> QED BY <1>5, <2>2, <2>3, <2>4 DEF Running
<1>6. ASSUME NEW m \in Msgs, Cancelling(m) PROVE Commands'
  <2>1. UNCHANGED <<running, out, newer, output, pc, shells>>
    BY <1>6 DEF Cancelling, AskBack, GiveUp, Unqueue, holderState, claude
  <2>2. Line("cancel", m) \in Lines /\ (pipe' = pipe \/ pipe' = Append(pipe, Line("cancel", m)))
    BY <1>6, LineIn DEF Cancelling, AskBack, GiveUp, Unqueue, claude
  <2> QED BY <1>1, <1>2, <2>1, <2>2
<1>7. CASE Reader
  BY <1>7, CommandRead
<1>8. CASE Close
  BY <1>1, <1>8 DEF Close, holderState, claude, CommandLine
<1>9. CASE Claude
  BY <1>0, <1>9, CommandsClaude
<1>10. CASE Idle
  <2>1. /\ UNCHANGED <<running, out, newer, output, shells, pipe>>
        /\ \A s \in Says \union Cmds : pc'[s] = pc[s]
    BY <1>10, IdleChanges
  <2>2. \A c : CommandLine(c)' => CommandLine(c)
    BY <2>1 DEF CommandLine
  <2> SUFFICES ASSUME NEW c \in Cmds PROVE CommandOf(c)'
    BY DEF Commands
  <2>3. CommandOf(c) /\ pc'[c] = pc[c] /\ pc'[Out(c)] = pc[Out(c)]
    BY <2>1 DEF Commands, Says, Outs
  <2> QED BY <2>1, <2>2, <2>3, CommandKept
<1> QED BY <1>3, <1>4, <1>5, <1>6, <1>7, <1>8, <1>9, <1>10 DEF Next, Aside, Idle

LEMMA CommandsInit == Init => Commands /\ ForecastInv /\ OutputToItsCommand
<1> SUFFICES ASSUME Init PROVE Commands /\ ForecastInv /\ OutputToItsCommand
  OBVIOUS
<1>1. ToSet(<<>>) = {} /\ \A S : <<>> \in Seq(S) /\ Len(<<>>) = 0
  BY EmptySeq DEF ToSet
<1>2. /\ pipe = <<>> /\ running = <<>> /\ out = <<>> /\ shells = <<>> /\ accepted = <<>>
      /\ printed = None /\ alive /\ output = [c \in Cmds |-> None]
      /\ pc = [s \in Inputs \union Cmds |-> "idle"]
  BY DEF Init
<1>3. ASSUME NEW c \in Cmds PROVE CommandOf(c)
  <2>1. NoneLeft(c) /\ Closing(c)
    BY <1>1, <1>2 DEF NoneLeft, CommandLine, InRun, Words, Closing
  <2>2. output[c] = None /\ pc[c] = "idle" /\ pc[Out(c)] = "idle"
    BY <1>2, OutsDiffer
  <2> QED BY <2>1, <2>2 DEF CommandOf, NoneLeft
<1>4. ForecastInv
  <2>1. Mode(newer, <<>>, None)
    BY DEF Mode
  <2>2. Forecast(<<>>, newer, <<>>, None, <<>>, None)
    BY <1>1, <2>1, ForecastOthers
  <2> QED BY <1>1, <1>2, <2>2 DEF ForecastInv
<1>5. OutputToItsCommand
  BY <1>2 DEF OutputToItsCommand
<1> QED BY <1>3, <1>4, <1>5 DEF Commands

LEMMA OutputStep ==
    ASSUME Types, Commands, ForecastInv, OutputToItsCommand, [Next]_vars
    PROVE  OutputToItsCommand'
<1>1. CASE Reader
  <2>1. output \in [Cmds -> Cmds \union {None}]
    BY DEF Types, HolderTypes
  <2>2. output' = output \/ \E h \in Cmds : output' = [output EXCEPT ![h] = h]
    BY <1>1, ReaderForecast
  <2> QED BY <2>1, <2>2 DEF OutputToItsCommand
<1>2. CASE output' = output
  BY <1>2 DEF OutputToItsCommand
<1>3. ASSUME NEW s \in Says, Saying(s) PROVE output' = output
  BY <1>3 DEF Saying, List, Write, Unlist, Settle
<1>4. ASSUME NEW l \in Letters, WriteLetter(l) PROVE output' = output
  BY <1>4 DEF WriteLetter
<1>5. ASSUME NEW c \in Cmds, Running(c) PROVE output' = output
  BY <1>5 DEF Running, Run, WriteRun, DropShell, holderRest
<1>6. ASSUME NEW m \in Msgs, Cancelling(m) PROVE output' = output
  BY <1>6 DEF Cancelling, AskBack, GiveUp, Unqueue
<1>7. Close \/ Claude \/ Idle => output' = output
  BY IdleChanges DEF Close, Claude, holderRest
<1> QED BY <1>1, <1>2, <1>3, <1>4, <1>5, <1>6, <1>7 DEF Next, Aside, Idle

\* What a command printed goes into the conversation under that command,
\* whether claude reports its end before its output or after it.
THEOREM OutputsAreTheirs == Spec => []OutputToItsCommand
<1> DEFINE I == Types /\ Places /\ Commands /\ ForecastInv /\ OutputToItsCommand
<1>1. Init => I
  BY TypesInit, PlacesInit, CommandsInit
<1>2. I /\ [Next]_vars => I'
  BY TypesStep, PlacesStep, CommandsStep, ForecastStep, OutputStep
<1>3. I => OutputToItsCommand
  OBVIOUS
<1> HIDE DEF I
<1> QED BY <1>1, <1>2, <1>3, PTL DEF Spec

\* Between the panel's command and the message that carries its output, the
\* command is among those that hold a switch back, in either order claude reports
\* its end and its output.
THEOREM ShellsStay == Spec => []ShellStaysUntilPassed
<1> DEFINE I == Types /\ Places /\ Commands /\ ForecastInv
<1>1. Init => I
  BY TypesInit, PlacesInit, CommandsInit
<1>2. I /\ [Next]_vars => I'
  BY TypesStep, PlacesStep, CommandsStep, ForecastStep
<1>3. I => ShellStaysUntilPassed
  BY DEF ShellStaysUntilPassed, Unpassed, Commands, CommandOf, NoneLeft, CommandLine, InRun, Words
<1> HIDE DEF I
<1> QED BY <1>1, <1>2, <1>3, PTL DEF Spec

-----------------------------------------------------------------------------
(* A session with nothing to do is free.                                   *)

\* What claude gave back is still in the queue: it is Unqueue that forgets it.
Back == Open => \A m \in Msgs : GivenBack(m) => ~ Told(m) /\ m \in ToSet(queue)

\* Claude gives back only what it has read and not taken up, and writes of the
\* others only as it takes them up or ends their turn.
LEMMA ClaudeBack ==
    ASSUME ClaudeTypes, Claude, alive', NEW m \in Msgs
    PROVE  \/ /\ GivenBack(m)' => GivenBack(m)
              /\ Told(m)' => Told(m) \/ InInbox(m) \/ InTurn(m)
           \/ /\ GivenBack(m)' => GivenBack(m) \/ InInbox(m)
              /\ Told(m)' => Told(m)
<1>0. cancel' = cancel /\ ~ Exit /\ m \in Inputs
  BY DEF Claude, holderRest, Exit, Inputs, Says
<1>1. Event("cancelled", m).type = "cancelled" /\ Event("cancelled", m).id = m
  BY DEF Event
<1>2. ASSUME NEW events \in Seq(Events), Tells(events) \/ out' = out
      PROVE  /\ GivenBack(m)' => GivenBack(m) \/ Event("cancelled", m) \in ToSet(events)
             /\ Told(m)' => \/ Told(m)
                            \/ \E e \in ToSet(events) : e.id = m /\ e.type \in Takes
  <2>1. CASE Tells(events)
    BY <1>0, <2>1, OutMore DEF GivenBack
  <2>2. CASE out' = out
    BY <1>0, <2>2, OutSame
  <2> QED BY <1>2, <2>1, <2>2
<1>3. CASE TakeUp
  <2>1. PICK h : h = Head(inbox)
    OBVIOUS
  <2>2. PICK events \in Seq(Events) :
            Tells(events) /\ \A e \in ToSet(events) : e.id = h /\ e.type \in Takes \union {"result"}
    BY <1>3, <2>1, TakeUpSays
  <2>3. InInbox(h)
    <3>1. inbox # <<>> /\ inbox \in Seq(Inputs)
      BY <1>3, <2>1, TakeUpSays DEF ClaudeTypes
    <3> QED BY <2>1, <3>1, Tailed DEF InInbox
  <2>4. Event("cancelled", m) \notin ToSet(events)
    BY <1>1, <2>2 DEF Takes
  <2> QED BY <1>2, <2>2, <2>3, <2>4
<1>4. CASE EndTurn
  <2>1. Tells(EndWords) /\ turn # <<>>
    BY <1>4 DEF EndTurn, EndWords, Ended
  <2>2. EndWords \in Seq(Events) /\ \A e \in ToSet(EndWords) :
            e.type = "result" \/ (e.type = "completed" /\ e.id \in ToSet(turn))
    BY <2>1, EndWordsAre DEF ClaudeTypes
  <2>3. Event("cancelled", m) \notin ToSet(EndWords)
    BY <1>1, <2>2
  <2> QED BY <1>2, <2>1, <2>2, <2>3 DEF Takes, InTurn
<1>5. CASE BeginOwnTurn
  <2>1. PICK a \in Events : a = Event("init", Self)
    BY EventIn
  <2>2. a.type = "init"
    BY <2>1 DEF Event
  <2>3. <<a>> \in Seq(Events) /\ ToSet(<<a>>) = {a} /\ Tells(<<a>>)
    BY <1>5, <2>1, Short DEF BeginOwnTurn
  <2>4. Event("cancelled", m) \notin ToSet(<<a>>)
    BY <1>1, <2>2, <2>3
  <2> QED BY <1>2, <2>2, <2>3, <2>4 DEF Takes
<1>6. CASE ReadLine \/ CommandEnds
  <2>1. PICK events \in Seq(Events) :
            /\ Tells(events) \/ out' = out
            /\ \A e \in ToSet(events) :
                   \/ e.id \in Cmds
                   \/ /\ e.id \in Msgs /\ e.type \in Answers
                      /\ e.type = "cancelled" => InInbox(e.id)
    BY <1>6, LineSays
  <2>2. m \notin Cmds
    BY <1>0, IdsAssumption DEF Inputs
  <2>3. ~ \E e \in ToSet(events) : e.id = m /\ e.type \in Takes
    BY <2>1, <2>2 DEF Answers, Takes
  <2>4. Event("cancelled", m) \in ToSet(events) => InInbox(m)
    BY <1>1, <2>1, <2>2
  <2> QED BY <1>2, <2>1, <2>3, <2>4
<1> QED BY <1>0, <1>3, <1>4, <1>5, <1>6 DEF Claude

LEMMA BackStep ==
    ASSUME DistinctTexts, Types, Places, QueueInv, Back, [Next]_vars
    PROVE  Back'
<1> SUFFICES ASSUME Open', NEW m \in Msgs, GivenBack(m)' PROVE ~ Told(m)' /\ m \in ToSet(queue)'
  BY DEF Back
<1>0. /\ Open /\ ClaudeTypes /\ queue \in Seq(Says) /\ PlaceOf(m) /\ m \in Says
      /\ cancel \in [Msgs -> {"none", "asked", "taken", "given up", "done"}]
  BY OpenStays DEF Types, HolderTypes, Places, Inputs, Says
<1>1. ASSUME out' = out, cancel'[m] = cancel[m] \/ cancel'[m] # "taken",
             m \in ToSet(queue) => m \in ToSet(queue)'
      PROVE  ~ Told(m)' /\ m \in ToSet(queue)'
  <2>1. GivenBack(m)
    BY <1>1 DEF GivenBack
  <2>2. ~ Told(m) /\ m \in ToSet(queue)
    BY <1>0, <2>1 DEF Back
  <2> QED BY <1>1, <2>2, OutSame
<1>2. CASE UNCHANGED <<out, cancel, queue>>
  BY <1>1, <1>2
<1>3. ASSUME NEW s \in Says, Saying(s) PROVE ~ Told(m)' /\ m \in ToSet(queue)'
  <2>1. CASE List(s)
    <3>1. queue' = Append(queue, s) /\ UNCHANGED <<out, cancel>>
      BY <2>1 DEF List, claude
    <3>2. ToSet(queue') = ToSet(queue) \union {s}
      <4>1. queue \in Seq(Says) /\ s \in Says
        BY <1>0
      <4> QED BY <3>1, <4>1, Appended
    <3> QED BY <1>1, <3>1, <3>2
  <2>2. CASE Write(s) \/ Settle(s)
    BY <1>2, <2>2 DEF Write, Settle, holderState, claude
  <2>3. CASE Unlist(s)
    BY <1>0, <2>3 DEF Unlist, QueueInv, Shut
  <2> QED BY <1>3, <2>1, <2>2, <2>3 DEF Saying
<1>4. ASSUME NEW l \in Letters, WriteLetter(l) PROVE ~ Told(m)' /\ m \in ToSet(queue)'
  BY <1>2, <1>4 DEF WriteLetter, holderState
<1>5. ASSUME NEW c \in Cmds, Running(c) PROVE ~ Told(m)' /\ m \in ToSet(queue)'
  BY <1>2, <1>5 DEF Running, Run, WriteRun, DropShell, holderState, holderRest, claude
<1>6. ASSUME NEW n \in Msgs, Cancelling(n) PROVE ~ Told(m)' /\ m \in ToSet(queue)'
  <2>1. CASE AskBack(n)
    <3>1. UNCHANGED <<out, queue>> /\ cancel' = [cancel EXCEPT ![n] = "asked"]
      BY <2>1 DEF AskBack, holderState
    <3> QED BY <1>0, <1>1, <3>1
  <2>2. CASE GiveUp(n)
    <3>1. UNCHANGED <<out, queue>> /\ cancel' = [cancel EXCEPT ![n] = "given up"]
      BY <2>2 DEF GiveUp, holderState, claude
    <3> QED BY <1>0, <1>1, <3>1
  <2>3. CASE Unqueue(n)
    <3>1. out' = out /\ cancel' = [cancel EXCEPT ![n] = "done"] /\ cancel[n] = "taken"
      BY <2>3 DEF Unqueue, claude
    <3>2. n # m
      <4> SUFFICES ASSUME n = m PROVE FALSE
        OBVIOUS
      <4>1. Event("cancelled", m) \in ToSet(out)
        BY <1>0, <3>1 DEF GivenBack
      <4>2. Event("cancelled", m).id = m /\ Event("cancelled", m).type \in Answers
        BY DEF Event, Answers
      <4>3. Answered(m)
        BY <4>1, <4>2 DEF Answered
      <4> QED BY <3>1, <4>3 DEF Places, AskOf
    <3>3. ToSet(queue) \subseteq ToSet(queue)' \union {n}
      BY <2>3, UnqueueQueue
    <3> QED BY <1>0, <1>1, <3>1, <3>2, <3>3
  <2> QED BY <1>6, <2>1, <2>2, <2>3 DEF Cancelling
<1>7. CASE Reader
  <2>1. PICK type : Reads(type) /\ Head(out).type = type /\ (GivenBack(m)' => GivenBack(m))
    BY <1>7, ReaderSays
  <2>2. PICK h : h = Head(out)
    OBVIOUS
  <2>3. h \in ToSet(out) /\ (Told(m)' => Told(m))
    <3>1. out \in Seq(Events) /\ out # <<>>
      BY <1>0, <2>1 DEF ClaudeTypes, Reads
    <3> QED BY <1>0, <2>1, <2>2, <3>1, OutLess, Tailed
  <2>4. ~ Told(m) /\ m \in ToSet(queue)
    BY <1>0, <2>1 DEF Back
  <2>5. ~ (h.id = m /\ h.type \in Takes)
    BY <2>3, <2>4 DEF Told
  <2>6. m \in ToSet(queue)'
    BY <1>7, <2>2, <2>4, <2>5, ReaderQueue
  <2> QED BY <2>3, <2>4, <2>6
<1>8. CASE Close
  BY <1>8 DEF Close, Open
<1>9. CASE Claude
  <2>1. queue' = queue /\ alive'
    BY <1>9 DEF Claude, holderState, Open
  <2>2. \/ /\ GivenBack(m)
           /\ Told(m)' => Told(m) \/ InInbox(m) \/ InTurn(m)
        \/ /\ InInbox(m)
           /\ Told(m)' => Told(m)
    BY <1>0, <1>9, <2>1, ClaudeBack
  <2>3. CASE GivenBack(m) /\ (Told(m)' => Told(m) \/ InInbox(m) \/ InTurn(m))
    BY <1>0, <2>1, <2>3 DEF Back, PlaceOf
  <2>4. CASE InInbox(m) /\ (Told(m)' => Told(m))
    BY <1>0, <2>1, <2>4 DEF PlaceOf, QueueInv, Kept, Unread, InInbox
  <2> QED BY <2>2, <2>3, <2>4
<1>10. CASE Idle
  BY <1>2, <1>10, IdleChanges
<1> QED BY <1>3, <1>4, <1>5, <1>6, <1>7, <1>8, <1>9, <1>10 DEF Next, Aside, Idle

\* What tells the holder that a turn began is followed by what tells it that it
\* ended, as long as claude is at none: the holder never stays busy for it.
Starts(i) == (out[i].type = "started" /\ out[i].id \in Inputs) \/ out[i].type = "init"
Promise == Open => \A i \in 1 .. Len(out) :
                       Starts(i) => turn # <<>> \/ \E j \in 1 .. Len(out) : j > i /\ Ends(j)

\* After what ends a turn no beginning is left open.
LEMMA PromiseEnds ==
    ASSUME ClaudeTypes, NEW events \in Seq(Events), Tells(events),
           NEW k \in 1 .. Len(events), events[k].type = "result",
           \A i \in 1 .. Len(events) : events[i].type \in {"started", "init"} => i < k
    PROVE  Promise'
<1> PICK n : n = Len(out) + k
  OBVIOUS
<1>1. /\ Len(out) \in Nat /\ Len(events) \in Nat /\ Len(out') = Len(out) + Len(events)
      /\ \A i \in 1 .. Len(out') : \/ i \in 1 .. Len(out)
                                   \/ /\ i > Len(out) /\ i - Len(out) \in 1 .. Len(events)
                                      /\ out'[i] = events[i - Len(out)]
  BY OutMore, Positions
<1>2. n \in 1 .. Len(out') /\ n > Len(out) /\ n - Len(out) = k
  BY <1>1
<1>3. Ends(n)'
  <2>1. out'[n] = events[k]
    BY <1>1, <1>2
  <2> QED BY <2>1 DEF Ends
<1>4. ASSUME NEW i \in 1 .. Len(out'), Starts(i)' PROVE n > i
  BY <1>1, <1>2, <1>4 DEF Starts
<1> QED BY <1>2, <1>3, <1>4 DEF Promise

LEMMA PromiseStep ==
    ASSUME Types, Promise, [Next]_vars
    PROVE  Promise'
<1> SUFFICES ASSUME Open' PROVE Promise'
  BY DEF Promise
<1>0. Open /\ ClaudeTypes
  BY OpenStays DEF Types
<1>1. CASE UNCHANGED <<turn, out>>
  BY <1>0, <1>1 DEF Promise, Starts, Ends
<1>2. ASSUME NEW s \in Says, Saying(s) PROVE Promise'
  BY <1>1, <1>2 DEF Saying, List, Write, Unlist, Settle, claude
<1>3. ASSUME NEW l \in Letters, WriteLetter(l) PROVE Promise'
  BY <1>1, <1>3 DEF WriteLetter
<1>4. ASSUME NEW c \in Cmds, Running(c) PROVE Promise'
  BY <1>1, <1>4 DEF Running, Run, WriteRun, DropShell, claude
<1>5. ASSUME NEW m \in Msgs, Cancelling(m) PROVE Promise'
  BY <1>1, <1>5 DEF Cancelling, AskBack, GiveUp, Unqueue, claude
<1>6. CASE Reader
  <2>1. PICK type : Reads(type)
    BY <1>6 DEF Reader, OnStarted, OnShellEnded, OnCompleted, OnEcho, OnPrinted, OnInit, OnResult,
                OnResponse
  <2>2. /\ turn' = turn /\ Len(out') = Len(out) - 1 /\ Len(out) \in Nat \ {0}
        /\ \A i \in 1 .. Len(out') : i + 1 \in 1 .. Len(out) /\ out'[i] = out[i + 1]
    <3>1. turn' = turn
      BY <2>1 DEF Reads
    <3> QED BY <1>0, <2>1, <3>1, OutLess
  <2>3. ASSUME NEW i \in 1 .. Len(out'), Starts(i)', turn' = <<>>
        PROVE  \E j \in 1 .. Len(out') : j > i /\ Ends(j)'
    <3>1. Starts(i + 1) /\ i + 1 \in 1 .. Len(out)
      BY <2>2, <2>3 DEF Starts
    <3>2. PICK j \in 1 .. Len(out) : j > i + 1 /\ Ends(j)
      BY <1>0, <2>2, <2>3, <3>1 DEF Promise
    <3>3. PICK n : n = j - 1
      OBVIOUS
    <3>4. n \in 1 .. Len(out') /\ n > i /\ n + 1 = j
      BY <2>2, <3>2, <3>3
    <3>5. Ends(n)'
      BY <2>2, <3>2, <3>4 DEF Ends
    <3> QED BY <3>4, <3>5
  <2> QED BY <2>3 DEF Promise
<1>7. CASE Close
  BY <1>7 DEF Close, Open
<1>8. CASE Claude
  <2>1. CASE BeginTurn \/ Absorb \/ BeginOwnTurn
    <3>1. turn' # <<>>
      <4>1. CASE BeginTurn
        BY <4>1 DEF BeginTurn
      <4>2. CASE BeginOwnTurn
        BY <4>2 DEF BeginOwnTurn
      <4>3. CASE Absorb
        <5>1. PICK h : h = Head(inbox)
          OBVIOUS
        <5>2. inbox # <<>> /\ inbox \in Seq(Inputs) /\ turn' = Append(turn, h)
          BY <1>0, <4>3, <5>1 DEF Absorb, ClaudeTypes
        <5>3. h \in Inputs \union {Self} /\ turn \in Seq(Inputs \union {Self})
          BY <1>0, <5>1, <5>2, Tailed DEF ClaudeTypes
        <5> QED BY <5>2, <5>3, AppendProperties
      <4> QED BY <2>1, <4>1, <4>2, <4>3
    <3> QED BY <3>1 DEF Promise
  <2>2. CASE RunSlash
    <3>1. PICK h : h = Head(inbox)
      OBVIOUS
    <3>2. inbox # <<>> /\ inbox \in Seq(Inputs) /\ turn' = turn
      BY <1>0, <2>2 DEF RunSlash, ClaudeTypes
    <3>3. h \in Inputs
      BY <3>1, <3>2, Tailed
    <3>4. PICK a \in Events, b \in Events, c \in Events :
              a = Event("started", h) /\ b = Event("completed", h) /\ c = Event("result", h)
      BY <3>3, EventIn
    <3>5. a.type = "started" /\ b.type = "completed" /\ c.type = "result"
      BY <3>4 DEF Event
    <3>6. PICK p : p = <<a, b, c>>
      OBVIOUS
    <3>7. p \in Seq(Events) /\ Len(p) = 3 /\ p[1] = a /\ p[2] = b /\ p[3] = c
      BY <3>6
    <3>8. Tells(p)
      BY <2>2, <3>1, <3>4, <3>6 DEF RunSlash
    <3>9. \A i \in 1 .. Len(p) : p[i].type \in {"started", "init"} => i < 3
      BY <3>5, <3>7
    <3>10. PICK k : k = 3
      OBVIOUS
    <3>11. k \in 1 .. Len(p) /\ p[k].type = "result" /\ p \in Seq(Events)
      BY <3>5, <3>7, <3>10
    <3> QED BY <1>0, <3>8, <3>9, <3>10, <3>11, PromiseEnds
  <2>3. CASE EndTurn
    <3>1. Tells(EndWords) /\ turn # <<>>
      BY <2>3 DEF EndTurn, EndWords, Ended
    <3>2. /\ EndWords \in Seq(Events) /\ Event("result", Head(turn)) \in ToSet(EndWords)
          /\ \A e \in ToSet(EndWords) : e.type \in {"result", "completed"}
      BY <1>0, <3>1, EndWordsAre DEF ClaudeTypes
    <3>3. /\ \A i \in 1 .. Len(EndWords) : EndWords[i] \in ToSet(EndWords)
          /\ \E i \in 1 .. Len(EndWords) : EndWords[i] = Event("result", Head(turn))
      BY <3>2, Positions
    <3>4. PICK k \in 1 .. Len(EndWords) : EndWords[k].type = "result"
      BY <3>3 DEF Event
    <3>5. \A i \in 1 .. Len(EndWords) : EndWords[i].type \notin {"started", "init"}
      BY <3>2, <3>3
    <3> QED BY <1>0, <3>1, <3>2, <3>4, <3>5, PromiseEnds
  <2>4. CASE ReadLine \/ CommandEnds
    <3>1. PICK events \in Seq(Events) :
              /\ Tells(events) \/ out' = out
              /\ \A e \in ToSet(events) : e.id \in Cmds \/ e.type \in Answers
      BY <1>0, <2>4, LineSays
    <3>2. turn' = turn
      BY <2>4 DEF ReadLine, ReadMessage, ReadCommand, ReadCancel, CommandEnds
    <3>3. ASSUME NEW e \in ToSet(events)
          PROVE  e.type # "init" /\ (e.type = "started" => e.id \notin Inputs)
      <4>1. e \in Events
        BY Positions
      <4> QED BY <3>1, <4>1, EventOut, IdsAssumption DEF Answers, Inputs
    <3>4. CASE Tells(events)
      <4>1. /\ Len(out) \in Nat
            /\ \A i \in 1 .. Len(out) : i \in 1 .. Len(out') /\ out'[i] = out[i]
            /\ \A i \in 1 .. Len(out') : \/ i \in 1 .. Len(out) /\ out'[i] = out[i]
                                         \/ i > Len(out) /\ out'[i] \in ToSet(events)
        BY <1>0, <3>4, OutAfter
      <4>2. \A i \in 1 .. Len(out') : Starts(i)' => i \in 1 .. Len(out) /\ Starts(i)
        BY <3>3, <4>1 DEF Starts
      <4>3. \A j \in 1 .. Len(out) : Ends(j) => j \in 1 .. Len(out') /\ Ends(j)'
        BY <4>1 DEF Ends
      <4> QED BY <1>0, <3>2, <4>2, <4>3 DEF Promise
    <3> QED BY <1>1, <3>1, <3>2, <3>4
  <2>5. ~ Exit
    BY DEF Exit, Open
  <2> QED BY <1>8, <2>1, <2>2, <2>3, <2>4, <2>5 DEF Claude, TakeUp
<1>9. CASE Idle
  BY <1>1, <1>9, IdleChanges
<1> QED BY <1>2, <1>3, <1>4, <1>5, <1>6, <1>7, <1>8, <1>9 DEF Next, Aside, Idle

\* A message on its way to claude, or on its way back.
Engaged(s) == \/ pc[s] = "listed" \/ InPipe(s) \/ InInbox(s)
              \/ Event("cancelled", s) \in ToSet(out)
Ending == \E e \in ToSet(out) : e.type = "result"

\* Who is busy waits for an end: that of the turn of a message claude will take
\* up, of the turn it is at, or the one on its way. None comes of a message
\* taken back.
Owing == \/ \E s \in Says : Engaged(s)
         \/ turn # <<>>
         \/ Ending
         \/ \E m \in Msgs : TakenBack(m)
Owed == Open /\ busy => Owing

LEMMA OwedKept ==
    ASSUME Open, Owed, busy' = busy,
           \A s \in Says : Engaged(s) => Engaged(s)',
           turn # <<>> => turn' # <<>>, Ending => Ending',
           \A m \in Msgs : TakenBack(m) => TakenBack(m)'
    PROVE  Owed'
BY DEF Owed, Owing

\* The reader makes busy what has an end to come, and free at each end.
LEMMA OwedRead ==
    ASSUME Types, Places, Commands, Promise, Owed, Open, Reader
    PROVE  Owed'
<1> SUFFICES ASSUME busy' PROVE Owing'
  BY DEF Owed
<1>0. /\ ClaudeTypes /\ cancel \in [Msgs -> {"none", "asked", "taken", "given up", "done"}]
      /\ UNCHANGED <<pc, pipe, inbox, turn, withdrawn>>
  BY DEF Types, HolderTypes, Reader, OnStarted, OnShellEnded, OnCompleted, OnEcho, OnPrinted, OnInit,
         OnResult, OnResponse, Reads
<1>1. PICK type :
          /\ Reads(type) /\ Head(out).type = type
          /\ cancel' # cancel =>
                 /\ cancel[Head(out).id] = "asked"
                 /\ cancel' = [cancel EXCEPT ![Head(out).id] =
                                  IF type = "cancelled" THEN "taken" ELSE "done"]
  BY <1>0, ReaderSays
<1>2. PICK h : h = Head(out).id
  OBVIOUS
<1>3. /\ \A e : e \in ToSet(out) <=> e \in ToSet(out)' \/ e = Head(out)
      /\ Head(out) \in Events /\ Head(out) = Event(type, h)
      /\ Len(out') = Len(out) - 1 /\ Len(out) \in Nat \ {0} /\ Head(out) = out[1]
      /\ \A i \in 1 .. Len(out') : i + 1 \in 1 .. Len(out) /\ out'[i] = out[i + 1]
  BY <1>0, <1>1, <1>2, OutLess
<1>4. /\ type # "result"
      /\ type = "cancelled" => OnResponse("cancelled")
      /\ busy' = busy \/ type = "init" \/ (type = "started" /\ (busy \/ h \notin ToSet(shells)))
  BY <1>1, <1>2 DEF Reader, OnStarted, OnShellEnded, OnCompleted, OnEcho, OnPrinted, OnInit,
                    OnResult, OnResponse, Reads, holderState
<1>5. \A m \in Msgs : TakenBack(m) => TakenBack(m)'
  BY <1>0, <1>1 DEF TakenBack
<1>6. CASE busy
  <2>1. CASE turn # <<>> \/ \E m \in Msgs : TakenBack(m)
    BY <1>0, <1>5, <2>1 DEF Owing
  <2>2. CASE Ending
    BY <1>1, <1>3, <1>4, <2>2 DEF Owing, Ending
  <2>3. ASSUME NEW s \in Says, Engaged(s) PROVE Owing'
    <3>1. CASE Engaged(s)'
      BY <3>1 DEF Owing
    <3>2. CASE ~ Engaged(s)'
      <4>1. Event("cancelled", s) \in ToSet(out) /\ Event("cancelled", s) = Event(type, h)
        BY <1>0, <1>3, <2>3, <3>2, PipeSame DEF Engaged, InInbox
      <4>2. Event("cancelled", s).type = "cancelled" /\ Event("cancelled", s).id = s
        BY DEF Event
      <4>3. type = "cancelled" /\ h = s
        BY <1>1, <1>2, <1>3, <4>1, <4>2
      <4>4. s \in Msgs
        BY <1>1, <1>2, <1>3, <4>3, EventOut
      <4>5. Answered(s)
        BY <4>1, <4>2 DEF Answered, Answers
      <4>6. cancel[s] \in {"asked", "given up"}
        BY <4>4, <4>5 DEF Places, AskOf
      <4>7. cancel' = IF cancel[s] # "asked" THEN cancel ELSE [cancel EXCEPT ![s] = "taken"]
        BY <1>2, <1>4, <4>3 DEF OnResponse
      <4>8. cancel'[s] \in {"taken", "given up"}
        BY <1>0, <4>4, <4>6, <4>7
      <4> QED BY <4>4, <4>8 DEF Owing, TakenBack
    <3> QED BY <3>1, <3>2
  <2> QED BY <1>6, <2>1, <2>2, <2>3 DEF Owed, Owing
<1>7. CASE ~ busy
  <2>1. type = "init" \/ (type = "started" /\ h \notin ToSet(shells))
    BY <1>4, <1>7
  <2>2. h \notin ToSet(shells) => h \notin Cmds
    <3>1. Words(h)
      BY <1>2, <1>3 DEF Words
    <3> QED BY <3>1 DEF Commands, CommandOf, NoneLeft
  <2>3. Starts(1)
    BY <1>1, <1>2, <1>3, <2>1, <2>2, EventOut DEF Starts
  <2>4. 1 \in 1 .. Len(out)
    BY <1>3
  <2>5. turn # <<>> \/ \E j \in 1 .. Len(out) : j > 1 /\ Ends(j)
    BY <2>3, <2>4 DEF Promise
  <2>6. CASE turn # <<>>
    BY <1>0, <2>6 DEF Owing
  <2>7. ASSUME NEW j \in 1 .. Len(out), j > 1, Ends(j) PROVE Owing'
    <3>1. out[j] \in ToSet(out) /\ Len(out) \in Nat
      BY <1>0, Positions DEF ClaudeTypes
    <3>2. out[j].type = "result"
      BY <2>7 DEF Ends
    <3>3. out[j] \in ToSet(out)'
      BY <1>1, <1>3, <1>4, <3>1, <3>2
    <3> QED BY <3>2, <3>3 DEF Owing, Ending
  <2> QED BY <2>5, <2>6, <2>7
<1> QED BY <1>6, <1>7

\* Claude writes an end, is at a turn, or has still to take the message up.
LEMMA OwedClaude ==
    ASSUME Types, Places, Owed, Open, Claude, alive'
    PROVE  Owed'
<1> SUFFICES ASSUME busy' PROVE Owing'
  BY DEF Owed
<1>0. ClaudeTypes /\ UNCHANGED <<busy, pc, cancel, withdrawn>> /\ ~ Exit
  BY DEF Types, Claude, holderState, holderRest, Exit
<1>1. /\ ToSet(out) \subseteq ToSet(out)'
      /\ \A s \in Says : InPipe(s) \/ InInbox(s) =>
                             (InPipe(s) \/ InInbox(s) \/ Told(s) \/ GivenBack(s))'
  BY <1>0, ClaudeKeeps
<1>2. CASE BeginTurn \/ BeginOwnTurn
  <2>1. CASE BeginTurn
    BY <2>1 DEF BeginTurn, Owing
  <2>2. CASE BeginOwnTurn
    BY <2>2 DEF BeginOwnTurn, Owing
  <2> QED BY <1>2, <2>1, <2>2
<1>3. CASE Absorb
  <2>1. PICK h : h = Head(inbox)
    OBVIOUS
  <2>2. inbox # <<>> /\ turn' = Append(turn, h)
    BY <1>3, <2>1 DEF Absorb
  <2>3. h \in Inputs
    BY <1>0, <2>1, <2>2, Tailed DEF ClaudeTypes
  <2>4. h \in Inputs \union {Self} /\ turn \in Seq(Inputs \union {Self})
    BY <1>0, <2>3 DEF ClaudeTypes
  <2>5. turn' # <<>>
    BY <2>2, <2>4, AppendProperties
  <2> QED BY <2>5 DEF Owing
<1>4. CASE RunSlash
  <2>1. PICK h : h = Head(inbox)
    OBVIOUS
  <2>2. inbox # <<>>
    BY <1>4 DEF RunSlash
  <2>3. h \in Inputs
    BY <1>0, <2>1, <2>2, Tailed DEF ClaudeTypes
  <2>4. PICK a \in Events, b \in Events, c \in Events :
            a = Event("started", h) /\ b = Event("completed", h) /\ c = Event("result", h)
    BY <2>3, EventIn
  <2>5. PICK p : p = <<a, b, c>>
    OBVIOUS
  <2>6. p \in Seq(Events) /\ ToSet(p) = {a, b, c}
    BY <2>5 DEF ToSet
  <2>7. Tells(p)
    BY <1>4, <2>1, <2>4, <2>5 DEF RunSlash
  <2>8. c \in ToSet(out)' /\ c.type = "result"
    BY <1>0, <2>4, <2>6, <2>7, OutMore DEF Event
  <2> QED BY <2>8 DEF Owing, Ending
<1>5. CASE EndTurn
  <2>1. Tells(EndWords) /\ turn # <<>>
    BY <1>5 DEF EndTurn, EndWords, Ended
  <2>2. EndWords \in Seq(Events) /\ Event("result", Head(turn)) \in ToSet(EndWords)
    BY <1>0, <2>1, EndWordsAre DEF ClaudeTypes
  <2>3. PICK e : e = Event("result", Head(turn))
    OBVIOUS
  <2>4. e \in ToSet(out)' /\ e.type = "result"
    BY <1>0, <2>1, <2>2, <2>3, OutMore DEF Event
  <2> QED BY <2>4 DEF Owing, Ending
<1>6. CASE ReadLine \/ CommandEnds
  <2>1. turn' = turn
    BY <1>6 DEF ReadLine, ReadMessage, ReadCommand, ReadCancel, CommandEnds
  <2>2. PICK events \in Seq(Events) :
            /\ Tells(events) \/ out' = out
            /\ \A e \in ToSet(events) : e.type \in Takes => e.id \notin Inputs
    BY <1>0, <1>6, OtherSays
  <2>3. \A s \in Says : Told(s)' => Told(s)
    BY <1>0, <2>2, OutMore, OutSame DEF Inputs
  <2>4. CASE turn # <<>> \/ Ending \/ \E m \in Msgs : TakenBack(m)
    BY <1>0, <1>1, <2>1, <2>4 DEF Owing, Ending, TakenBack
  <2>5. ASSUME NEW s \in Says, Engaged(s) PROVE Owing'
    <3>1. CASE pc[s] = "listed" \/ Event("cancelled", s) \in ToSet(out)
      <4>1. Engaged(s)'
        BY <1>0, <1>1, <3>1 DEF Engaged
      <4> QED BY <4>1 DEF Owing
    <3>2. CASE InPipe(s) \/ InInbox(s)
      <4>1. ~ Told(s)'
        BY <2>3, <3>2 DEF Places, PlaceOf, Inputs
      <4>2. Engaged(s)' \/ (s \in Msgs /\ cancel'[s] = "taken")
        BY <1>1, <3>2, <4>1 DEF Engaged, GivenBack
      <4> QED BY <4>2 DEF Owing, TakenBack
    <3> QED BY <2>5, <3>1, <3>2 DEF Engaged
  <2> QED BY <1>0, <2>4, <2>5 DEF Owed, Owing
<1> QED BY <1>0, <1>2, <1>3, <1>4, <1>5, <1>6 DEF Claude, TakeUp

LEMMA OwedStep ==
    ASSUME Types, Places, QueueInv, Commands, Back, Promise, Owed, [Next]_vars
    PROVE  Owed'
<1> SUFFICES ASSUME Open' PROVE Owed'
  BY DEF Owed
<1>0. /\ Open /\ ClaudeTypes /\ pc \in [Inputs \union Cmds -> Steps]
      /\ cancel \in [Msgs -> {"none", "asked", "taken", "given up", "done"}]
      /\ \A s \in Says : s \in Inputs \union Cmds /\ s \notin Letters /\ s \notin Cmds
  BY OpenStays, IdsAssumption DEF Types, HolderTypes, Inputs
<1>1. ASSUME UNCHANGED <<busy, inbox, turn, out, withdrawn>>,
             \A s \in Says : pc[s] = "listed" => pc'[s] = "listed",
             \A s \in Says : InPipe(s) => InPipe(s)',
             \A m \in Msgs : cancel'[m] = cancel[m] \/ cancel[m] = "none"
                             \/ cancel'[m] = "given up"
      PROVE  Owed'
  BY <1>0, <1>1, OwedKept DEF Engaged, Ending, InInbox, TakenBack
<1>2. ASSUME NEW s \in Says, Saying(s) PROVE Owed'
  <2>1. CASE List(s)
    <3>1. pc'[s] = "listed"
      BY <1>0, <2>1 DEF List, Goes
    <3> QED BY <3>1 DEF Owed, Owing, Engaged
  <2>2. CASE Write(s)
    <3>1. pipe' = Append(pipe, Line("message", s))
      BY <1>0, <2>2 DEF Write, Writable, Open
    <3>2. Line("message", s) \in Lines
      BY LineIn DEF Inputs
    <3>3. InPipe(s)'
      BY <1>0, <3>1, <3>2, PipeMore
    <3> QED BY <3>3 DEF Owed, Owing, Engaged
  <2>3. CASE Unlist(s)
    BY <1>0, <2>3 DEF Unlist, QueueInv, Shut
  <2>4. CASE Settle(s)
    <3>1. /\ UNCHANGED <<busy, inbox, turn, out, withdrawn, cancel, pipe>>
          /\ pc[s] = "written" /\ pc' = [pc EXCEPT ![s] = "sent"]
      BY <2>4 DEF Settle, Goes, claude
    <3>2. \A t \in Says : pc[t] = "listed" => pc'[t] = "listed"
      BY <1>0, <3>1
    <3> QED BY <1>1, <3>1, <3>2, PipeSame
  <2> QED BY <1>2, <2>1, <2>2, <2>3, <2>4 DEF Saying
<1>3. ASSUME NEW l \in Letters, WriteLetter(l) PROVE Owed'
  <2>1. /\ UNCHANGED <<busy, inbox, turn, out, withdrawn, cancel>>
        /\ pipe' = Append(pipe, Line("message", l)) /\ pc' = [pc EXCEPT ![l] = "written"]
    BY <1>3 DEF WriteLetter, holderState, Goes
  <2>2. Line("message", l) \in Lines
    BY LineIn DEF Inputs
  <2>3. \A s \in Says : InPipe(s) => InPipe(s)'
    BY <1>0, <2>1, <2>2, PipeMore
  <2>4. \A s \in Says : pc'[s] = pc[s]
    BY <1>0, <2>1
  <2> QED BY <1>1, <2>1, <2>3, <2>4
<1>4. ASSUME NEW c \in Cmds, Running(c) PROVE Owed'
  <2>1. /\ UNCHANGED <<busy, inbox, turn, out, withdrawn, cancel>>
        /\ pipe' = pipe \/ pipe' = Append(pipe, Line("command", c))
        /\ pc' = pc \/ \E step : pc' = [pc EXCEPT ![c] = step]
    BY <1>4 DEF Running, Run, WriteRun, DropShell, holderState, holderRest, claude, Goes
  <2>2. \A s \in Says : InPipe(s) => InPipe(s)'
    <3>1. Line("command", c) \in Lines
      BY LineIn
    <3> QED BY <1>0, <2>1, <3>1, PipeMore, PipeSame
  <2>3. \A s \in Says : pc'[s] = pc[s]
    BY <1>0, <2>1
  <2> QED BY <1>1, <2>1, <2>2, <2>3
<1>5. ASSUME NEW m \in Msgs, Cancelling(m) PROVE Owed'
  <2>1. CASE AskBack(m)
    <3>1. /\ UNCHANGED <<busy, inbox, turn, out, withdrawn, pc>> /\ cancel[m] = "none"
          /\ pipe' = Append(pipe, Line("cancel", m)) /\ cancel' = [cancel EXCEPT ![m] = "asked"]
      BY <2>1 DEF AskBack, holderState
    <3>2. \A s \in Says : InPipe(s) => InPipe(s)'
      <4>1. Line("cancel", m) \in Lines
        BY LineIn
      <4> QED BY <1>0, <3>1, <4>1, PipeMore
    <3>3. \A n \in Msgs : cancel'[n] = cancel[n] \/ cancel[n] = "none"
      BY <1>0, <3>1
    <3> QED BY <1>1, <3>1, <3>2, <3>3
  <2>2. CASE GiveUp(m)
    <3>1. /\ UNCHANGED <<busy, inbox, turn, out, withdrawn, pc, pipe>>
          /\ cancel' = [cancel EXCEPT ![m] = "given up"]
      BY <2>2 DEF GiveUp, holderState, claude
    <3>2. \A n \in Msgs : cancel'[n] = cancel[n] \/ cancel'[n] = "given up"
      BY <1>0, <3>1
    <3> QED BY <1>1, <3>1, <3>2, PipeSame
  <2>3. CASE Unqueue(m)
    <3>1. GivenBack(m)
      BY <2>3 DEF Unqueue, GivenBack
    <3>2. m \in ToSet(queue)
      BY <1>0, <3>1 DEF Back
    <3>3. m \in withdrawn'
      BY <2>3, <3>2 DEF Unqueue
    <3> QED BY <3>3 DEF Owed, Owing, TakenBack
  <2> QED BY <1>5, <2>1, <2>2, <2>3 DEF Cancelling
<1>6. CASE Reader
  BY <1>0, <1>6, OwedRead
<1>7. CASE Close
  BY <1>7 DEF Close, Open
<1>8. CASE Claude
  BY <1>0, <1>8, OwedClaude DEF Open
<1>9. CASE Idle
  <2>1. /\ UNCHANGED <<busy, inbox, turn, out, withdrawn, cancel, pipe>>
        /\ \A s \in Says : pc'[s] = pc[s]
    BY <1>9, IdleChanges
  <2> QED BY <1>1, <2>1, PipeSame
<1> QED BY <1>2, <1>3, <1>4, <1>5, <1>6, <1>7, <1>8, <1>9 DEF Next, Aside, Idle

\* With nothing left to read, to write or to answer the session is free, unless
\* a message was taken back: however the messages of the person, the outputs of
\* its commands, letters and turns of claude's own fell together before.
THEOREM QuietSessionsAreFree ==
    ASSUME DistinctTexts
    PROVE  Spec => []QuietIsFree
<1> DEFINE I == /\ Types /\ Places /\ QueueInv /\ Commands /\ ForecastInv
                /\ Back /\ Promise /\ Owed
<1>1. Init => I
  <2> SUFFICES ASSUME Init PROVE Back /\ Promise /\ Owed
    BY TypesInit, PlacesInit, QueueInit, CommandsInit
  <2>1. out = <<>> /\ ~ busy /\ \A m \in Msgs : cancel[m] = "none"
    BY DEF Init
  <2>2. Len(out) = 0 /\ ToSet(out) = {}
    BY <2>1 DEF ToSet
  <2> QED BY <2>1, <2>2 DEF Back, GivenBack, Promise, Owed
<1>2. I /\ [Next]_vars => I'
  BY TypesStep, PlacesStep, QueueStep, CommandsStep, ForecastStep, BackStep, PromiseStep, OwedStep
<1>3. I => QuietIsFree
  <2> SUFFICES ASSUME Owed, AtRest, \A m \in Msgs : ~ TakenBack(m), busy PROVE FALSE
    BY DEF QuietIsFree
  <2>1. /\ Open /\ turn = <<>> /\ \A s \in Says : pc[s] # "listed"
        /\ ToSet(pipe) = {} /\ ToSet(inbox) = {} /\ ToSet(out) = {}
    BY DEF AtRest, ToSet
  <2>2. (\A s \in Says : ~ Engaged(s)) /\ ~ Ending
    BY <2>1 DEF Engaged, InPipe, InInbox, Ending
  <2> QED BY <2>1, <2>2 DEF Owed, Owing
<1> HIDE DEF I
<1> QED BY <1>1, <1>2, <1>3, PTL DEF Spec

=============================================================================
