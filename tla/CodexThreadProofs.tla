-------------------------- MODULE CodexThreadProofs -------------------------
(***************************************************************************)
(* What TLAPS proves of CodexThread, for every set of messages, any of     *)
(* them answers or refused, and any bound on what happens: the queue of    *)
(* the link and its ways past the queue are the mailbox of CodexMailbox.   *)
(*                                                                         *)
(* The invariant says what the procedure that holds the lock knows of the  *)
(* queue; the actions are of two kinds, those that move no message, which  *)
(* are taken together, and those that do, each with a lemma of its own.    *)
(*                                                                         *)
(* And of its turns: the link does not leave a thread in which a turn of   *)
(* the panel's runs, and a restart of an idle daemon ends none; with the   *)
(* types of all the variables, of which the messages and the turns are a   *)
(* part.  Both look at the daemon in one call and act in another, or act   *)
(* on what they last heard.  The invariant says what they may rely on: the *)
(* link knows of a turn of its own, by the mark `ours' or by the status it *)
(* read, until the turn is over, and between the question whether one      *)
(* runs and the unsubscribe the lock keeps the panel's own starts out.     *)
(***************************************************************************)
EXTENDS CodexThread, SequenceTheorems, TLAPS

\* The types the proof needs.
Record(o) == o \in [kind : Kinds, at : Places, msg : Msgs \cup {NoMsg}, turn : {o.turn}, busy : {o.busy}]

MailOK ==
    /\ queue \in Seq(Msgs) /\ took \in Seq(Msgs)
    /\ unsent \subseteq Msgs /\ doubted \subseteq Msgs /\ told \subseteq Msgs
    /\ Record(op)
    /\ op.kind \in Carriers => op.msg \in Msgs

\* What holds of the message a procedure carries while it carries it.
Carried ==
    /\ op.kind \in {"send", "answer"} => op.msg \notin unsent
    /\ op.kind = "send" => queue = << >>
    /\ op.kind = "answer" => op.msg \in Answers
    /\ op.kind = "drain" => queue # << >> /\ op.msg = Head(queue)
    /\ op.at \in {"remove", "refused"} => op.kind = "drain"
    /\ op.at = "remove" => Among(op.msg, took)
    /\ op.at = "refused" => op.msg \in Bad \/ ~loaded
    /\ \A call \in late : call.msg \in doubted

\* A step of the mailbox, or one that it does not see.
Moved == Mailbox!Next \/ UNCHANGED <<Fresh, Line, took, doubted, told>>

\* A step that moves no message: the procedure is left as it is, or is one
\* that carries none.
Aside ==
    /\ UNCHANGED <<queue, took, unsent, doubted, told, late>>
    /\ \/ op' = op /\ (loaded' => loaded)
       \/ op.kind \notin Carriers /\ op'.kind \notin Carriers /\ op'.at \notin {"remove", "refused"} /\ Record(op')

----------------------------------------------------------------------------
(* Sequences *)

\* The oldest message and the rest of a queue.
LEMMA HeadAndTail ==
    ASSUME NEW S, NEW q \in Seq(S), q # << >>
    PROVE  Head(q) \in S /\ Tail(q) \in Seq(S) /\ q = <<Head(q)>> \o Tail(q)
BY HeadTailProperties, SMT

\* A message at the end of a queue, and those before it.
LEMMA AtTheEnd ==
    ASSUME NEW S, NEW s \in Seq(S), NEW m \in S
    PROVE  /\ Append(s, m) \in Seq(S) /\ Append(s, m) # << >>
           /\ Among(m, Append(s, m))
           /\ \A x : Among(x, s) => Among(x, Append(s, m))
<1>1. /\ Append(s, m) \in Seq(S)
      /\ Len(Append(s, m)) = Len(s) + 1
      /\ \A i \in 1 .. Len(s) : Append(s, m)[i] = s[i]
      /\ Append(s, m)[Len(s) + 1] = m
  BY AppendProperties
<1>2. Len(s) \in Nat /\ DOMAIN s = 1 .. Len(s) /\ DOMAIN Append(s, m) = 1 .. Len(s) + 1
  BY <1>1, LenProperties
<1> QED
  BY <1>1, <1>2 DEF Among

\* A queue with one message taken out is a queue.
LEMMA OneTakenOut ==
    ASSUME NEW S, NEW q \in Seq(S), NEW i \in DOMAIN q
    PROVE  Without(q, i) \in Seq(S)
<1>0. Len(q) \in Nat /\ i \in 1 .. Len(q) /\ \A k \in 1 .. Len(q) : q[k] \in S
  BY LenProperties, ElementOfSeq
<1>1. SubSeq(q, 1, i - 1) \in Seq(S)
  <2>1. \A k \in 1 .. i - 1 : q[k] \in S
    BY <1>0
  <2> QED
    BY <1>0, <2>1, SubSeqProperties
<1>2. SubSeq(q, i + 1, Len(q)) \in Seq(S)
  <2>1. \A k \in i + 1 .. Len(q) : q[k] \in S
    BY <1>0
  <2> QED
    BY <1>0, <2>1, SubSeqProperties
<1> QED
  BY <1>1, <1>2, ConcatProperties DEF Without

----------------------------------------------------------------------------
(* The steps that move no message *)

LEMMA AsideHolds == MailOK /\ Carried /\ Aside => MailOK' /\ Carried' /\ Moved
BY DEF MailOK, Carried, Aside, Record, Carriers, Among, Fresh, Line, Moved

\* Of the daemon.
LEMMA DaemonAside ==
    ASSUME MailOK, Carried
    PROVE  TurnShows \/ TurnEnds \/ Ask \/ Answered \/ Unload \/ OtherTurn("other") \/ OtherTurn("deaf") => Aside
<1> USE DEF Aside, talk, memory, disk, rest, tale
<1>1. TurnShows => Aside BY DEF TurnShows
<1>2. TurnEnds => Aside BY DEF TurnEnds
<1>3. Ask => Aside BY DEF Ask
<1>4. Answered => Aside BY DEF Answered
<1>5. Unload => Aside BY DEF Unload
<1>6. \A who : OtherTurn(who) => Aside BY DEF OtherTurn
<1> QED
  BY <1>1, <1>2, <1>3, <1>4, <1>5, <1>6

\* Of what keeps the link a client of the thread.
LEMMA KeepAside ==
    ASSUME MailOK, Carried
    PROVE  Keep \/ KeepReread \/ KeepRunning \/ KeepRunningFails \/ KeepLeave \/ KeepJoin => Aside
<1> USE CodexAssumption DEF Aside, Record, Kinds, Places, Carriers, talk, memory, disk, rest, tale
<1>1. Keep => Aside
  <2> SUFFICES ASSUME Keep PROVE Aside
    OBVIOUS
  <2>1. UNCHANGED <<queue, took, unsent, doubted, told, late, loaded>> /\ op.kind = "none"
    BY DEF Keep, Free
  <2>2. op' = op \/ \E at \in {"join", "reread"} : op' = [NoOp EXCEPT !.kind = "keep", !.at = at, !.busy = ours]
    BY DEF Keep
  <2>3. ASSUME NEW at \in {"join", "reread"}, op' = [NoOp EXCEPT !.kind = "keep", !.at = at, !.busy = ours]
        PROVE  Aside
    BY <2>1, <2>3 DEF NoOp
  <2> QED
    BY <2>1, <2>2, <2>3
<1> USE DEF MailOK, Doing, Ended, GoTo, NoOp
<1>2. KeepReread => Aside BY DEF KeepReread
<1>3. KeepRunning => Aside BY DEF KeepRunning
<1>4. KeepRunningFails => Aside BY DEF KeepRunningFails
<1>5. KeepLeave => Aside BY DEF KeepLeave
<1>6. KeepJoin => Aside BY DEF KeepJoin
<1> QED
  BY <1>1, <1>2, <1>3, <1>4, <1>5, <1>6

\* Of the orders of a person.
LEMMA OrdersAside ==
    ASSUME MailOK, Carried
    PROVE  OrderGiven \/ CloseAfterTurn \/ CloseStatus \/ CloseTurns \/ CloseInterrupt \/ FinishStatus
              \/ FinishTurns \/ ResumeJoin \/ ReviewTurns \/ StartReview => Aside
<1> USE CodexAssumption DEF MailOK, Aside, Record, Kinds, Places, Carriers, talk, memory, disk, rest, tale,
        Doing, Ended, GoTo, NoOp
<1>1. OrderGiven => Aside BY DEF OrderGiven, Begin, Free
<1>2. CloseAfterTurn => Aside BY DEF CloseAfterTurn
<1>3. CloseStatus => Aside BY DEF CloseStatus
<1>4. CloseTurns => Aside BY DEF CloseTurns
<1>5. CloseInterrupt => Aside
  <2> SUFFICES ASSUME CloseInterrupt PROVE Aside
    OBVIOUS
  <2>1. UNCHANGED <<queue, took, unsent, doubted, told, late>> /\ op.kind = "close"
    BY DEF CloseInterrupt
  <2>2. op' = NoOp \/ op' = [op EXCEPT !.at = "leave"]
    BY DEF CloseInterrupt
  <2> QED
    BY <2>1, <2>2
<1>6. FinishStatus => Aside BY DEF FinishStatus
<1>7. FinishTurns => Aside BY DEF FinishTurns
<1>8. ResumeJoin => Aside BY DEF ResumeJoin
<1>9. ReviewTurns => Aside BY DEF ReviewTurns
<1>10. StartReview => Aside BY DEF StartReview
<1> QED
  BY <1>1, <1>2, <1>3, <1>4, <1>5, <1>6, <1>7, <1>8, <1>9, <1>10

\* Of the poll and the connection.
LEMMA PollAside ==
    ASSUME MailOK, Carried
    PROVE  PollRead \/ PollReadFails \/ LetGo \/ BackAgain \/ FinishClose \/ Seen \/ Drop \/ Connect => Aside
<1> USE CodexAssumption DEF Aside, Record, Kinds, Places, Carriers, talk, memory, disk, rest, tale
<1>1. PollRead => Aside BY DEF PollRead
<1>2. PollReadFails => Aside BY DEF PollReadFails
<1>3. LetGo => Aside BY DEF LetGo
<1>4. FinishClose => Aside BY DEF FinishClose, Free, NoOp
<1>5. Seen => Aside BY DEF Seen
<1>6. Drop => Aside BY DEF Drop
<1>7. Connect => Aside BY DEF Connect
<1>8. BackAgain => Aside BY DEF BackAgain
<1> QED
  BY <1>1, <1>2, <1>3, <1>4, <1>5, <1>6, <1>7, <1>8

----------------------------------------------------------------------------
(* The steps that move a message *)

\* A message sent waits behind those that wait, or is carried.
LEMMA SendMoves ==
    ASSUME MailOK, Carried, NEW m \in Msgs, Send(m)
    PROVE  MailOK' /\ Carried' /\ Moved
<1> USE CodexAssumption DEF Send, Free, NoOp, memory, talk, rest
<1>1. CASE queue # << >>
  <2>1. /\ op' = op /\ op.kind = "none" /\ op.at # "remove" /\ op.at # "refused"
        /\ queue' = Append(queue, m) /\ m \in unsent /\ unsent' = unsent \ {m}
        /\ took' = took /\ doubted' = doubted /\ told' = told /\ late' = late
    BY <1>1 DEF Carried
  <2>2. MailOK' /\ Carried'
    BY <2>1, AtTheEnd DEF MailOK, Carried, Record, Among, Carriers
  <2>3. Mailbox!Wait(m)
    BY <2>1 DEF Mailbox!Wait, Mailbox!Sent, Fresh, Line
  <2> QED
    BY <2>2, <2>3 DEF Moved, Mailbox!Next
<1>2. CASE queue = << >>
  <2>1. /\ op.kind = "none" /\ op.at # "remove" /\ m \in unsent /\ unsent' = unsent \ {m}
        /\ op' = [NoOp EXCEPT !.kind = "send", !.at = "status", !.msg = m]
    BY <1>2 DEF Carried
  <2>2. queue' = queue /\ took' = took /\ doubted' = doubted /\ told' = told /\ late' = late
    BY <1>2
  <2>3. MailOK'
    BY <1>2, <2>1, <2>2 DEF MailOK, Record, Carriers, Kinds, Places
  <2>4. Carried'
    BY <1>2, <2>1, <2>2 DEF Carried
  <2>5. Fresh' = Fresh /\ Line' = Line
    BY <2>1, <2>2 DEF Fresh, Line
  <2> QED
    BY <2>2, <2>3, <2>4, <2>5 DEF Moved
<1> QED
  BY <1>1, <1>2

LEMMA AnswerMoves ==
    ASSUME MailOK, Carried, NEW m \in Msgs, Answer(m)
    PROVE  MailOK' /\ Carried' /\ Moved
BY CodexAssumption DEF Answer, Free, NoOp, memory, talk, rest, disk,
   MailOK, Carried, Record, Among, Carriers, Kinds, Places, Moved, Fresh, Line

\* A message is taken back.
LEMMA UnqueueMoves ==
    ASSUME MailOK, Carried, NEW m \in Msgs, Unqueue(m)
    PROVE  MailOK' /\ Carried' /\ Moved
<1>1. PICK i \in DOMAIN queue : queue[i] = m /\ queue' = Without(queue, i)
  BY DEF Unqueue
<1>2. /\ op' = op /\ op.kind = "none" /\ op.at # "remove"
      /\ told' = told \cup {m} /\ UNCHANGED <<took, unsent, doubted, late>>
  BY DEF Unqueue, Free, Carried, talk, rest, tale
<1>3. queue' \in Seq(Msgs)
  BY <1>1, OneTakenOut DEF MailOK
<1>4. MailOK' /\ Carried'
  BY <1>2, <1>3 DEF MailOK, Carried, Record, Among, Carriers
<1>5. Mailbox!TakeBack(m)
  BY <1>1, <1>2 DEF Mailbox!TakeBack, Mailbox!Without, Without, Fresh, Line
<1> QED
  BY <1>4, <1>5 DEF Moved, Mailbox!Next

LEMMA DrainMoves ==
    ASSUME MailOK, Carried, Drain
    PROVE  MailOK' /\ Carried' /\ Moved
<1>1. op.kind = "none" /\ UNCHANGED <<queue, took, unsent, doubted, told, late, loaded>>
  BY DEF Drain, Free, talk, disk, rest, tale
<1>2. CASE op' = op
  BY <1>1, <1>2 DEF MailOK, Carried, Record, Among, Carriers, Moved, Fresh, Line
<1>3. CASE queue # << >> /\ op' = [NoOp EXCEPT !.kind = "drain", !.at = "status", !.msg = Head(queue)]
  BY <1>1, <1>3, HeadAndTail DEF MailOK, Carried, Record, Among, Carriers, Kinds, Places, NoOp, Moved, Fresh, Line
<1> QED
  BY <1>2, <1>3 DEF Drain

LEMMA LookStatusMoves ==
    ASSUME MailOK, Carried, LookStatus
    PROVE  MailOK' /\ Carried' /\ Moved
BY DEF LookStatus, Doing, talk, disk, rest, tale,
   MailOK, Carried, Record, Among, Carriers, Kinds, Places, Moved, Fresh, Line

\* The procedure that carries a message ends and nobody took it: one sent may
\* be put in the queue, and so may not.
LEMMA EndsUntaken ==
    ASSUME MailOK, Carried, op.kind \in Carriers, op.at \notin {"remove", "refused"}, op' = NoOp,
           \/ queue' = queue /\ told' = Told
           \/ op.kind = "send" /\ queue' = Append(queue, op.msg) /\ told' = told,
           UNCHANGED <<took, unsent, doubted, late>>
    PROVE  MailOK' /\ Carried' /\ Moved
<1>1. MailOK' /\ Carried'
  <2>1. queue' \in Seq(Msgs) /\ told' \subseteq Msgs
    BY AtTheEnd DEF MailOK, Carriers, Told
  <2>2. Record(NoOp) /\ NoOp.kind = "none" /\ NoOp.at = "none"
    BY CodexAssumption DEF Record, Kinds, Places, NoOp
  <2> QED
    BY <2>1, <2>2 DEF MailOK, Carried, Carriers
<1>2. CASE op.kind = "drain"
  BY <1>1, <1>2 DEF Carriers, NoOp, Moved, Fresh, Line, Told
<1>3. CASE op.kind \in {"send", "answer"} /\ queue' = queue /\ told' = Told
  <2>1. op.msg \in Msgs /\ Mailbox!Fail(op.msg)
    BY <1>3 DEF Told, MailOK, Carried, Carriers, NoOp, Fresh, Line, Mailbox!Fail, Mailbox!Sent
  <2> QED
    BY <1>1, <2>1 DEF Moved, Mailbox!Next
<1>4. CASE op.kind = "send" /\ queue' = Append(queue, op.msg) /\ told' = told
  <2>1. op.msg \in Msgs /\ Mailbox!Wait(op.msg)
    BY <1>4 DEF MailOK, Carried, Carriers, NoOp, Fresh, Line, Mailbox!Wait, Mailbox!Sent
  <2> QED
    BY <1>1, <2>1 DEF Moved, Mailbox!Next
<1> QED
  BY <1>1, <1>2, <1>3, <1>4 DEF Carriers

\* The procedure goes on and moves nothing.
LEMMA GoesOn ==
    ASSUME MailOK, Carried, NEW at \in Places \ {"remove", "refused"},
           op.at \notin {"remove", "refused"}, Record(op'), op'.kind = op.kind, op'.msg = op.msg, op'.at = at,
           UNCHANGED <<queue, took, unsent, doubted, told, late>>
    PROVE  MailOK' /\ Carried' /\ Moved
BY DEF MailOK, Carried, Record, Carriers, Moved, Fresh, Line

LEMMA LookTurnsMoves ==
    ASSUME MailOK, Carried, LookTurns
    PROVE  MailOK' /\ Carried' /\ Moved
<1>1. /\ op.kind \in Carriers /\ op.at = "turns"
      /\ UNCHANGED <<took, unsent, doubted, late>>
  BY DEF LookTurns, Doing, talk, rest, tale
<1>2. CASE Busy
  BY <1>1, <1>2, EndsUntaken DEF Busy, Ended, Told, Carriers
<1>3. CASE \E at \in {"start", "steer"} : op' = [op EXCEPT !.turn = ListedTurn, !.at = at] /\ queue' = queue /\ told' = told
  BY <1>1, <1>3, GoesOn DEF MailOK, Record, Places
<1> QED
  BY <1>2, <1>3 DEF LookTurns

LEMMA LookAgainMoves ==
    ASSUME MailOK, Carried, LookAgain
    PROVE  MailOK' /\ Carried' /\ Moved
<1>1. /\ op.kind \in Carriers /\ op.at = "again"
      /\ UNCHANGED <<took, unsent, doubted, late>>
  BY DEF LookAgain, Doing, talk, rest, tale
<1>2. CASE Busy
  BY <1>1, <1>2, EndsUntaken DEF Busy, Ended, Told, Carriers
<1>3. CASE op' = [op EXCEPT !.at = "start"] /\ queue' = queue /\ told' = told
  BY <1>1, <1>3, GoesOn DEF MailOK, Record, Places
<1> QED
  BY <1>2, <1>3 DEF LookAgain, GoTo

\* A message is taken by the turn that runs or by one it starts: it is carried
\* by its sender, who is told, or is the oldest of the queue, which it has yet
\* to leave.
LEMMA IsTaken ==
    ASSUME MailOK, Carried, op.kind \in Carriers, op.at \in {"start", "steer"},
           took' = Append(took, op.msg), UNCHANGED <<queue, unsent, doubted, told, late>>,
           op' = IF op.kind = "drain" THEN [op EXCEPT !.at = "remove"] ELSE NoOp
    PROVE  MailOK' /\ Carried' /\ Moved
<1>0. /\ op.msg \in Msgs
      /\ took' \in Seq(Msgs)
      /\ Among(op.msg, took')
  BY AtTheEnd DEF MailOK
<1>1. CASE op.kind = "drain"
  <2>1. MailOK' /\ Carried'
    BY <1>0, <1>1 DEF MailOK, Carried, Record, Carriers, Places
  <2>2. Mailbox!Take
    BY <1>1 DEF MailOK, Record, Places, Carried, Fresh, Line, Mailbox!Take
  <2> QED
    BY <2>1, <2>2 DEF Moved, Mailbox!Next
<1>2. CASE op.kind \in {"send", "answer"}
  <2>1. MailOK' /\ Carried'
    BY <1>0, <1>2 DEF MailOK, Carried, Record, Carriers, Kinds, Places, NoOp
  <2>2. Mailbox!Pass(op.msg)
    BY <1>2 DEF MailOK, Carried, NoOp, Fresh, Line, Mailbox!Pass, Mailbox!Sent, Mailbox!MayGo
  <2> QED
    BY <1>0, <2>1, <2>2 DEF Moved, Mailbox!Next
<1> QED
  BY <1>1, <1>2 DEF Carriers

LEMMA SteerMoves ==
    ASSUME MailOK, Carried, Steer
    PROVE  MailOK' /\ Carried' /\ Moved
<1>1. /\ op.kind \in Carriers /\ op.at = "steer"
      /\ UNCHANGED <<queue, unsent, doubted, told, late>>
  BY DEF Steer, Doing, disk, rest, tale
<1>2. CASE TakesIt("steer", op.msg, op.turn)
  BY <1>1, <1>2, IsTaken DEF Steer, Effect, Went, GoTo, Ended
<1>3. CASE ~ TakesIt("steer", op.msg, op.turn)
  <2>1. op' = [op EXCEPT !.at = "again"] /\ took' = took
    BY <1>3 DEF Steer, GoTo, talk
  <2> QED
    BY <1>1, <2>1, GoesOn DEF MailOK, Record, Places
<1> QED
  BY <1>2, <1>3

LEMMA StartTurnMoves ==
    ASSUME MailOK, Carried, StartTurn
    PROVE  MailOK' /\ Carried' /\ Moved
<1>1. /\ op.kind \in Carriers /\ op.at = "start"
      /\ UNCHANGED <<queue, unsent, doubted, late>>
  BY DEF StartTurn, Doing, disk, rest, tale
<1>2. CASE TakesIt("start", op.msg, 0)
  BY <1>1, <1>2, IsTaken DEF StartTurn, Effect, Went, GoTo, Ended
<1>3. CASE ~ TakesIt("start", op.msg, 0) /\ op.kind # "drain"
  <2>1. op' = NoOp /\ took' = took /\ told' = Told
    BY <1>3 DEF StartTurn, Went, Ended, talk
  <2> QED
    BY <1>1, <2>1, EndsUntaken
<1>4. CASE ~ TakesIt("start", op.msg, 0) /\ op.kind = "drain"
  <2>1. op' = [op EXCEPT !.at = "refused"] /\ took' = took /\ told' = told
    BY <1>4 DEF StartTurn, Went, GoTo, talk, Told
  <2>2. loaded' = loaded /\ (op.msg \in Bad \/ ~loaded)
    BY <1>4 DEF StartTurn, TakesIt, rest
  <2> QED
    BY <1>1, <1>4, <2>1, <2>2 DEF MailOK, Carried, Record, Carriers, Places, Moved, Fresh, Line
<1> QED
  BY <1>2, <1>3, <1>4

\* What was taken or refused leaves the queue.
LEMMA DrainRemoveMoves ==
    ASSUME MailOK, Carried, DrainRemove
    PROVE  MailOK' /\ Carried' /\ Moved
<1>1. /\ op.kind = "drain" /\ op.at \in {"remove", "refused"}
      /\ queue # << >> /\ queue' = Tail(queue) /\ queue' \in Seq(Msgs)
      /\ UNCHANGED <<took, unsent, doubted, told, late>>
  BY HeadAndTail DEF DrainRemove, MailOK, Carried, talk, rest, tale
<1>2. \/ op' = NoOp
      \/ /\ Tail(queue) # << >>
         /\ op' = [NoOp EXCEPT !.kind = "drain", !.at = "status", !.msg = Head(Tail(queue))]
  BY <1>1 DEF DrainRemove, Ended
<1>3. Tail(queue) \in Seq(Msgs) /\ (Tail(queue) # << >> => Head(Tail(queue)) \in Msgs)
  BY <1>1, HeadAndTail DEF MailOK
<1>4. MailOK' /\ Carried'
  <2>1. CASE op' = NoOp
    BY <1>1, <2>1, CodexAssumption DEF MailOK, Carried, Record, Carriers, Kinds, Places, NoOp
  <2>2. CASE Tail(queue) # << >> /\ op' = [NoOp EXCEPT !.kind = "drain", !.at = "status", !.msg = Head(Tail(queue))]
    <3>1. Record(op') /\ op'.kind = "drain" /\ op'.at = "status" /\ op'.msg = Head(Tail(queue))
      BY <1>3, <2>2 DEF Record, Carriers, Kinds, Places, NoOp
    <3> QED
      BY <1>1, <1>3, <2>2, <3>1 DEF MailOK, Carried, Carriers
  <2> QED
    BY <1>2, <2>1, <2>2
<1>5. UNCHANGED Fresh /\ Line' = Tail(queue)
  <2>1. op'.kind \in {"none", "drain"} /\ op'.at # "remove"
    <3>1. CASE op' = NoOp
      BY <3>1 DEF NoOp
    <3>2. CASE op' = [NoOp EXCEPT !.kind = "drain", !.at = "status", !.msg = Head(Tail(queue))]
      BY <3>2 DEF NoOp
    <3> QED
      BY <1>2, <3>1, <3>2
  <2> QED
    BY <1>1, <2>1 DEF Fresh, Line
<1>6. CASE op.at = "remove"
  BY <1>1, <1>4, <1>5, <1>6 DEF Line, Moved
<1>7. CASE op.at = "refused"
  <2>1. Mailbox!Refuse
    BY <1>1, <1>5, <1>7 DEF Carried, Line, Mailbox!Refuse
  <2> QED
    BY <1>4, <2>1 DEF Moved, Mailbox!Next
<1> QED
  BY <1>1, <1>6, <1>7

\* A delivery ends without an answer.
LEMMA UnansweredMoves ==
    ASSUME MailOK, Carried, Unanswered
    PROVE  MailOK' /\ Carried' /\ Moved
<1>1. /\ op.kind \in Carriers /\ op.at \in {"start", "steer"} /\ op' = NoOp
      /\ queue' = queue /\ unsent' = unsent /\ doubted' = doubted \cup {op.msg} /\ told' = Told
      /\ took' \in {took, Append(took, op.msg)}
      /\ \A call \in late' : call \in late \/ call.msg = op.msg
  <2>1. /\ op.kind \in Carriers /\ op.at \in {"start", "steer"} /\ op' = NoOp
        /\ queue' = queue /\ unsent' = unsent /\ doubted' = doubted \cup {op.msg} /\ told' = Told
    BY DEF Unanswered, Ended, disk
  <2>2. took' \in {took, Append(took, op.msg)}
    BY DEF Unanswered, Effect, talk
  <2>3. late' \in {late, late \cup {[what |-> op.at, msg |-> op.msg, turn |-> op.turn]}}
    BY DEF Unanswered
  <2> QED
    BY <2>1, <2>2, <2>3
<1>2. op.msg \in Msgs /\ took' \in Seq(Msgs)
  BY <1>1, AtTheEnd DEF MailOK
<1>3. MailOK' /\ Carried'
  <2>1. Record(NoOp) /\ NoOp.kind = "none" /\ NoOp.at = "none"
    BY CodexAssumption DEF Record, Kinds, Places, NoOp
  <2> QED
    BY <1>1, <1>2, <2>1 DEF MailOK, Carried, Carriers, Told
<1>4. Mailbox!Doubt(op.msg)
  BY <1>1, <1>2 DEF Told, MailOK, Carried, Carriers, NoOp, Fresh, Line, Mailbox!Doubt, Mailbox!Sent, Mailbox!MayGo
<1> QED
  BY <1>2, <1>3, <1>4 DEF Moved, Mailbox!Next

\* A call given up is made after all.
LEMMA MadeLateMoves ==
    ASSUME MailOK, Carried, NEW call \in late, MadeLate(call)
    PROVE  MailOK' /\ Carried' /\ Moved
<1>1. /\ call.msg \in doubted /\ call.msg \in Msgs
      /\ took' \in {took, Append(took, call.msg)}
      /\ late' \subseteq late
      /\ UNCHANGED <<queue, unsent, doubted, told, op, loaded>>
  <2>1. call.msg \in doubted /\ doubted \subseteq Msgs
    BY DEF MailOK, Carried
  <2>2. late' = late \ {call} /\ UNCHANGED <<queue, unsent, doubted, told, op, loaded>>
    BY DEF MadeLate, disk, tale
  <2>3. took' \in {took, Append(took, call.msg)}
    BY DEF MadeLate, Effect, talk
  <2> QED
    BY <2>1, <2>2, <2>3
<1>2. /\ took' \in Seq(Msgs)
      /\ \A m : Among(m, took) => Among(m, took')
  BY <1>1, AtTheEnd DEF MailOK
<1>3. MailOK' /\ Carried'
  BY <1>1, <1>2 DEF MailOK, Carried, Record, Carriers
<1>4. UNCHANGED <<Fresh, Line, doubted, told>>
  BY <1>1 DEF Fresh, Line
<1>5. CASE took' = took
  BY <1>3, <1>4, <1>5 DEF Moved
<1>6. CASE took' = Append(took, call.msg)
  <2>1. Mailbox!TakenAfterAll(call.msg)
    BY <1>1, <1>4, <1>6 DEF Mailbox!TakenAfterAll
  <2> QED
    BY <1>1, <1>3, <2>1 DEF Moved, Mailbox!Next
<1> QED
  BY <1>1, <1>5, <1>6

\* A call that carries no message fails.
LEMMA CallFailsMoves ==
    ASSUME MailOK, Carried, CallFails
    PROVE  MailOK' /\ Carried' /\ Moved
<1>1. /\ op' = NoOp /\ op.at \notin {"remove", "refused"}
      /\ told' = Told /\ UNCHANGED <<queue, took, unsent, doubted, late>>
  BY DEF CallFails, Ended, Carried, Carriers, talk, disk, tale
<1>2. CASE op.kind \in Carriers
  BY <1>1, <1>2, EndsUntaken
<1>3. CASE op.kind \notin Carriers
  BY <1>1, <1>3, AsideHolds, CodexAssumption DEF Told, Aside, NoOp, Record, Kinds, Carriers, Places
<1> QED
  BY <1>2, <1>3

\* The queue of a thread closed or unloaded goes with it.
LEMMA QueueGoes ==
    ASSUME MailOK, Carried, CloseLeave \/ PollList
    PROVE  MailOK' /\ Carried' /\ Moved
<1>1. /\ op.kind \notin Carriers /\ op'.kind \notin Carriers /\ op'.at \notin {"remove", "refused"} /\ Record(op')
      /\ op.at # "remove"
      /\ queue' = queue \/ (queue' = << >> /\ (~loaded \/ closed' # {}))
      /\ op'.at # "refused"
      /\ UNCHANGED <<took, unsent, doubted, told, late>>
  <2>1. CASE CloseLeave
    <3>1. /\ op.kind \in {"close", "finish"} /\ op.at = "leave" /\ op' = NoOp /\ queue' = << >> /\ closed' # {}
          /\ UNCHANGED <<took, unsent, doubted, told, late>>
      BY <2>1 DEF CloseLeave, Doing, rest, tale
    <3> QED
      BY <3>1, CodexAssumption DEF NoOp, Record, Carriers, Kinds, Places
  <2>2. CASE PollList
    <3>1. /\ op.kind = "none" /\ op' = op /\ (queue' = queue \/ (queue' = << >> /\ ~loaded))
          /\ UNCHANGED <<took, unsent, doubted, told, late>>
      BY <2>2 DEF PollList, Free, rest, tale
    <3> QED
      BY <3>1 DEF MailOK, Carried, Carriers
  <2> QED
    BY <2>1, <2>2
<1>2. MailOK' /\ Carried'
  <2>1. queue \in Seq(Msgs) /\ << >> \in Seq(Msgs)
    BY EmptySeq DEF MailOK
  <2>2. queue' \in Seq(Msgs)
    BY <1>1, <2>1
  <2>3. Record(op)'
    BY <1>1 DEF Record
  <2> QED
    BY <1>1, <2>2, <2>3 DEF MailOK, Carried, Carriers
<1>3. UNCHANGED Fresh /\ Line = queue /\ Line' = queue'
  BY <1>1 DEF Fresh, Line, Carriers
<1>4. Mailbox!Lapse \/ UNCHANGED <<Fresh, Line, took, doubted, told>>
  BY <1>1, <1>3 DEF Mailbox!Lapse
<1> QED
  BY <1>2, <1>4 DEF Moved, Mailbox!Next

\* What is carried is given up with the connection or with the executor.
LEMMA ForgetMoves ==
    ASSUME MailOK, Carried, ConnectionDrops \/ ExecutorFalls \/ RestartIdle
    PROVE  MailOK' /\ Carried' /\ Moved
<1>1. /\ op' = NoOp /\ late' = {} /\ UNCHANGED <<queue, took, unsent>> /\ told' = Told
      /\ doubted' = doubted \cup (IF op.at = "remove" THEN {op.msg} ELSE {})
  BY DEF ConnectionDrops, ExecutorFalls, RestartIdle, Forget, Free, Carried, Told, disk, tale
<1>2. op.kind \in Carriers => op.msg \in Msgs
  BY DEF MailOK
<1>3. MailOK' /\ Carried'
  BY <1>1, <1>2, CodexAssumption DEF MailOK, Carried, Record, Carriers, Kinds, Places, NoOp, Told
<1>4. Fresh' = unsent /\ Line' = queue
  BY <1>1 DEF NoOp, Fresh, Line
<1>5. CASE op.at = "remove"
  <2>1. op.kind = "drain" /\ op.msg = Head(queue) /\ queue = <<Head(queue)>> \o Tail(queue) /\ op.msg \in Msgs
    BY <1>2, <1>5, HeadAndTail DEF MailOK, Carried, Carriers
  <2>2. Mailbox!Return(op.msg)
    BY <1>1, <1>4, <1>5, <2>1 DEF Told, Carried, Fresh, Line, Mailbox!Return, Mailbox!Among, Among
  <2> QED
    BY <1>3, <2>1, <2>2 DEF Moved, Mailbox!Next
<1>6. CASE op.at # "remove" /\ op.kind \in {"send", "answer"}
  <2>1. op.msg \in Msgs /\ Mailbox!Fail(op.msg)
    BY <1>1, <1>2, <1>4, <1>6 DEF Told, Carried, Carriers, Fresh, Line, Mailbox!Fail, Mailbox!Sent
  <2> QED
    BY <1>3, <2>1 DEF Moved, Mailbox!Next
<1>7. CASE op.at # "remove" /\ op.kind \notin {"send", "answer"}
  BY <1>1, <1>3, <1>4, <1>7 DEF Told, Fresh, Line, Moved
<1> QED
  BY <1>5, <1>6, <1>7

----------------------------------------------------------------------------
(* The theorem *)

LEMMA MailStarts == Init => MailOK /\ Carried /\ Mailbox!Init
BY CodexAssumption DEF Init, NoOp, MailOK, Carried, Record, Carriers, Kinds, Places, Fresh, Line, Mailbox!Init

LEMMA MailStep == MailOK /\ Carried /\ [Next]_vars => MailOK' /\ Carried' /\ Moved
<1> SUFFICES ASSUME MailOK, Carried, [Next]_vars
             PROVE  MailOK' /\ Carried' /\ Moved
  OBVIOUS
<1>1. CASE Aside
  BY <1>1, AsideHolds
<1>2. CASE UNCHANGED vars
  BY <1>1, <1>2 DEF vars, talk, memory, disk, rest, tale, Aside
<1>3. CASE \/ TurnShows \/ TurnEnds \/ Ask \/ Answered \/ Unload
           \/ \E who \in {"other", "deaf"} : OtherTurn(who)
  BY <1>1, <1>3, DaemonAside
<1>4. CASE \E call \in late : MadeLate(call)
  BY <1>4, MadeLateMoves
<1>5. CASE \E m \in Msgs : Send(m) \/ Answer(m) \/ Unqueue(m)
  BY <1>5, SendMoves, AnswerMoves, UnqueueMoves
<1>6. CASE OrderGiven \/ CloseAfterTurn
  BY <1>1, <1>6, OrdersAside
<1>7. CASE Procedure
  <2>1. CASE Deliver
    BY <2>1, LookStatusMoves, LookTurnsMoves, SteerMoves, LookAgainMoves, StartTurnMoves, DrainRemoveMoves DEF Deliver
  <2>2. CASE CloseOf
    BY <1>1, <2>2, OrdersAside, QueueGoes DEF CloseOf
  <2>3. CASE KeepReread \/ KeepRunning \/ KeepLeave \/ KeepJoin
    BY <1>1, <2>3, KeepAside
  <2>4. CASE ResumeJoin \/ ReviewTurns \/ StartReview
    BY <1>1, <2>4, OrdersAside
  <2> QED
    BY <1>7, <2>1, <2>2, <2>3, <2>4 DEF Procedure
<1>8. CASE Poll
  BY <1>1, <1>8, PollAside, KeepAside, QueueGoes, DrainMoves DEF Poll
<1>9. CASE Unanswered \/ CallFails \/ KeepRunningFails \/ PollReadFails
  BY <1>1, <1>9, UnansweredMoves, CallFailsMoves, KeepAside, PollAside
<1>10. CASE ConnectionDrops \/ Connect \/ ExecutorFalls \/ RestartIdle
  BY <1>1, <1>10, ForgetMoves, PollAside
<1> QED
  BY <1>2, <1>3, <1>4, <1>5, <1>6, <1>7, <1>8, <1>9, <1>10 DEF Next

\* Sends, answers, the drain of the queue and everything that may come between
\* their calls implement the mailbox: no message overtakes one that waits, and
\* none is taken twice but one of whose delivery nobody learned the end.  None
\* leaves the line without a word to its sender but those that are taken, one
\* no turn can be started with, and all of a thread closed or unloaded.
THEOREM MessagesAreKept == Spec => MessagesKept
<1>1. MailOK /\ Carried /\ [Next]_vars => [Mailbox!Next]_(Mailbox!vars)
  BY MailStep DEF Moved, Mailbox!vars
<1> QED
  BY <1>1, MailStarts, MailStep, PTL DEF Spec, MessagesKept, Mailbox!Spec

-----------------------------------------------------------------------------
(* The turns *)

Own == {"panel", "review"}

Turns == [id : Nat, by : Own \cup {"nobody", "other", "deaf"}]

\* A turn of the panel's is one of a loaded thread, and the list or the
\* status shows it; the link remembers that it started it, or both show it
\* and the link, if it read the thread at all, has read that it is active.
Known ==
    turn.by \in Own =>
        /\ turn.id # 0 /\ loaded /\ (listed \/ active)
        /\ ours \/ (activity \notin {"idle", "gone"} /\ listed /\ active)

\* What keep has found so far.
Found ==
    op.kind = "keep" =>
        /\ poll.at = "keep"
        /\ op.at \in {"reread", "running"} => (op.busy <=> ours)
        /\ op.at = "running" /\ turn.by \in Own => listed
        /\ op.at = "leave" => turn.by \notin Own

TurnOK ==
    /\ began \in Nat /\ turn \in Turns
    /\ activity \in {"nil", "gone", "unread", "active", "idle"}
    /\ ours => known /\ subscribed
    /\ Known
    /\ Found

----------------------------------------------------------------------------
\* A step that leaves the turn, and what the link knows of it, as they were.
LEMMA AsBefore ==
    ASSUME TurnOK, op'.kind # "keep",
           UNCHANGED <<turn, began, listed, active, activity, loaded, up, known, subscribed, ours>>
    PROVE  TurnOK'
BY DEF TurnOK, Known, Found

\* A procedure that carries a message goes on or ends.
LEMMA NotToKeep ==
    ASSUME Record(op),
           LookTurns \/ StartTurn \/ DrainRemove \/ \E m : Send(m) \/ Answer(m) \/ Unqueue(m)
    PROVE  op'.kind # "keep"
<1> DEFINE Starts(kind, m) == op' = [NoOp EXCEPT !.kind = kind, !.at = "status", !.msg = m]
<1>1. NoOp.kind = "none" /\ \A kind, m : Starts(kind, m) => op'.kind = kind
  BY DEF NoOp
<1>2. CASE LookTurns \/ StartTurn
  <2>1. op.kind \in Carriers
    BY <1>2 DEF LookTurns, StartTurn, Doing
  <2>2. \A t, at : [op EXCEPT !.turn = t, !.at = at].kind = op.kind /\ [op EXCEPT !.at = at].kind = op.kind
    BY DEF Record
  <2>3. CASE LookTurns
    <3> DEFINE at == IF ListedTurn = 0 THEN "start" ELSE "steer"
    <3>1. op' = NoOp \/ op' = [op EXCEPT !.turn = ListedTurn, !.at = at]
      BY <2>3 DEF LookTurns, Busy, Ended
    <3>2. [op EXCEPT !.turn = ListedTurn, !.at = at].kind = op.kind
      BY <2>2
    <3> QED
      BY <1>1, <2>1, <3>1, <3>2 DEF Carriers
  <2>4. CASE StartTurn
    <3>1. op' = NoOp \/ GoTo("remove") \/ GoTo("refused")
      BY <2>4 DEF StartTurn, Went, Ended
    <3> QED
      BY <1>1, <2>1, <2>2, <3>1 DEF GoTo, Carriers
  <2> QED
    BY <1>2, <2>3, <2>4
<1>3. CASE DrainRemove
  <2>1. op' = NoOp \/ Starts("drain", Head(Tail(queue)))
    BY <1>3 DEF DrainRemove, Ended
  <2> QED
    BY <1>1, <2>1
<1>4. CASE \E m : Send(m) \/ Answer(m) \/ Unqueue(m)
  <2>1. PICK m : Send(m) \/ Answer(m) \/ Unqueue(m)
    BY <1>4
  <2>2. (op' = op /\ op.kind = "none") \/ Starts("send", m) \/ Starts("answer", m)
    BY <2>1 DEF Send, Answer, Unqueue, Free
  <2> QED
    BY <1>1, <2>2
<1> QED
  BY <1>2, <1>3, <1>4

\* What the daemon, its other clients and persons do.
LEMMA DaemonKeeps ==
    ASSUME Record(op), TurnOK
    PROVE  /\ TurnShows => TurnOK'
           /\ TurnEnds => TurnOK'
           /\ \A who \in {"other", "deaf"} : OtherTurn(who) => TurnOK'
           /\ Ask => TurnOK'
           /\ Answered => TurnOK'
           /\ Unload => TurnOK'
           /\ \A call : MadeLate(call) => TurnOK'
<1> USE DEF TurnOK, Known, Found, Turns, Own, Record, Carriers, talk, memory, disk, rest, tale
<1>1. TurnShows => TurnOK'
  BY DEF TurnShows, Hears
<1>2. TurnEnds => TurnOK'
  BY DEF TurnEnds, Ends, Hears, NoTurn
<1>3. \A who \in {"other", "deaf"} : OtherTurn(who) => TurnOK'
  BY DEF OtherTurn, Begins, Hears
<1>4. Ask => TurnOK'
  BY DEF Ask
<1>5. Answered => TurnOK'
  BY DEF Answered
<1>6. Unload => TurnOK'
  BY DEF Unload, NoTurn
<1>7. \A call : MadeLate(call) => TurnOK'
  BY DEF MadeLate, Effect, Begins, Hears
<1> QED
  BY <1>1, <1>2, <1>3, <1>4, <1>5, <1>6, <1>7

\* A turn the panel starts is of a thread it lists and marks as its own.
LEMMA MessagesKeep ==
    ASSUME Record(op), TurnOK
    PROVE  /\ \A m : Send(m) \/ Answer(m) \/ Unqueue(m) => TurnOK'
           /\ LookStatus => TurnOK'
           /\ LookTurns => TurnOK'
           /\ Steer => TurnOK'
           /\ LookAgain => TurnOK'
           /\ StartTurn => TurnOK'
           /\ DrainRemove => TurnOK'
           /\ Unanswered => TurnOK'
<1> USE DEF TurnOK, Known, Found, Turns, Own, Record, Carriers, talk, memory, disk, rest, tale
<1>1. \A m : Send(m) \/ Answer(m) \/ Unqueue(m) => TurnOK'
  <2>1. TAKE m
  <2>2. HAVE Send(m) \/ Answer(m) \/ Unqueue(m)
  <2>3. op'.kind # "keep"
    BY <2>2, NotToKeep
  <2> QED
    BY <2>2, <2>3, AsBefore DEF Send, Answer, Unqueue
<1>2. LookStatus => TurnOK'
  BY DEF LookStatus, Doing
<1>3. LookTurns => TurnOK'
  <2>1. LookTurns => op'.kind # "keep"
    BY NotToKeep
  <2> QED
    BY <2>1, AsBefore DEF LookTurns
<1>4. Steer => TurnOK'
  BY DEF Steer, Doing, Effect, Went, GoTo, Ended, NoOp, TakesIt
<1>5. LookAgain => TurnOK'
  BY DEF LookAgain, Doing, Busy, Ended, NoOp, ListedTurn, GoTo
<1>6. StartTurn => TurnOK'
  <2>1. StartTurn => op'.kind # "keep"
    BY NotToKeep
  <2>2. CASE StartTurn /\ TakesIt("start", op.msg, 0) /\ turn = NoTurn
    <3>1. /\ turn' = [id |-> began + 1, by |-> IF known THEN "panel" ELSE "other"] /\ began' = began + 1
          /\ listed' \/ active'
          /\ loaded' = loaded /\ loaded /\ known' = known
          /\ (ours \/ known) <=> ours'
          /\ (subscribed \/ known) <=> subscribed'
          /\ activity' \in {activity, "nil", "active"}
      BY <2>2 DEF StartTurn, Effect, Begins, Hears, TakesIt
    <3>2. /\ turn'.id # 0 /\ turn' \in Turns /\ began' \in Nat
          /\ turn'.by \in Own => known
      BY <3>1
    <3> QED
      BY <2>1, <2>2, <3>1, <3>2
  <2>3. CASE StartTurn /\ ~(TakesIt("start", op.msg, 0) /\ turn = NoTurn)
    <3>1. /\ UNCHANGED <<turn, began, listed, active, activity, loaded, up, known>>
          /\ \/ UNCHANGED <<ours, subscribed>>
             \/ ours' = (ours \/ known) /\ subscribed' = (subscribed \/ known)
      BY <2>3 DEF StartTurn, Effect
    <3> QED
      BY <2>1, <2>3, <3>1
  <2> QED
    BY <2>2, <2>3
<1>7. DrainRemove => TurnOK'
  <2>1. DrainRemove => op'.kind # "keep"
    BY NotToKeep
  <2> QED
    BY <2>1, AsBefore DEF DrainRemove
<1>8. Unanswered => TurnOK'
  BY DEF Unanswered, Ended, Effect, Begins, Hears, NoOp
<1> QED
  BY <1>1, <1>2, <1>3, <1>4, <1>5, <1>6, <1>7, <1>8

\* Orders of a person.
LEMMA OrdersKeep ==
    ASSUME Record(op), TurnOK
    PROVE  /\ OrderGiven => TurnOK'
           /\ CloseAfterTurn => TurnOK'
           /\ CloseStatus => TurnOK'
           /\ CloseTurns => TurnOK'
           /\ CloseInterrupt => TurnOK'
           /\ FinishStatus => TurnOK'
           /\ FinishTurns => TurnOK'
           /\ CloseLeave => TurnOK'
           /\ ResumeJoin => TurnOK'
           /\ ReviewTurns => TurnOK'
           /\ StartReview => TurnOK'
           /\ CallFails => TurnOK'
<1> USE DEF TurnOK, Known, Found, Turns, Own, Record, Carriers, talk, memory, disk, rest, tale
<1>1. OrderGiven => TurnOK'
  <2>1. OrderGiven => op'.kind # "keep"
    BY DEF OrderGiven, Begin, NoOp
  <2> QED
    BY <2>1, AsBefore DEF OrderGiven
<1>2. CloseAfterTurn => TurnOK'
  BY DEF CloseAfterTurn, Free
<1>3. CloseStatus => TurnOK'
  BY DEF CloseStatus, Doing, GoTo
<1>4. CloseTurns => TurnOK'
  BY DEF CloseTurns, Doing, ListedTurn
<1>5. CloseInterrupt => TurnOK'
  BY DEF CloseInterrupt, Doing, Ends, Hears, GoTo, NoOp, NoTurn
<1>6. FinishStatus => TurnOK'
  BY DEF FinishStatus, Doing, Ended, GoTo, NoOp
<1>7. FinishTurns => TurnOK'
  BY DEF FinishTurns, Doing, Ended, GoTo, NoOp
<1>8. CloseLeave => TurnOK'
  BY DEF CloseLeave, Doing, Removed, NoOp, GivenUp
<1>9. ResumeJoin => TurnOK'
  BY DEF ResumeJoin, Doing, NoOp
<1>10. ReviewTurns => TurnOK'
  BY DEF ReviewTurns, Doing, GoTo, NoOp
<1>11. StartReview => TurnOK'
  <2>1. StartReview => op'.kind # "keep"
    BY DEF StartReview, NoOp
  <2>2. CASE StartReview /\ loaded /\ turn = NoTurn
    <3>1. /\ turn' = [id |-> began + 1, by |-> IF known THEN "review" ELSE "deaf"] /\ began' = began + 1
          /\ listed' \/ active'
          /\ loaded' = loaded /\ known' = known
          /\ (ours \/ known) <=> ours'
          /\ (subscribed \/ known) <=> subscribed'
          /\ activity' \in {activity, "nil", "active"}
      BY <2>2 DEF StartReview, Begins, Hears
    <3>2. /\ turn'.id # 0 /\ turn' \in Turns /\ began' \in Nat
          /\ turn'.by \in Own => known
      BY <3>1
    <3> QED
      BY <2>1, <2>2, <3>1, <3>2
  <2>3. CASE StartReview /\ ~(loaded /\ turn = NoTurn)
    BY <2>1, <2>3, AsBefore DEF StartReview
  <2> QED
    BY <2>2, <2>3
<1>12. CallFails => TurnOK'
  BY DEF CallFails, Ended, NoOp, Joins, Begins, Hears
<1> QED
  BY <1>1, <1>2, <1>3, <1>4, <1>5, <1>6, <1>7, <1>8, <1>9, <1>10, <1>11, <1>12

\* The poll, and what keeps the link a client.
LEMMA PollKeeps ==
    ASSUME Record(op), TurnOK
    PROVE  /\ PollList => TurnOK'
           /\ PollRead => TurnOK'
           /\ PollReadFails => TurnOK'
           /\ LetGo => TurnOK'
           /\ BackAgain => TurnOK'
           /\ FinishClose => TurnOK'
           /\ Seen => TurnOK'
           /\ Drop => TurnOK'
           /\ Keep => TurnOK'
           /\ KeepReread => TurnOK'
           /\ KeepRunning => TurnOK'
           /\ KeepRunningFails => TurnOK'
           /\ KeepLeave => TurnOK'
           /\ KeepJoin => TurnOK'
           /\ Drain => TurnOK'
<1> USE DEF TurnOK, Known, Found, Turns, Own, Record, Carriers, talk, memory, disk, rest, tale
<1>1. PollList => TurnOK'
  BY DEF PollList, Free, AtRest
<1>2. PollRead => TurnOK'
  BY DEF PollRead
<1>3. PollReadFails => TurnOK'
  BY DEF PollReadFails
<1>4. LetGo => TurnOK'
  BY DEF LetGo
<1>15. BackAgain => TurnOK'
  BY DEF BackAgain
<1>5. FinishClose => TurnOK'
  BY DEF FinishClose, Free, NoOp
<1>6. Seen => TurnOK'
  BY DEF Seen
<1>7. Drop => TurnOK'
  BY DEF Drop, AtRest, Removed, GivenUp
<1>8. Keep => TurnOK'
  <2>1. CASE Keep /\ op'.kind # "keep"
    <3>1. (ours' => ours) /\ (ours /\ ~ours' => known)
      BY <2>1 DEF Keep
    <3> QED
      BY <2>1, <3>1 DEF Keep
  <2>2. CASE Keep /\ op'.kind = "keep"
    BY <2>2 DEF Keep, Free, NoOp
  <2> QED
    BY <2>1, <2>2
<1>9. KeepReread => TurnOK'
  BY DEF KeepReread, Doing, Ended, GoTo, NoOp
<1>10. KeepRunning => TurnOK'
  BY DEF KeepRunning, Doing, Ended, GoTo, NoOp, ListedTurn
<1>11. KeepRunningFails => TurnOK'
  BY DEF KeepRunningFails, Doing, GoTo
<1>12. KeepLeave => TurnOK'
  BY DEF KeepLeave, Ended, NoOp, GivenUp
<1>13. KeepJoin => TurnOK'
  BY DEF KeepJoin, Doing, Joins, Ended, NoOp
<1>14. Drain => TurnOK'
  <2>1. Drain => op'.kind # "keep"
    BY DEF Drain, Free, NoOp
  <2> QED
    BY <2>1, AsBefore DEF Drain
<1> QED
  BY <1>1, <1>2, <1>3, <1>4, <1>5, <1>6, <1>7, <1>8, <1>9, <1>10, <1>11, <1>12, <1>13, <1>14, <1>15

\* Connections, falls and a restart.
LEMMA ConnectionsKeep ==
    ASSUME Record(op), TurnOK
    PROVE  /\ ConnectionDrops => TurnOK'
           /\ Connect => TurnOK'
           /\ ExecutorFalls => TurnOK'
           /\ RestartIdle => TurnOK'
<1> USE DEF TurnOK, Known, Found, Turns, Own, Record, Carriers, talk, memory, disk, rest, tale
<1>1. ConnectionDrops => TurnOK'
  BY DEF ConnectionDrops, Forget, LostSight, GivenUp, Removed, NoOp, AtRest
<1>2. Connect => TurnOK'
  BY DEF Connect, NoTurn
<1>3. ExecutorFalls => TurnOK'
  BY DEF ExecutorFalls, Forget, LostSight, GivenUp, Removed, NoOp, AtRest
<1>4. RestartIdle => TurnOK'
  BY DEF RestartIdle, Forget, Removed, NoOp, AtRest, NoTurn
<1> QED
  BY <1>1, <1>2, <1>3, <1>4
----------------------------------------------------------------------------
(* The theorems *)

LEMMA TurnStarts == Init => TurnOK
BY DEF Init, NoTurn, NoOp, TurnOK, Known, Found, Turns, Own

LEMMA TurnStep == Record(op) /\ TurnOK /\ [Next]_vars => TurnOK'
<1> SUFFICES ASSUME Record(op), TurnOK, [Next]_vars
             PROVE  TurnOK'
  OBVIOUS
<1>1. CASE UNCHANGED vars
  BY <1>1 DEF vars, talk, memory, disk, rest, tale, TurnOK, Known, Found
<1>2. CASE \/ TurnShows \/ TurnEnds \/ Ask \/ Answered \/ Unload
           \/ \E who \in {"other", "deaf"} : OtherTurn(who)
           \/ \E call \in late : MadeLate(call)
  BY <1>2, DaemonKeeps
<1>3. CASE \/ \E m \in Msgs : Send(m) \/ Answer(m) \/ Unqueue(m)
           \/ Deliver \/ Unanswered
  BY <1>3, MessagesKeep DEF Deliver
<1>4. CASE OrderGiven \/ CloseAfterTurn \/ CloseOf \/ ResumeJoin \/ ReviewTurns \/ StartReview \/ CallFails
  BY <1>4, OrdersKeep DEF CloseOf
<1>5. CASE KeepReread \/ KeepRunning \/ KeepRunningFails \/ KeepLeave \/ KeepJoin \/ Poll \/ PollReadFails
  BY <1>5, PollKeeps DEF Poll
<1>6. CASE ConnectionDrops \/ Connect \/ ExecutorFalls \/ RestartIdle
  BY <1>6, ConnectionsKeep
<1> QED
  BY <1>1, <1>2, <1>3, <1>4, <1>5, <1>6 DEF Next, Procedure

\* A turn the panel started is marked or seen, and what keep found still
\* holds, in every state.
THEOREM TurnsAreKnown == Spec => []TurnOK
<1>1. MailOK => Record(op)
  BY DEF MailOK
<1> QED
  BY <1>1, MailStarts, MailStep, TurnStarts, TurnStep, PTL DEF Spec

\* keep does not leave a thread in which a turn of the panel's runs, as long as
\* its turns could be listed.
THEOREM StaysOnTurn == Spec => StaysOnItsTurn
<1>1. TurnOK /\ [Next]_vars => [KeepLeave /\ op.at = "leave" => turn.by \notin {"panel", "review"}]_vars
  BY DEF TurnOK, Found, KeepLeave, Own
<1> QED
  BY <1>1, TurnsAreKnown, PTL DEF Spec, StaysOnItsTurn

\* A restart of an idle daemon ends no turn of the panel's.
THEOREM SparesTurns == Spec => SparesItsTurns
<1>1. TurnOK /\ [Next]_vars => [RestartIdle => turn.by \notin {"panel", "review"}]_vars
  BY DEF TurnOK, Known, RestartIdle, Certain, RunningTurns, Own
<1> QED
  BY <1>1, TurnsAreKnown, PTL DEF Spec, SparesItsTurns

----------------------------------------------------------------------------
(* The types *)

Flags ==
    /\ loaded \in BOOLEAN /\ client \in BOOLEAN /\ listed \in BOOLEAN /\ active \in BOOLEAN /\ asks \in BOOLEAN
    /\ up \in BOOLEAN /\ polled \in BOOLEAN /\ known \in BOOLEAN /\ subscribed \in BOOLEAN /\ ours \in BOOLEAN
    /\ anew \in BOOLEAN /\ held \in BOOLEAN /\ closing \in BOOLEAN

Heard ==
    /\ info \in [active : BOOLEAN, waits : BOOLEAN]
    /\ closed \subseteq Nat
    /\ pending \in {"none", "old", "new"}
    /\ poll \in [at : {"rest", "read", "letgo", "running", "finish", "seen", "keep", "drain", "drop"},
                 live : BOOLEAN, active : BOOLEAN, waits : BOOLEAN, stopped : SUBSET Nat]

\* A call names a turn that was, and a procedure over keeps no message.
Called ==
    /\ op \in [kind : Kinds, at : Places, msg : Msgs \cup {NoMsg}, turn : Nat, busy : BOOLEAN]
    /\ op.kind \notin Carriers => op.msg = NoMsg
    /\ op.kind \in Carriers => op.msg \in Msgs
    /\ late \subseteq [what : {"start", "steer"}, msg : Msgs, turn : Nat]

Types == Flags /\ Heard /\ Called /\ events \in 0 .. MaxEvents

\* What is known of the turns already.
Turned == turn \in Turns /\ began \in Nat

----------------------------------------------------------------------------
(* Parts of steps, and the types they leave *)

\* The lists of a turn and what a procedure goes to.
LEMMA ListedIsANumber == Turned => ListedTurn \in Nat
BY DEF Turned, Turns, ListedTurn

LEMMA NoOpIsAProcedure ==
    /\ NoOp \in [kind : Kinds, at : Places, msg : Msgs \cup {NoMsg}, turn : Nat, busy : BOOLEAN]
    /\ NoOp.msg = NoMsg /\ NoOp.kind \notin Carriers
BY DEF NoOp, Kinds, Places, Carriers

\* A procedure that ends, and the poll it was for.
LEMMA EndedTypes ==
    ASSUME Called, Heard, Ended
    PROVE  /\ op' = NoOp
           /\ poll' \in [at : {"rest", "read", "letgo", "running", "finish", "seen", "keep", "drain", "drop"},
                         live : BOOLEAN, active : BOOLEAN, waits : BOOLEAN, stopped : SUBSET Nat]
BY DEF Ended, Heard

\* What the clients of a thread hear of its status.
LEMMA HearsTypes ==
    ASSUME Heard, NEW isClient, NEW now \in BOOLEAN, Hears(isClient, now)
    PROVE  info' \in [active : BOOLEAN, waits : BOOLEAN]
<1> DEFINE heard == [active |-> now, waits |-> info.waits /\ now]
<1>1. info' = info \/ info' = heard
  BY DEF Hears
<1>2. info \in [active : BOOLEAN, waits : BOOLEAN]
  BY DEF Heard
<1>3. heard \in [active : BOOLEAN, waits : BOOLEAN]
  <2>1. (info.waits /\ now) \in BOOLEAN
    OBVIOUS
  <2> QED
    BY <2>1
<1> QED
  BY <1>1, <1>2, <1>3

\* A turn that begins.
LEMMA BeginsTypes ==
    ASSUME Flags, Heard, NEW who, NEW isClient, Begins(who, isClient)
    PROVE  listed' \in BOOLEAN /\ active' \in BOOLEAN /\ info' \in [active : BOOLEAN, waits : BOOLEAN]
<1>1. listed' \in BOOLEAN /\ active' \in BOOLEAN
  BY DEF Begins
<1>2. info' = info \/ Hears(isClient, TRUE)
  BY DEF Begins
<1> QED
  BY <1>1, <1>2, HearsTypes DEF Heard

\* A turn that begins or takes a message.

LEMMA EffectTypes ==
    ASSUME Flags, Heard, NEW call, NEW m, NEW who, Effect(call, m, who)
    PROVE  /\ listed' \in BOOLEAN /\ active' \in BOOLEAN /\ client' \in BOOLEAN
           /\ info' \in [active : BOOLEAN, waits : BOOLEAN]
<1>1. CASE call = "start" /\ turn = NoTurn
  BY <1>1, BeginsTypes DEF Effect
<1>2. CASE ~(call = "start" /\ turn = NoTurn)
  BY <1>2 DEF Effect, Flags, Heard
<1> QED
  BY <1>1, <1>2

----------------------------------------------------------------------------
(* The steps keep the types *)

LEMMA DaemonTypes ==
    ASSUME Types, Turned,
           \/ TurnShows \/ TurnEnds \/ Ask \/ Answered \/ Unload
           \/ \E who \in {"other", "deaf"} : OtherTurn(who)
           \/ \E call \in late : MadeLate(call)
    PROVE  Types'
<1> USE DEF Types, Flags, Heard, Called, talk, memory, disk, rest, tale
<1>1. TurnShows => Types' BY HearsTypes DEF TurnShows
<1>2. TurnEnds => Types' BY HearsTypes DEF TurnEnds, Ends
<1>3. Ask => Types' BY CodexAssumption DEF Ask, Event
<1>4. Answered => Types' BY DEF Answered
<1>5. Unload => Types' BY DEF Unload
<1>6. \A who : OtherTurn(who) => Types' BY CodexAssumption, BeginsTypes DEF OtherTurn, Event
<1>7. ASSUME NEW call \in late, MadeLate(call) PROVE Types'
  <2>1. /\ listed' \in BOOLEAN /\ active' \in BOOLEAN /\ client' \in BOOLEAN
        /\ info' \in [active : BOOLEAN, waits : BOOLEAN]
    BY <1>7, EffectTypes DEF MadeLate
  <2> QED
    BY <1>7, <2>1 DEF MadeLate
<1> QED
  BY <1>1, <1>2, <1>3, <1>4, <1>5, <1>6, <1>7

LEMMA MessageTypes ==
    ASSUME Types, Turned, MailOK, MailOK',
           \/ \E m \in Msgs : Send(m) \/ Answer(m) \/ Unqueue(m)
           \/ Deliver \/ Unanswered
    PROVE  Types'
<1>1. ASSUME NEW m \in Msgs, Send(m) \/ Answer(m) \/ Unqueue(m) PROVE Types'
  <2>1. UNCHANGED <<talk, memory, held, closing, rest, poll, events>>
    BY <1>1 DEF Send, Answer, Unqueue, disk
  <2>2. op' = op \/ \E kind \in {"send", "answer"} :
                       op' = [NoOp EXCEPT !.kind = kind, !.at = "status", !.msg = m]
    BY <1>1 DEF Send, Answer, Unqueue
  <2>3. Called'
    <3>1. late' = late
      BY <2>1 DEF rest
    <3>2. CASE op' = op
      BY <3>1, <3>2 DEF Types, Called
    <3>3. ASSUME NEW kind \in {"send", "answer"},
                 op' = [NoOp EXCEPT !.kind = kind, !.at = "status", !.msg = m]
          PROVE  Called'
      BY <3>1, <3>3 DEF Types, Called, NoOp, Kinds, Places, Carriers
    <3> QED
      BY <2>2, <3>2, <3>3
  <2> QED
    BY <2>1, <2>3 DEF Types, Flags, Heard, talk, memory, rest
<1>2. CASE LookStatus
  <2>1. /\ UNCHANGED <<talk, memory, disk, rest, poll, events>>
        /\ op' = [op EXCEPT !.at = "turns", !.busy = active]
    BY <1>2 DEF LookStatus
  <2>2. Called'
    BY <2>1 DEF Types, Flags, Called, rest, Places
  <2> QED
    BY <2>1, <2>2 DEF Types, Flags, Heard, talk, memory, disk, rest
<1>3. CASE LookTurns
  <2>1. UNCHANGED <<talk, memory, held, closing, rest, events>>
    BY <1>3 DEF LookTurns
  <2>2. Called' /\ Heard'
    <3>1. CASE Busy
      BY <2>1, <3>1, EndedTypes, NoOpIsAProcedure DEF Busy, Types, Heard, Called, talk, memory, rest
    <3>2. CASE ~Busy
      <4>1. /\ op' = [op EXCEPT !.turn = ListedTurn, !.at = IF ListedTurn = 0 THEN "start" ELSE "steer"]
            /\ poll' = poll
        BY <1>3, <3>2 DEF LookTurns
      <4> QED
        BY <2>1, <4>1, ListedIsANumber DEF Types, Heard, Called, talk, memory, rest, Places
    <3> QED
      BY <3>1, <3>2
  <2> QED
    BY <2>1, <2>2 DEF Types, Flags, talk, memory, rest
<1>4. CASE Steer \/ StartTurn
  <2>1. /\ listed' \in BOOLEAN /\ active' \in BOOLEAN /\ client' \in BOOLEAN
        /\ info' \in [active : BOOLEAN, waits : BOOLEAN]
    <3>1. CASE UNCHANGED talk
      BY <3>1 DEF Types, Flags, Heard, talk
    <3>2. CASE \E who : Effect("steer", op.msg, who) \/ Effect("start", op.msg, who)
      BY <3>2, EffectTypes DEF Types
    <3> QED
      BY <1>4, <3>1, <3>2 DEF Steer, StartTurn
  <2>2. /\ UNCHANGED <<up, polled, known, anew, closed, pending, disk, rest, events>>
        /\ subscribed' \in BOOLEAN /\ ours' \in BOOLEAN
    BY <1>4 DEF Steer, StartTurn, Types, Flags, memory
  <2>3. /\ op' = NoOp \/ \E at \in {"remove", "again", "refused"} : op' = [op EXCEPT !.at = at]
        /\ poll' \in [at : {"rest", "read", "letgo", "running", "finish", "seen", "keep", "drain", "drop"},
                      live : BOOLEAN, active : BOOLEAN, waits : BOOLEAN, stopped : SUBSET Nat]
    BY <1>4, EndedTypes DEF Steer, StartTurn, Went, GoTo, Types, Heard
  <2>4. Called'
    BY <2>2, <2>3, NoOpIsAProcedure DEF Types, Called, rest, Places
  <2> QED
    BY <2>1, <2>2, <2>3, <2>4 DEF Types, Flags, Heard, disk, rest
<1>5. CASE LookAgain
  <2>1. UNCHANGED <<talk, memory, held, closing, rest, events>>
    BY <1>5 DEF LookAgain
  <2>2. Called' /\ Heard'
    <3>1. CASE Busy
      BY <2>1, <3>1, EndedTypes, NoOpIsAProcedure DEF Busy, Types, Heard, Called, talk, memory, rest
    <3>2. CASE ~Busy
      BY <1>5, <2>1, <3>2 DEF LookAgain, GoTo, Types, Heard, Called, talk, memory, rest, Places
    <3> QED
      BY <3>1, <3>2
  <2> QED
    BY <2>1, <2>2 DEF Types, Flags, talk, memory, rest
<1>6. CASE DrainRemove
  <2>1. UNCHANGED <<talk, memory, held, closing, rest, events>>
    BY <1>6 DEF DrainRemove
  <2>2. CASE Tail(queue) = << >>
    BY <1>6, <2>1, <2>2, EndedTypes, NoOpIsAProcedure
       DEF DrainRemove, Types, Flags, Heard, Called, talk, memory, rest
  <2>3. CASE Tail(queue) # << >>
    <3>1. /\ op' = [NoOp EXCEPT !.kind = "drain", !.at = "status", !.msg = Head(Tail(queue))]
          /\ poll' = poll
      BY <1>6, <2>3 DEF DrainRemove
    <3>2. Head(Tail(queue)) \in Msgs
      BY <3>1 DEF MailOK, NoOp, Carriers
    <3>3. Called'
      BY <2>1, <3>1, <3>2 DEF Types, Called, rest, NoOp, Kinds, Places, Carriers
    <3> QED
      BY <2>1, <3>1, <3>3 DEF Types, Flags, Heard, talk, memory, rest
  <2> QED
    BY <2>2, <2>3
<1>7. CASE Unanswered
  <2>1. /\ listed' \in BOOLEAN /\ active' \in BOOLEAN /\ client' \in BOOLEAN
        /\ info' \in [active : BOOLEAN, waits : BOOLEAN]
    <3>1. CASE UNCHANGED talk
      BY <3>1 DEF Types, Flags, Heard, talk
    <3>2. CASE Effect(op.at, op.msg, "other")
      BY <3>2, EffectTypes DEF Types
    <3> QED
      BY <1>7, <3>1, <3>2 DEF Unanswered
  <2>2. UNCHANGED <<memory, disk, loaded, asks>> /\ events' = events + 1 /\ events < MaxEvents
    BY <1>7 DEF Unanswered, Event
  <2>3. /\ op' = NoOp
        /\ poll' \in [at : {"rest", "read", "letgo", "running", "finish", "seen", "keep", "drain", "drop"},
                      live : BOOLEAN, active : BOOLEAN, waits : BOOLEAN, stopped : SUBSET Nat]
    BY <1>7, EndedTypes DEF Unanswered, Types
  <2>4. late' \subseteq [what : {"start", "steer"}, msg : Msgs, turn : Nat]
    <3>1. /\ op.kind \in Carriers /\ op.at \in {"start", "steer"}
          /\ late' = late \/ late' = late \cup {[what |-> op.at, msg |-> op.msg, turn |-> op.turn]}
      BY <1>7 DEF Unanswered
    <3> QED
      BY <3>1 DEF Types, Called
  <2> QED
    BY <2>1, <2>2, <2>3, <2>4, NoOpIsAProcedure, CodexAssumption
       DEF Types, Flags, Heard, Called, memory, disk
<1> QED
  BY <1>1, <1>2, <1>3, <1>4, <1>5, <1>6, <1>7 DEF Deliver

\* The orders of a person.
LEMMA OrderTypes ==
    ASSUME Types, Turned,
           OrderGiven \/ CloseAfterTurn \/ CloseOf \/ ResumeJoin \/ ReviewTurns \/ StartReview \/ CallFails
    PROVE  Types'
<1> USE DEF Types, Flags, Heard, talk, memory, disk, rest, tale
<1>1. CASE OrderGiven
  <2>1. /\ UNCHANGED <<talk, memory, disk, rest, poll>> /\ events' = events + 1 /\ events < MaxEvents
        /\ \E kind \in {"close", "review", "resume"}, at \in {"status", "join"} :
              op' = [NoOp EXCEPT !.kind = kind, !.at = at]
    BY <1>1 DEF OrderGiven, Begin, Event
  <2>2. Called'
    <3>1. PICK kind \in {"close", "review", "resume"}, at \in {"status", "join"} :
              op' = [NoOp EXCEPT !.kind = kind, !.at = at]
      BY <2>1
    <3> QED
      BY <2>1, <3>1 DEF Called, NoOp, Kinds, Places, Carriers
  <2> QED
    BY <2>1, <2>2, CodexAssumption
<1>2. CASE CloseAfterTurn
  <2>1. Flags' /\ events' \in 0 .. MaxEvents
    BY <1>2, CodexAssumption DEF CloseAfterTurn, Event, Called
  <2>2. Heard'
    BY <1>2, CodexAssumption DEF CloseAfterTurn, Event, Called
  <2>3. Called'
    BY <1>2, CodexAssumption DEF CloseAfterTurn, Event, Called
  <2> QED
    BY <2>1, <2>2, <2>3
<1>3. CASE CloseStatus
  <2>1. Flags' /\ events' \in 0 .. MaxEvents
    BY <1>3 DEF CloseStatus, GoTo, Called, Places
  <2>2. Heard'
    BY <1>3 DEF CloseStatus, GoTo, Called, Places
  <2>3. Called'
    BY <1>3 DEF CloseStatus, GoTo, Called, Places
  <2> QED
    BY <2>1, <2>2, <2>3
<1>4. CASE CloseTurns
  <2>1. Called'
    BY <1>4, ListedIsANumber DEF CloseTurns, Called, Places
  <2> QED
    BY <1>4, <2>1 DEF CloseTurns
<1>5. CASE CloseInterrupt
  <2>1. Called'
    BY <1>5, NoOpIsAProcedure DEF CloseInterrupt, GoTo, Called, Places
  <2>2. CASE turn.id = op.turn
    <3>1. /\ info' \in [active : BOOLEAN, waits : BOOLEAN]
          /\ ~listed' /\ ~active' /\ ~asks' /\ ~held' /\ listed' \in BOOLEAN /\ active' \in BOOLEAN
          /\ asks' \in BOOLEAN /\ held' \in BOOLEAN
      BY <1>5, <2>2, HearsTypes DEF CloseInterrupt, Ends
    <3>2. UNCHANGED <<client, memory, closing, loaded, poll, events>>
      BY <1>5, <2>2 DEF CloseInterrupt
    <3> QED
      BY <2>1, <3>1, <3>2
  <2>3. CASE turn.id # op.turn
    BY <1>5, <2>1, <2>3 DEF CloseInterrupt
  <2> QED
    BY <2>2, <2>3
<1>6. CASE FinishStatus \/ FinishTurns
  <2>1. UNCHANGED <<talk, memory, disk, rest, events>> /\ (Ended \/ ((GoTo("turns") \/ GoTo("leave")) /\ poll' = poll))
    BY <1>6 DEF FinishStatus, FinishTurns
  <2>2. CASE Ended
    BY <2>1, <2>2, EndedTypes, NoOpIsAProcedure DEF Called
  <2>3. CASE ~Ended
    BY <2>1, <2>3 DEF GoTo, Called, Places
  <2> QED
    BY <2>2, <2>3
<1>7. CASE CloseLeave
  <2>1. Called'
    BY <1>7, NoOpIsAProcedure DEF CloseLeave, Called
  <2>2. closed' \subseteq Nat
    BY <1>7 DEF CloseLeave, Called
  <2>3. info' \in [active : BOOLEAN, waits : BOOLEAN]
    BY <1>7 DEF CloseLeave, Removed, Unheard
  <2> QED
    BY <1>7, <2>1, <2>2, <2>3 DEF CloseLeave, Removed
<1>8. CASE ResumeJoin
  <2>1. Flags' /\ events' \in 0 .. MaxEvents
    BY <1>8, NoOpIsAProcedure DEF ResumeJoin, Called
  <2>2. Heard'
    BY <1>8, NoOpIsAProcedure DEF ResumeJoin, Called
  <2>3. Called'
    BY <1>8, NoOpIsAProcedure DEF ResumeJoin, Called
  <2> QED
    BY <2>1, <2>2, <2>3
<1>9. CASE ReviewTurns
  <2>1. Called'
    BY <1>9, NoOpIsAProcedure DEF ReviewTurns, GoTo, Called, Places
  <2> QED
    BY <1>9, <2>1 DEF ReviewTurns
<1>10. CASE StartReview
  <2>1. listed' \in BOOLEAN /\ active' \in BOOLEAN /\ info' \in [active : BOOLEAN, waits : BOOLEAN]
    BY <1>10, BeginsTypes DEF StartReview
  <2>2. Called'
    BY <1>10, NoOpIsAProcedure DEF StartReview, Called
  <2> QED
    <3>1. client' \in BOOLEAN /\ ours' \in BOOLEAN /\ subscribed' \in BOOLEAN
      BY <1>10 DEF StartReview
    <3>2. UNCHANGED <<up, polled, known, anew, closed, pending, disk, rest, poll, events>>
      BY <1>10 DEF StartReview
    <3> QED
      BY <2>1, <2>2, <3>1, <3>2
<1>11. CASE CallFails
  <2>1. /\ Ended /\ events' = events + 1 /\ events < MaxEvents
        /\ UNCHANGED <<up, polled, known, subscribed, ours, anew, closed, disk, asks, late>>
    BY <1>11 DEF CallFails, Event
  <2>2. listed' \in BOOLEAN /\ active' \in BOOLEAN /\ info' \in [active : BOOLEAN, waits : BOOLEAN]
    BY <1>11, BeginsTypes DEF CallFails
  <2>3. client' \in BOOLEAN /\ loaded' \in BOOLEAN /\ pending' \in {"none", "old", "new"}
    BY <1>11 DEF CallFails, Joins
  <2> QED
    BY <2>1, <2>2, <2>3, EndedTypes, NoOpIsAProcedure, CodexAssumption DEF Called
<1> QED
  BY <1>1, <1>2, <1>3, <1>4, <1>5, <1>6, <1>7, <1>8, <1>9, <1>10, <1>11 DEF CloseOf

\* The poll, and what keeps the link a client.
LEMMA PollTypes ==
    ASSUME Types, Turned, MailOK, MailOK',
           KeepReread \/ KeepRunning \/ KeepRunningFails \/ KeepLeave \/ KeepJoin \/ Poll \/ PollReadFails
    PROVE  Types'
<1> USE DEF Types, Flags, Heard, talk, memory, disk, rest, tale
<1>1. CASE KeepReread \/ KeepRunning
  <2>1. /\ UNCHANGED <<talk, memory, disk, rest, events>>
        /\ Ended \/ ((GoTo("running") \/ GoTo("leave")) /\ poll' = poll)
    BY <1>1 DEF KeepReread, KeepRunning
  <2>2. CASE Ended
    BY <2>1, <2>2, EndedTypes, NoOpIsAProcedure DEF Called
  <2>3. CASE ~Ended
    BY <2>1, <2>3 DEF GoTo, Called, Places
  <2> QED
    BY <2>2, <2>3
<1>2. CASE KeepRunningFails
  <2>1. Flags' /\ events' \in 0 .. MaxEvents
    BY <1>2, CodexAssumption DEF KeepRunningFails, Event, GoTo, Called, Places
  <2>2. Heard'
    BY <1>2, CodexAssumption DEF KeepRunningFails, Event, GoTo, Called, Places
  <2>3. Called'
    BY <1>2, CodexAssumption DEF KeepRunningFails, Event, GoTo, Called, Places
  <2> QED
    BY <2>1, <2>2, <2>3
<1>3. CASE KeepLeave
  <2>1. Flags' /\ events' \in 0 .. MaxEvents
    BY <1>3, EndedTypes, NoOpIsAProcedure DEF KeepLeave, Called
  <2>2. Heard'
    BY <1>3, EndedTypes, NoOpIsAProcedure DEF KeepLeave, Called
  <2>3. Called'
    BY <1>3, EndedTypes, NoOpIsAProcedure DEF KeepLeave, Called
  <2> QED
    BY <2>1, <2>2, <2>3
<1>4. CASE KeepJoin
  <2>1. Flags' /\ events' \in 0 .. MaxEvents
    BY <1>4, EndedTypes, NoOpIsAProcedure DEF KeepJoin, Joins, Called
  <2>2. Heard'
    BY <1>4, EndedTypes, NoOpIsAProcedure DEF KeepJoin, Joins, Called
  <2>3. Called'
    BY <1>4, EndedTypes, NoOpIsAProcedure DEF KeepJoin, Joins, Called
  <2> QED
    BY <2>1, <2>2, <2>3
<1>5. CASE PollList
  <2>1. Flags' /\ events' \in 0 .. MaxEvents
    BY <1>5 DEF PollList, AtRest, Called
  <2>2. Heard'
    <3>1. {} \in SUBSET Nat
      OBVIOUS
    <3>2. \E at \in {"read", "drop"} : poll' = [AtRest EXCEPT !.at = at]
      BY <1>5 DEF PollList
    <3>3. poll' \in [at : {"rest", "read", "letgo", "running", "finish", "seen", "keep", "drain", "drop"},
                     live : BOOLEAN, active : BOOLEAN, waits : BOOLEAN, stopped : SUBSET Nat]
      BY <3>1, <3>2 DEF AtRest
    <3>4. UNCHANGED <<info, pending>> /\ (closed' = closed \/ closed' = {})
      BY <1>5 DEF PollList
    <3> QED
      BY <3>3, <3>4
  <2>3. Called'
    BY <1>5 DEF PollList, AtRest, Called
  <2> QED
    BY <2>1, <2>2, <2>3
<1>6. CASE PollRead
  <2>1. Flags' /\ events' \in 0 .. MaxEvents
    BY <1>6 DEF PollRead, Called
  <2>2. Heard'
    BY <1>6 DEF PollRead, Called
  <2>3. Called'
    BY <1>6 DEF PollRead, Called
  <2> QED
    BY <2>1, <2>2, <2>3
<1>7. CASE LetGo
  <2>1. \E at \in {"finish", "seen", "running", "drop"} : poll' = [poll EXCEPT !.stopped = closed, !.at = at]
    BY <1>7 DEF LetGo
  <2>2. UNCHANGED <<talk, memory, disk, rest, op, events>>
    BY <1>7 DEF LetGo
  <2>3. Heard'
    <3>1. PICK at \in {"finish", "seen", "running", "drop"} : poll' = [poll EXCEPT !.stopped = closed, !.at = at]
      BY <2>1
    <3>2. closed \in SUBSET Nat
      OBVIOUS
    <3>3. [poll EXCEPT !.stopped = closed, !.at = at]
             \in [at : {"rest", "read", "letgo", "running", "finish", "seen", "keep", "drain", "drop"},
                  live : BOOLEAN, active : BOOLEAN, waits : BOOLEAN, stopped : SUBSET Nat]
      <4> HIDE DEF talk, memory, disk, rest
      <4> QED
        BY <3>2
    <3> QED
      BY <2>2, <3>1, <3>3
  <2> QED
    BY <2>2, <2>3 DEF Called
<1>14. CASE BackAgain
  <2>1. Flags' /\ events' \in 0 .. MaxEvents
    BY <1>14 DEF BackAgain, Called
  <2>2. Heard'
    BY <1>14 DEF BackAgain, Called
  <2>3. Called'
    BY <1>14 DEF BackAgain, Called
  <2> QED
    BY <2>1, <2>2, <2>3
<1>8. CASE FinishClose
  <2>1. Called'
    BY <1>8 DEF FinishClose, Called, NoOp, Kinds, Places, Carriers
  <2> QED
    BY <1>8, <2>1 DEF FinishClose
<1>9. CASE Seen
  <2>1. Flags' /\ events' \in 0 .. MaxEvents
    <3>1. /\ UNCHANGED <<loaded, client, listed, active, asks, up, polled, subscribed, ours, held, closing, events>>
          /\ known' \in BOOLEAN /\ anew' \in BOOLEAN
      BY <1>9 DEF Seen
    <3> QED
      BY <3>1
  <2>2. Heard'
    <3>1. closed' = closed /\ pending' \in {"none", "old", "new"}
      BY <1>9 DEF Seen
    <3>2. info' \in [active : BOOLEAN, waits : BOOLEAN]
      BY <1>9 DEF Seen
    <3>3. poll' \in [at : {"rest", "read", "letgo", "running", "finish", "seen", "keep", "drain", "drop"},
                     live : BOOLEAN, active : BOOLEAN, waits : BOOLEAN, stopped : SUBSET Nat]
      BY <1>9 DEF Seen
    <3> QED
      BY <3>1, <3>2, <3>3
  <2>3. Called'
    BY <1>9 DEF Seen, Called
  <2> QED
    BY <2>1, <2>2, <2>3
<1>10. CASE Keep
  <2>1. /\ UNCHANGED <<talk, up, polled, known, subscribed, anew, closed, pending, disk, rest, events>>
        /\ ours' \in BOOLEAN
        /\ poll' \in {poll, [poll EXCEPT !.at = "drain"]}
    BY <1>10 DEF Keep
  <2>2. op' = op \/ \E at \in {"join", "reread"} : op' = [NoOp EXCEPT !.kind = "keep", !.at = at, !.busy = ours]
    BY <1>10 DEF Keep
  <2>3. ASSUME NEW at \in {"join", "reread"}, op' = [NoOp EXCEPT !.kind = "keep", !.at = at, !.busy = ours]
        PROVE  Called'
    BY <2>1, <2>3 DEF Called, NoOp, Kinds, Places, Carriers
  <2>4. op' = op => Called'
    BY <2>1 DEF Called
  <2> QED
    BY <2>1, <2>2, <2>3, <2>4
<1>11. CASE Drain
  <2>1. /\ UNCHANGED <<talk, memory, disk, rest, events>>
        /\ poll' \in {poll, [poll EXCEPT !.at = "drop"]}
    BY <1>11 DEF Drain
  <2>2. op' = op \/ (queue # << >> /\ op' = [NoOp EXCEPT !.kind = "drain", !.at = "status", !.msg = Head(queue)])
    BY <1>11 DEF Drain
  <2>3. CASE op' = op
    BY <2>1, <2>3 DEF Called
  <2>4. CASE queue # << >> /\ op' = [NoOp EXCEPT !.kind = "drain", !.at = "status", !.msg = Head(queue)]
    <3>1. Head(queue) \in Msgs
      BY <2>4, HeadAndTail DEF MailOK
    <3>2. Called'
      BY <2>1, <2>4, <3>1 DEF Called, NoOp, Kinds, Places, Carriers
    <3> QED
      BY <2>1, <3>2
  <2> QED
    BY <2>2, <2>3, <2>4
<1>12. CASE Drop
  <2>1. Flags' /\ events' \in 0 .. MaxEvents
    BY <1>12 DEF Drop, Removed, Unheard, AtRest, Called
  <2>2. Heard'
    <3>1. closed' = closed /\ pending' \in {"none", "old", "new"}
      BY <1>12 DEF Drop, Removed
    <3>2. info' \in [active : BOOLEAN, waits : BOOLEAN]
      <4>1. info' = info \/ info' = Unheard
        BY <1>12 DEF Drop, Removed
      <4>2. Unheard \in [active : BOOLEAN, waits : BOOLEAN]
        BY DEF Unheard
      <4> QED
        BY <4>1, <4>2
    <3>3. poll' \in [at : {"rest", "read", "letgo", "running", "finish", "seen", "keep", "drain", "drop"},
                     live : BOOLEAN, active : BOOLEAN, waits : BOOLEAN, stopped : SUBSET Nat]
      BY <1>12 DEF Drop, AtRest
    <3> QED
      BY <3>1, <3>2, <3>3
  <2>3. Called'
    BY <1>12 DEF Drop, Removed, Unheard, AtRest, Called
  <2> QED
    BY <2>1, <2>2, <2>3
<1>13. CASE PollReadFails
  <2>1. Flags' /\ events' \in 0 .. MaxEvents
    BY <1>13, CodexAssumption DEF PollReadFails, Event, Called
  <2>2. Heard'
    BY <1>13, CodexAssumption DEF PollReadFails, Event, Called
  <2>3. Called'
    BY <1>13, CodexAssumption DEF PollReadFails, Event, Called
  <2> QED
    BY <2>1, <2>2, <2>3
<1> QED
  BY <1>1, <1>2, <1>3, <1>4, <1>5, <1>6, <1>7, <1>8, <1>9, <1>10, <1>11, <1>12, <1>13, <1>14 DEF Poll

\* Connections and falls.
LEMMA ConnectionTypes ==
    ASSUME Types, Turned, ConnectionDrops \/ Connect \/ ExecutorFalls \/ RestartIdle
    PROVE  Types'
<1> USE DEF Types, Flags, Heard, talk, memory, disk, rest, tale
<1>1. CASE Connect
  BY <1>1 DEF Connect, Called
<1>2. CASE ~Connect
  <2>1. /\ Forget /\ events' = events + 1 /\ events < MaxEvents /\ UNCHANGED disk
        /\ closed' \in {closed, {}} /\ anew' \in BOOLEAN
        /\ listed' \in BOOLEAN /\ active' \in BOOLEAN /\ loaded' \in BOOLEAN /\ asks' \in BOOLEAN
    BY <1>2 DEF ConnectionDrops, ExecutorFalls, RestartIdle, Event
  <2>2. Called'
    BY <2>1, NoOpIsAProcedure DEF Forget, Called
  <2>3. /\ info' \in [active : BOOLEAN, waits : BOOLEAN]
        /\ poll' \in [at : {"rest", "read", "letgo", "running", "finish", "seen", "keep", "drain", "drop"},
                      live : BOOLEAN, active : BOOLEAN, waits : BOOLEAN, stopped : SUBSET Nat]
    BY <2>1 DEF Forget, Removed, Unheard, AtRest
  <2>4. /\ up' = FALSE /\ client' = FALSE /\ known' = FALSE /\ subscribed' = FALSE /\ ours' = FALSE
        /\ polled' = FALSE /\ pending' = "none"
    BY <2>1 DEF Forget, Removed
  <2>5. events' \in 0 .. MaxEvents
    BY <2>1, CodexAssumption
  <2>6. Flags'
    BY <2>1, <2>4
  <2>7. Heard'
    BY <2>1, <2>3, <2>4
  <2> QED
    BY <2>2, <2>5, <2>6, <2>7
<1> QED
  BY <1>1, <1>2

----------------------------------------------------------------------------
(* A thread waits on a person while it is active, in the daemon and for the link *)

Waits ==
    /\ asks => active /\ turn.by # "nobody"
    /\ info.waits => info.active
    /\ poll.waits => poll.active

\* A turn that begins begins in a thread that waits on nobody.
LEMMA BeginsWaits ==
    ASSUME Heard, Waits, turn = NoTurn, NEW who \in Own \cup {"other", "deaf"}, NEW isClient, Begins(who, isClient)
    PROVE  ~asks /\ turn'.by # "nobody" /\ (info'.waits => info'.active)
BY DEF Heard, Waits, NoTurn, Own, Begins, Hears

LEMMA DaemonWaits ==
    ASSUME Types, Turned, Waits,
           \/ TurnShows \/ TurnEnds \/ Ask \/ Answered \/ Unload
           \/ \E who \in {"other", "deaf"} : OtherTurn(who)
           \/ \E call \in late : MadeLate(call)
    PROVE  Waits'
<1> USE DEF Types, Flags, Heard, Waits, talk, memory, disk, rest
<1>1. TurnShows => Waits' BY DEF TurnShows, Hears
<1>2. TurnEnds => Waits' BY DEF TurnEnds, Ends, Hears
<1>3. Ask => Waits' BY DEF Ask
<1>4. Answered => Waits' BY DEF Answered
<1>5. Unload => Waits' BY DEF Unload
<1>6. \A who \in {"other", "deaf"} : OtherTurn(who) => Waits' BY BeginsWaits DEF OtherTurn, Own
<1>7. ASSUME NEW call \in late, MadeLate(call) PROVE Waits'
  BY <1>7, BeginsWaits DEF MadeLate, Effect, Own
<1> QED
  BY <1>1, <1>2, <1>3, <1>4, <1>5, <1>6, <1>7

LEMMA MessageWaits ==
    ASSUME Types, Turned, Waits,
           \/ \E m \in Msgs : Send(m) \/ Answer(m) \/ Unqueue(m)
           \/ Deliver \/ Unanswered
    PROVE  Waits'
<1> USE DEF Types, Flags, Heard, Waits, talk, memory, disk, rest
<1>1. \A m \in Msgs : Send(m) \/ Answer(m) \/ Unqueue(m) => Waits'
  <2>1. \A m \in Msgs : Send(m) \/ Answer(m) \/ Unqueue(m) => UNCHANGED <<talk, rest, poll>>
    BY DEF Send, Answer, Unqueue
  <2> QED
    BY <2>1
<1>2. LookStatus => Waits' BY DEF LookStatus
<1>3. Ended => (poll'.waits => poll'.active) BY DEF Ended
<1>4. LookTurns => Waits' BY <1>3 DEF LookTurns, Busy
<1>5. LookAgain => Waits' BY <1>3 DEF LookAgain, Busy
<1>6. Steer => Waits' BY <1>3 DEF Steer, Effect, Went
<1>7. StartTurn => Waits'
  <2>1. StartTurn => (poll'.waits => poll'.active) /\ asks' = asks BY <1>3 DEF StartTurn, Went
  <2>2. StartTurn => (UNCHANGED <<turn, active, info>>
                      \/ (turn = NoTurn /\ \E who \in Own \cup {"other", "deaf"} : Begins(who, TRUE)))
    BY DEF StartTurn, Effect, Own
  <2> QED
    BY <2>1, <2>2, BeginsWaits
<1>8. DrainRemove => Waits' BY <1>3 DEF DrainRemove
<1>9. Unanswered => Waits'
  <2>1. Unanswered => (poll'.waits => poll'.active) /\ asks' = asks BY <1>3 DEF Unanswered
  <2>2. Unanswered => (UNCHANGED <<turn, active, info>>
                      \/ (turn = NoTurn /\ \E who \in Own \cup {"other", "deaf"} : Begins(who, TRUE)))
    BY DEF Unanswered, Effect, Own
  <2> QED
    BY <2>1, <2>2, BeginsWaits
<1> QED
  BY <1>1, <1>2, <1>4, <1>5, <1>6, <1>7, <1>8, <1>9 DEF Deliver

LEMMA OrderWaits ==
    ASSUME Types, Turned, Waits,
           OrderGiven \/ CloseAfterTurn \/ CloseOf \/ ResumeJoin \/ ReviewTurns \/ StartReview \/ CallFails
    PROVE  Waits'
<1> USE DEF Types, Flags, Heard, Waits, talk, memory, disk, rest
<1>1. OrderGiven => Waits' BY DEF OrderGiven
<1>2. CloseAfterTurn => Waits' BY DEF CloseAfterTurn
<1>3. Ended => (poll'.waits => poll'.active) BY DEF Ended
<1>4. CloseStatus => Waits' BY DEF CloseStatus
<1>5. CloseTurns => Waits' BY DEF CloseTurns
<1>6. CloseInterrupt => Waits'
  <2>1. CloseInterrupt => poll' = poll /\ (UNCHANGED <<turn, active, info, asks>> \/ Ends)
    BY DEF CloseInterrupt
  <2>2. Ends => asks' = FALSE /\ (info' = info \/ info' = [active |-> FALSE, waits |-> info.waits /\ FALSE])
    BY DEF Ends, Hears
  <2>3. [active |-> FALSE, waits |-> info.waits /\ FALSE].waits = (info.waits /\ FALSE)
    OBVIOUS
  <2>4. CloseInterrupt /\ Ends => Waits'
    BY <2>1, <2>2, <2>3
  <2>5. UNCHANGED <<turn, active, info, asks, poll>> => Waits'
    OBVIOUS
  <2> QED
    BY <2>1, <2>4, <2>5
<1>7. FinishStatus => Waits' BY <1>3 DEF FinishStatus
<1>8. FinishTurns => Waits' BY <1>3 DEF FinishTurns
<1>9. CloseLeave => Waits' BY DEF CloseLeave, Removed, Unheard, GivenUp, Turned, Turns, Own
<1>10. ResumeJoin => Waits' BY DEF ResumeJoin
<1>11. ReviewTurns => Waits' BY DEF ReviewTurns
<1>12. StartReview => Waits'
  <2>1. StartReview => UNCHANGED <<poll, asks>>
    BY DEF StartReview
  <2>2. StartReview => (UNCHANGED <<turn, active, info>>
                      \/ (turn = NoTurn /\ \E who \in Own \cup {"other", "deaf"} : Begins(who, TRUE)))
    BY DEF StartReview, Own
  <2> QED
    BY <2>1, <2>2, BeginsWaits
<1>13. CallFails => Waits'
  <2>1. CallFails => (poll'.waits => poll'.active) /\ asks' = asks BY <1>3 DEF CallFails
  <2>2. CallFails => (UNCHANGED <<turn, active, info>>
                      \/ (turn = NoTurn /\ \E who \in Own \cup {"other", "deaf"} : Begins(who, TRUE)))
    BY DEF CallFails, Effect, Own, Joins
  <2> QED
    BY <2>1, <2>2, BeginsWaits
<1> QED
  BY <1>1, <1>2, <1>4, <1>5, <1>6, <1>7, <1>8, <1>9, <1>10, <1>11, <1>12, <1>13 DEF CloseOf

LEMMA PollWaits ==
    ASSUME Types, Turned, Waits,
           KeepReread \/ KeepRunning \/ KeepRunningFails \/ KeepLeave \/ KeepJoin \/ Poll \/ PollReadFails
    PROVE  Waits'
<1> USE DEF Types, Flags, Heard, Waits, talk, memory, disk, rest
<1>1. Ended => (poll'.waits => poll'.active) BY DEF Ended
<1>2. KeepReread => Waits' BY <1>1 DEF KeepReread
<1>3. KeepRunning => Waits' BY <1>1 DEF KeepRunning
<1>4. KeepRunningFails => Waits' BY DEF KeepRunningFails
<1>5. KeepLeave => Waits' BY <1>1 DEF KeepLeave, GivenUp, Turned, Turns, Own
<1>6. KeepJoin => Waits' BY <1>1 DEF KeepJoin, Joins
<1>7. PollList => Waits' BY DEF PollList, AtRest
<1>8. PollRead => Waits' BY DEF PollRead
<1>9. LetGo => Waits' BY DEF LetGo
<1>10. BackAgain => Waits' BY DEF BackAgain
<1>11. FinishClose => Waits' BY DEF FinishClose
<1>12. Seen => Waits'
  <2>1. Seen => /\ UNCHANGED <<asks, active, turn>>
                /\ info' = info \/ info' = [active |-> poll.active, waits |-> poll.waits]
                /\ poll'.waits = poll.waits /\ poll'.active = poll.active
    BY DEF Seen
  <2> QED
    BY <2>1
<1>13. Keep => Waits' BY DEF Keep
<1>14. Drain => Waits' BY DEF Drain
<1>15. Drop => Waits' BY DEF Drop, AtRest, Removed, Unheard, GivenUp, Turned, Turns, Own
<1>16. PollReadFails => Waits' BY DEF PollReadFails
<1> QED
  BY <1>2, <1>3, <1>4, <1>5, <1>6, <1>7, <1>8, <1>9, <1>10, <1>11, <1>12, <1>13, <1>14, <1>15, <1>16 DEF Poll

LEMMA ConnectionWaits ==
    ASSUME Types, Turned, Waits, ConnectionDrops \/ Connect \/ ExecutorFalls \/ RestartIdle
    PROVE  Waits'
<1> USE DEF Types, Flags, Heard, Waits, talk, memory, disk, rest
<1>1. Forget => (info'.waits => info'.active) /\ (poll'.waits => poll'.active)
  BY DEF Forget, Removed, Unheard, AtRest
<1>2. LostSight /\ turn.by # "nobody" => turn'.by # "nobody"
  BY DEF LostSight, GivenUp, Turned, Turns, Own
<1>3. ConnectionDrops => Waits' BY <1>1, <1>2 DEF ConnectionDrops
<1>4. Connect => Waits' BY DEF Connect
<1>5. ExecutorFalls => Waits' BY <1>1, <1>2 DEF ExecutorFalls
<1>6. RestartIdle => Waits' BY <1>1 DEF RestartIdle
<1> QED
  BY <1>3, <1>4, <1>5, <1>6

----------------------------------------------------------------------------
(* The types of every state *)

LEMMA TypesStart == Init => Types /\ Waits
<1> SUFFICES ASSUME Init PROVE Types /\ Waits
  OBVIOUS
<1>1. Flags
  BY DEF Init, Flags
<1>2. Heard
  BY DEF Init, Heard, Unheard, AtRest
<1>3. Called
  BY NoOpIsAProcedure DEF Init, Called
<1>4. events \in 0 .. MaxEvents
  BY CodexAssumption DEF Init
<1>5. Waits
  BY DEF Init, Waits, Unheard, AtRest
<1> QED
  BY <1>1, <1>2, <1>3, <1>4, <1>5 DEF Types

LEMMA TypesStep ==
    ASSUME Types, Waits, MailOK, MailOK', TurnOK, [Next]_vars
    PROVE  Types' /\ Waits'
<1>1. Turned
  BY DEF TurnOK, Turned
<1>2. CASE UNCHANGED vars
  BY <1>2 DEF vars, talk, memory, disk, rest, tale, Types, Flags, Heard, Called, Waits
<1>3. CASE Next
  <2>1. Types'
    BY <1>1, <1>3, DaemonTypes, MessageTypes, OrderTypes, PollTypes, ConnectionTypes DEF Next, Procedure, CloseOf
  <2>2. Waits'
    BY <1>1, <1>3, DaemonWaits, MessageWaits, OrderWaits, PollWaits, ConnectionWaits DEF Next, Procedure, CloseOf
  <2> QED
    BY <2>1, <2>2
<1> QED
  BY <1>2, <1>3

\* Every variable of the link and of the daemon keeps its type, a procedure
\* that is over keeps nothing of its message, and the link takes no thread to
\* wait on a person that it knows to be idle, through calls that fail, drops of
\* the connection and falls.
THEOREM LinkTypes == Spec => []TypeOK
<1>1. Types /\ Waits /\ MailOK /\ TurnOK => TypeOK
  <2>1. Types /\ MailOK => Flags /\ Heard /\ Called /\ events \in 0 .. MaxEvents
    BY DEF Types
  <2>2. TurnOK => turn \in Turns /\ began \in Nat /\ activity \in {"nil", "gone", "unread", "active", "idle"}
    BY DEF TurnOK
  <2> QED
    BY <2>1, <2>2 DEF Flags, Heard, Called, Waits, MailOK, Turns, Own, TypeOK
<1> QED
  BY <1>1, MailStarts, MailStep, TypesStart, TypesStep, TurnsAreKnown, PTL DEF Spec
=============================================================================
