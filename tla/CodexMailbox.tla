---------------------------- MODULE CodexMailbox ----------------------------
(***************************************************************************)
(* What the panel promises of the messages it sends to one thread of the   *)
(* daemon of codex: a message waits in line, is taken once, and none       *)
(* overtakes another.  An answer to a question of codex alone passes the   *)
(* line.  It is lost in no way but these: its sender is told that it did   *)
(* not go, or takes it back; no turn can be started with it; the thread it *)
(* waits for is closed or unloaded.  Only of a message whose delivery      *)
(* ended without an answer, or was written down by nobody before the       *)
(* executor fell, less is promised: it may be taken again, and late.       *)
(***************************************************************************)
EXTENDS Integers, Sequences

CONSTANTS
    Msgs,     \* the messages of persons and sessions
    Answers,  \* those that may be given as the answer to a question, which passes the line
    Bad       \* those no turn can be started with

VARIABLES
    fresh,    \* the messages nobody has sent yet
    waiting,  \* the line, the oldest first
    taken,    \* what the turns took, in order
    doubted,  \* the messages of whose delivery nobody knows the end
    told,     \* those whose sender knows that they do not go, or may not have gone
    loaded,   \* the daemon has the thread: not the mailbox's to say, nor is the next
    shut      \* the thread is closed

vars == <<fresh, waiting, taken, doubted, told>>

Init ==
    /\ fresh = Msgs
    /\ waiting = << >>
    /\ taken = << >>
    /\ doubted = {}
    /\ told = {}

Among(m, s) == \E i \in DOMAIN s : s[i] = m

Without(s, i) == SubSeq(s, 1, i - 1) \o SubSeq(s, i + 1, Len(s))

Sent(m) == m \in fresh /\ fresh' = fresh \ {m}

MayGo(m) == waiting = << >> \/ m \in Answers

Wait(m) ==
    /\ Sent(m)
    /\ waiting' = Append(waiting, m)
    /\ UNCHANGED <<taken, doubted, told>>

\* Taken at once: nothing waits before it, or it passes the line.
Pass(m) ==
    /\ Sent(m) /\ MayGo(m)
    /\ taken' = Append(taken, m)
    /\ UNCHANGED <<waiting, doubted, told>>

\* The sender is told that it did not go.
Fail(m) ==
    /\ Sent(m)
    /\ told' = told \cup {m}
    /\ UNCHANGED <<waiting, taken, doubted>>

Take ==
    /\ waiting # << >>
    /\ taken' = Append(taken, Head(waiting))
    /\ waiting' = Tail(waiting)
    /\ UNCHANGED <<fresh, doubted, told>>

TakeBack(m) ==
    /\ \E i \in DOMAIN waiting : waiting[i] = m /\ waiting' = Without(waiting, i)
    /\ told' = told \cup {m}
    /\ UNCHANGED <<fresh, taken, doubted>>

\* A message no turn can be started with is dropped, and no other.
Refuse ==
    /\ waiting # << >> /\ (Head(waiting) \in Bad \/ ~loaded)
    /\ waiting' = Tail(waiting)
    /\ UNCHANGED <<fresh, taken, doubted, told>>

\* The line goes with a thread that the daemon has let go, or that is closed.
Lapse ==
    /\ ~loaded \/ shut'
    /\ waiting' = << >>
    /\ UNCHANGED <<fresh, taken, doubted, told>>

\* A delivery ends without an answer: of the oldest message, or of a new one.
Doubt(m) ==
    /\ \/ waiting # << >> /\ m = Head(waiting) /\ UNCHANGED <<fresh, told>>
       \/ Sent(m) /\ MayGo(m) /\ told' = told \cup {m}
    /\ doubted' = doubted \cup {m}
    /\ taken' \in {taken, Append(taken, m)}
    /\ UNCHANGED waiting

\* The executor falls after a message was taken and before that was written.
Return(m) ==
    /\ Among(m, taken)
    /\ waiting' = <<m>> \o waiting
    /\ doubted' = doubted \cup {m}
    /\ UNCHANGED <<fresh, taken, told>>

TakenAfterAll(m) ==
    /\ m \in doubted
    /\ taken' = Append(taken, m)
    /\ UNCHANGED <<fresh, waiting, doubted, told>>

Next ==
    \/ \E m \in Msgs : \/ Wait(m) \/ Pass(m) \/ Fail(m) \/ TakeBack(m)
                       \/ Doubt(m) \/ Return(m) \/ TakenAfterAll(m)
    \/ Take \/ Refuse \/ Lapse

Spec == Init /\ [][Next]_vars
=============================================================================
