---------------------------- MODULE PtyLoopProofs ----------------------------
(***************************************************************************)
(* Theorems about PtyLoop, for any connections, sizes, room and bounds.    *)
(***************************************************************************)
EXTENDS PtyLoop, TLAPS, SequenceTheorems

-----------------------------------------------------------------------------
(* Types                                                                   *)

\* What a message of n pieces, the m-th, looks like.
Message(m, n) == [i \in 1..n |-> <<m, i, n>>]

LEMMA MessageTyped ==
  ASSUME NEW m \in Nat, NEW n \in Nat
  PROVE  Message(m, n) \in Seq(Pieces) /\ Len(Message(m, n)) = n
<1>1. \A i \in 1..n : <<m, i, n>> \in Pieces BY DEF Pieces
<1> QED BY <1>1 DEF Message

\* The pieces that the PTY takes of a message.
LEMMA FirstPieces ==
  ASSUME NEW q \in Seq(Pieces), NEW n \in 0..Len(q)
  PROVE  /\ SubSeq(q, 1, n) \in Seq(Pieces)
         /\ Len(SubSeq(q, 1, n)) = n
         /\ \A i \in 1..n : SubSeq(q, 1, n)[i] = q[i]
<1>1. \A i \in 1..n : q[i] \in Pieces OBVIOUS
<1> QED BY <1>1, SubSeqProperties

\* How much of a message the PTY takes.
LEMMA TakesRoom ==
  ASSUME TypeOK, PtyLoopAssumption, queue # <<>>
  PROVE  /\ Head(queue) \in Seq(Pieces) /\ Tail(queue) \in Seq(Seq(Pieces))
         /\ Lesser(Len(Head(queue)), Room - unread) \in 0..Len(Head(queue))
         /\ unread + Lesser(Len(Head(queue)), Room - unread) \in 0..Room
<1>1. Head(queue) \in Seq(Pieces) /\ Tail(queue) \in Seq(Seq(Pieces))
  BY HeadTailProperties DEF TypeOK
<1>2. Len(Head(queue)) \in Nat BY <1>1
<1>3. unread \in 0..Room /\ Room \in Nat BY DEF TypeOK, PtyLoopAssumption
<1> QED BY <1>1, <1>2, <1>3 DEF Lesser

\* Everything a handler can queue has a piece at least.
LEMMA WriteQueues ==
  ASSUME NEW f \in Forms, PtyLoopAssumption, Write(f)
  PROVE  \E n \in Nat \ {0} : Enqueue(n)
<1>1. 1 + (IF f.bracketed THEN 2 ELSE 0) + (IF f.enter THEN 1 ELSE 0) \in Nat \ {0}
  OBVIOUS
<1> QED BY <1>1 DEF Write

LEMMA EnqueueTyped ==
  ASSUME TypeOK, NEW n \in Nat \ {0}, Enqueue(n)
  PROVE  TypeOK'
<1>1. Message(sent + 1, n) \in Seq(Pieces) BY MessageTyped DEF TypeOK
<1>2. queue' = Append(queue, Message(sent + 1, n)) BY DEF Enqueue, Message
<1>3. queue' \in Seq(Seq(Pieces)) BY <1>1, <1>2 DEF TypeOK
<1> QED BY <1>3 DEF TypeOK, Enqueue, loopVars, shellVars, outputVars, sizeVars, Pieces

LEMMA InjectTyped ==
  ASSUME TypeOK, PtyLoopAssumption, Inject
  PROVE  TypeOK'
<1> DEFINE n == Lesser(Len(Head(queue)), Room - unread)
           s == SubSeq(Head(queue), 1, n)
<1>1. queue # <<>> BY DEF Inject
<1>2. /\ Head(queue) \in Seq(Pieces) /\ Tail(queue) \in Seq(Seq(Pieces))
      /\ n \in 0..Len(Head(queue)) /\ unread + n \in 0..Room
  BY <1>1, TakesRoom
<1>3. s \in Seq(Pieces) /\ Len(s) = n BY <1>2, FirstPieces
<1>4. typed' = typed \o s /\ queue' = Tail(queue) /\ unread' = unread + n BY DEF Inject, Types
<1>5. typed' \in Seq(Pieces) /\ Len(typed') = Len(typed) + n
  BY <1>3, <1>4, ConcatProperties DEF TypeOK
<1>6. unread' \in 0..Room /\ unread' <= Len(typed') /\ queue' \in Seq(Seq(Pieces))
  <2>1. unread <= Len(typed) /\ unread \in Nat /\ n \in Nat /\ Len(typed) \in Nat
    BY <1>2 DEF TypeOK
  <2> QED BY <2>1, <1>2, <1>4, <1>5
<1>7. overrun' \in BOOLEAN BY DEF Inject, Types, TypeOK
<1>8. UNCHANGED <<sent, loopVars, shellVars, outputVars, sizeVars>> BY DEF Inject, Types
<1> HIDE DEF n, s
<1> QED BY <1>5, <1>6, <1>7, <1>8 DEF TypeOK, loopVars, shellVars, outputVars, sizeVars

\* Every other step leaves the input alone or counts what the shell has read.
LEMMA LoopTyped ==
  ASSUME TypeOK, PtyLoopAssumption,
         \/ EnterLoop \/ LoopFails \/ Signal
         \/ TakeChld \/ Read \/ ReadEnds \/ TakeSignal \/ Ending
  PROVE  TypeOK'
<1> USE DEF TypeOK, Stages, loopVars, shellVars, outputVars, inputVars, sizeVars
<1>1. CASE EnterLoop \/ LoopFails BY <1>1 DEF EnterLoop, LoopFails
<1>2. CASE Signal BY <1>2 DEF Signal
<1>3. CASE TakeChld BY <1>3 DEF TakeChld, WaitPid
<1>4. CASE Read BY <1>4 DEF Read
<1>5. CASE ReadEnds BY <1>5 DEF ReadEnds
<1>6. CASE TakeSignal BY <1>6 DEF TakeSignal, SendsToShell
<1>7. CASE NoticeEnds BY <1>7 DEF NoticeEnds
<1>8. CASE HangUp BY <1>8 DEF HangUp, SendsToShell
<1>9. CASE Poll BY <1>9 DEF Poll, WaitPid
<1>10. CASE Deadline BY <1>10 DEF Deadline
<1>11. CASE Probe BY <1>11 DEF Probe, Kill, SendsToShell
<1>12. CASE Wait BY <1>12 DEF Wait, WaitPid
<1> QED
  BY <1>1, <1>2, <1>3, <1>4, <1>5, <1>6, <1>7, <1>8, <1>9, <1>10, <1>11, <1>12 DEF Ending

LEMMA SessionTyped ==
  ASSUME TypeOK, PtyLoopAssumption, Session
  PROVE  TypeOK'
<1> USE DEF TypeOK, loopVars, shellVars, outputVars, inputVars, sizeVars
<1>1. CASE Output BY <1>1 DEF Output
<1>2. CASE ShellReads BY <1>2 DEF ShellReads, PtyLoopAssumption
<1>3. CASE JobStarts BY <1>3 DEF JobStarts
<1>4. CASE ShellEnds BY <1>4 DEF ShellEnds, Raised
<1>5. CASE ShellStops BY <1>5 DEF ShellStops, Raised
<1>6. CASE PidReused BY <1>6 DEF PidReused
<1>7. ASSUME NEW p \in {"shell", "job"}, LetsGo(p) PROVE TypeOK' BY <1>7 DEF LetsGo
<1> QED BY <1>1, <1>2, <1>3, <1>4, <1>5, <1>6, <1>7 DEF Session

LEMMA ResizeTyped ==
  ASSUME TypeOK, PtyLoopAssumption, NEW c \in Clients,
         ResizeTerminal(c) \/ \E s \in Sizes \cup {None} : ResizePty(c, s)
  PROVE  TypeOK'
<1> USE DEF TypeOK, loopVars, shellVars, outputVars, inputVars
<1>1. CASE ResizeTerminal(c) BY <1>1 DEF ResizeTerminal
<1>2. ASSUME NEW s \in Sizes \cup {None}, ResizePty(c, s) PROVE TypeOK'
  BY <1>2 DEF ResizePty
<1> QED BY <1>1, <1>2

\* A step is one of these; the proofs below go through them.
LEMMA NextSteps ==
  ASSUME Next, PtyLoopAssumption
  PROVE  \/ Session
         \/ \E n \in Nat \ {0} : Enqueue(n)
         \/ \E c \in Clients :
              ResizeTerminal(c) \/ \E s \in Sizes \cup {None} : ResizePty(c, s)
         \/ Inject
         \/ EnterLoop \/ LoopFails \/ Signal
         \/ TakeChld \/ Read \/ ReadEnds \/ TakeSignal \/ Ending
<1>1. CASE Connections
  <2>1. AttachInput => \E n \in Nat \ {0} : Enqueue(n) BY DEF AttachInput
  <2> QED BY <1>1, <2>1, WriteQueues DEF Connections
<1> QED BY <1>1 DEF Next, Branch

LEMMA StepTyped ==
  ASSUME TypeOK, PtyLoopAssumption, [Next]_vars
  PROVE  TypeOK'
<1>1. CASE Next
  BY <1>1, NextSteps, SessionTyped, EnqueueTyped, ResizeTyped, InjectTyped, LoopTyped
<1>2. CASE UNCHANGED vars
  BY <1>2 DEF TypeOK, vars, loopVars, shellVars, outputVars, inputVars, sizeVars
<1> QED BY <1>1, <1>2

LEMMA InitTyped ==
  ASSUME Init, PtyLoopAssumption
  PROVE  TypeOK
<1>1. <<>> \in Seq(Pieces) /\ <<>> \in Seq(Seq(Pieces)) /\ Len(<<>>) = 0 OBVIOUS
<1>2. /\ sent \in Nat /\ queue \in Seq(Seq(Pieces)) /\ typed \in Seq(Pieces)
      /\ unread \in 0..Room /\ unread <= Len(typed) /\ overrun \in BOOLEAN
  <2>1. sent = 0 /\ queue = <<>> /\ typed = <<>> /\ unread = 0 /\ overrun = FALSE
    BY DEF Init
  <2>2. 0 \in 0..Room BY DEF PtyLoopAssumption
  <2>3. queue \in Seq(Seq(Pieces)) BY <1>1, <2>1
  <2>4. typed \in Seq(Pieces) BY <1>1, <2>1
  <2>5. unread <= Len(typed) BY <1>1, <2>1
  <2> QED BY <2>1, <2>2, <2>3, <2>4, <2>5
<1>3. /\ pending \in [Clients -> Sizes \cup {None}] /\ ptySize \in Sizes /\ termSize \in Sizes
      /\ overlap \in BOOLEAN
  BY DEF Init, PtyLoopAssumption
<1>4. /\ loop \in Stages /\ child \in {"running", "zombie", "reaped"}
      /\ holders \subseteq {"shell", "job"}
      /\ killed \in BOOLEAN /\ chld \in BOOLEAN /\ asked \in BOOLEAN /\ reused \in BOOLEAN
      /\ stray \subseteq {"INT", "HUP", "TERM", "KILL"}
      /\ written \in Nat /\ shown \in 0..written
  <2>1. written = 0 /\ shown = 0 BY DEF Init
  <2>2. written \in Nat /\ shown \in 0..written BY <2>1
  <2>3. loop = "forked" /\ child = "running" /\ holders = {"shell"} /\ stray = {} BY DEF Init
  <2>4. loop \in Stages BY <2>3 DEF Stages
  <2>5. killed = FALSE /\ chld = FALSE /\ asked = FALSE /\ reused = FALSE BY DEF Init
  <2> QED BY <2>2, <2>3, <2>4, <2>5
<1> QED BY <1>2, <1>3, <1>4 DEF TypeOK

\* The handlers and the loop keep the variables in their types: the PTY is
\* never given more than it has room for, nor a window without a size.
THEOREM PtyTypeCorrect == Spec => []TypeOK
<1>1. Init => TypeOK BY InitTyped, PtyLoopAssumption
<1>2. TypeOK /\ [Next]_vars => TypeOK' BY StepTyped, PtyLoopAssumption
<1> QED BY <1>1, <1>2, PTL DEF Spec

-----------------------------------------------------------------------------
(* The end of the session                                                  *)

\* Until the shell was waited for no signal misses it, and the loop waits for it
\* only as it ends; who is killed was there until then; the end comes after the
\* last wait.
EndInv ==
  /\ child # "reaped" => stray = {}
  /\ loop \in {"forked", "select", "notice"} => child # "reaped"
  /\ killed => loop \in {"wait", "done"} /\ stray = {}
  /\ loop = "done" => child = "reaped"

LEMMA EndStep ==
  ASSUME EndInv, TypeOK, PtyLoopAssumption, [Next]_vars
  PROVE  EndInv'
<1> USE DEF EndInv, loopVars, shellVars, outputVars, inputVars, sizeVars
<1>1. CASE Session
  <2>1. CASE Output BY <2>1 DEF Output
  <2>2. CASE ShellReads BY <2>2 DEF ShellReads
  <2>3. CASE JobStarts BY <2>3 DEF JobStarts
  <2>4. CASE ShellEnds BY <2>4 DEF ShellEnds, Lives
  <2>5. CASE ShellStops BY <2>5 DEF ShellStops
  <2>6. CASE PidReused BY <2>6 DEF PidReused
  <2>7. ASSUME NEW p \in {"shell", "job"}, LetsGo(p) PROVE EndInv' BY <2>7 DEF LetsGo
  <2> QED BY <1>1, <2>1, <2>2, <2>3, <2>4, <2>5, <2>6, <2>7 DEF Session
<1>2. ASSUME NEW n \in Nat \ {0}, Enqueue(n) PROVE EndInv' BY <1>2 DEF Enqueue
<1>3. ASSUME NEW c \in Clients, ResizeTerminal(c) PROVE EndInv' BY <1>3 DEF ResizeTerminal
<1>4. ASSUME NEW c \in Clients, NEW s \in Sizes \cup {None}, ResizePty(c, s) PROVE EndInv'
  BY <1>4 DEF ResizePty
<1>5. CASE Inject BY <1>5 DEF Inject, Types
<1>6. CASE EnterLoop \/ LoopFails BY <1>6 DEF EnterLoop, LoopFails
<1>7. CASE Signal BY <1>7 DEF Signal
<1>8. CASE TakeChld BY <1>8 DEF TakeChld, WaitPid
<1>9. CASE Read BY <1>9 DEF Read
<1>10. CASE ReadEnds BY <1>10 DEF ReadEnds
<1>11. CASE TakeSignal BY <1>11 DEF TakeSignal, SendsToShell
<1>12. CASE NoticeEnds BY <1>12 DEF NoticeEnds
<1>13. CASE HangUp BY <1>13 DEF HangUp, SendsToShell
<1>14. CASE Poll BY <1>14 DEF Poll, WaitPid
<1>15. CASE Deadline BY <1>15 DEF Deadline
<1>16. CASE Probe
  <2>1. CASE PidExists BY <1>16, <2>1 DEF Probe, Kill, SendsToShell, PidExists
  <2>2. CASE ~PidExists BY <1>16, <2>2 DEF Probe, PidExists
  <2> QED BY <2>1, <2>2
<1>17. CASE Wait
  <2>1. child' = "reaped" BY <1>17 DEF Wait, WaitPid, TypeOK
  <2> QED BY <1>17, <2>1 DEF Wait
<1>18. CASE UNCHANGED vars BY <1>18 DEF vars
<1> QED
  BY <1>1, <1>2, <1>3, <1>4, <1>5, <1>6, <1>7, <1>8, <1>9, <1>10, <1>11, <1>12, <1>13,
     <1>14, <1>15, <1>16, <1>17, <1>18, NextSteps DEF Ending

LEMMA AlwaysEndInv == Spec => []EndInv
<1>1. Init => EndInv BY DEF Init, EndInv
<1>2. EndInv /\ TypeOK /\ [Next]_vars => EndInv' BY EndStep, PtyLoopAssumption
<1> QED BY <1>1, <1>2, PtyTypeCorrect, PTL DEF Spec

\* However the loop was left and whatever the shell ignores, the daemon does
\* not end before its shell has ended and was waited for.
THEOREM ShellIsWaitedFor == Spec => []LeavesNoShell
<1>1. EndInv => LeavesNoShell BY DEF EndInv, LeavesNoShell
<1> QED BY <1>1, AlwaysEndInv, PTL

\* server.rs:637-712: what the loop passes on reaches the shell, which it has not
\* waited for, and so has all that was sent to a shell that must be killed.
THEOREM SignalsReachTheShell == Spec => []StraySignals
<1>1. EndInv => StraySignals BY DEF EndInv, StraySignals
<1> QED BY <1>1, AlwaysEndInv, PTL

-----------------------------------------------------------------------------
(* The size of the window                                                  *)

\* As long as resizes do not overlap one is under way at most, and it has
\* given its size to the PTY.
SizeInv ==
  Open /\ ~overlap =>
    \/ Resizing = {} /\ ptySize = termSize
    \/ \E c \in Clients : Resizing = {c} /\ ptySize = pending[c]

LEMMA SizeStep ==
  ASSUME SizeInv, TypeOK, PtyLoopAssumption, [Next]_vars
  PROVE  SizeInv'
<1> USE DEF SizeInv, Resizing
<1>1. ASSUME UNCHANGED sizeVars, Open' => Open PROVE SizeInv'
  BY <1>1 DEF sizeVars
<1>2. ASSUME NEW c \in Clients, ResizeTerminal(c) PROVE SizeInv'
  <2>1. pending' = [pending EXCEPT ![c] = None] /\ termSize' = pending[c]
        /\ UNCHANGED <<loop, ptySize, overlap>> /\ pending[c] # None
    BY <1>2 DEF ResizeTerminal, loopVars
  <2>2. pending'[c] = None /\ \A d \in Clients \ {c} : pending'[d] = pending[d]
    BY <2>1 DEF TypeOK
  <2>3. Resizing' = Resizing \ {c} /\ c \in Resizing BY <2>1, <2>2
  <2>4. CASE Open' /\ ~overlap'
    <3>1. Open /\ ~overlap BY <2>1, <2>4 DEF Open
    <3>2. Resizing = {c} /\ ptySize = pending[c] BY <2>3, <3>1
    <3> QED BY <2>1, <2>3, <3>2
  <2> QED BY <2>4
<1>3. ASSUME NEW c \in Clients, NEW s \in Sizes \cup {None}, ResizePty(c, s) PROVE SizeInv'
  <2>1. pending' = [pending EXCEPT ![c] = s] /\ pending[c] = None /\ s # None
        /\ ptySize' = (IF Open THEN s ELSE ptySize)
        /\ overlap' = (Resizing # {}) /\ UNCHANGED loop
    BY <1>3 DEF ResizePty, loopVars
  <2>2. pending'[c] = s /\ \A d \in Clients \ {c} : pending'[d] = pending[d]
    BY <2>1 DEF TypeOK
  <2>3. CASE Open' /\ ~overlap'
    <3>1. Open /\ Resizing = {} BY <2>1, <2>3 DEF Open
    <3>2. Resizing' = {c} BY <2>1, <2>2, <3>1
    <3> QED BY <2>1, <2>2, <3>1, <3>2
  <2> QED BY <2>3
<1>4. CASE Session
  <2>1. UNCHANGED <<sizeVars, loop>>
    BY <1>4 DEF Session, Output, ShellReads, JobStarts, ShellEnds, ShellStops, PidReused, LetsGo,
                loopVars
  <2> QED BY <1>1, <2>1 DEF Open
<1>5. ASSUME NEW n \in Nat \ {0}, Enqueue(n) PROVE SizeInv'
  BY <1>1, <1>5 DEF Enqueue, Open, loopVars
<1>6. CASE Inject BY <1>1, <1>6 DEF Inject, Types, Open, loopVars
<1>7. CASE EnterLoop \/ LoopFails \/ Signal \/ TakeChld \/ Read \/ ReadEnds \/ TakeSignal
  <2>1. UNCHANGED sizeVars /\ (Open' => Open)
    BY <1>7 DEF EnterLoop, LoopFails, Signal, TakeChld, Read, ReadEnds, TakeSignal, Open,
                loopVars
  <2> QED BY <1>1, <2>1
<1>8. CASE Ending
  <2>1. UNCHANGED sizeVars /\ (Open' => Open)
    BY <1>8 DEF Ending, NoticeEnds, HangUp, Poll, Deadline, Probe, Wait, Open, loopVars
  <2> QED BY <1>1, <2>1
<1>9. CASE UNCHANGED vars BY <1>1, <1>9 DEF vars, Open, loopVars
<1> QED BY <1>2, <1>3, <1>4, <1>5, <1>6, <1>7, <1>8, <1>9, NextSteps

\* For any number of connections: once the resizes under way have finished and
\* the last did not overlap, the PTY and the terminal have one size.
THEOREM SizesAgreeAtRest == Spec => []SizesAgree
<1>1. Init => SizeInv BY DEF Init, SizeInv, Resizing
<1>2. SizeInv /\ TypeOK /\ [Next]_vars => SizeInv' BY SizeStep, PtyLoopAssumption
<1>3. SizeInv => SizesAgree BY DEF SizeInv, SizesAgree
<1> QED BY <1>1, <1>2, <1>3, PtyTypeCorrect, PTL DEF Spec

-----------------------------------------------------------------------------
(* The input                                                               *)

\* Messages that have been taken from the queue.
Taken == sent - Len(queue)

IsMessage(q, m) == Len(q) >= 1 /\ \A i \in 1..Len(q) : q[i] = <<m, i, Len(q)>>

\* The queue holds the messages sent last, each whole.
QueueInv ==
  /\ Len(queue) <= sent
  /\ \A j \in 1..Len(queue) : IsMessage(queue[j], Taken + j)

\* The last piece typed is of a message taken, and unless one was refused it is
\* the last piece of the last of them.
LastInv ==
  /\ typed # <<>> =>
       /\ typed[Len(typed)][1] <= Taken
       /\ ~overrun => /\ typed[Len(typed)][1] = Taken
                      /\ typed[Len(typed)][2] = typed[Len(typed)][3]
  /\ typed = <<>> /\ ~overrun => Taken = 0

InputInv == QueueInv /\ LastInv /\ InputInOrder

LEMMA SameInput ==
  ASSUME InputInv, UNCHANGED <<queue, sent, typed, overrun>>
  PROVE  InputInv'
BY DEF InputInv, QueueInv, LastInv, InputInOrder, Follows, IsMessage, Taken

LEMMA EnqueueKeepsOrder ==
  ASSUME InputInv, TypeOK, NEW n \in Nat \ {0}, Enqueue(n)
  PROVE  InputInv'
<1> DEFINE q == Message(sent + 1, n)
<1>1. q \in Seq(Pieces) /\ Len(q) = n BY MessageTyped DEF TypeOK
<1>2. IsMessage(q, sent + 1) BY <1>1 DEF IsMessage, Message
<1>3. queue' = Append(queue, q) /\ sent' = sent + 1 /\ UNCHANGED <<typed, overrun>>
  BY DEF Enqueue, Message
<1> HIDE DEF q
<1>4. queue \in Seq(Seq(Pieces)) /\ sent \in Nat BY DEF TypeOK
<1>5. /\ Len(queue') = Len(queue) + 1 /\ queue'[Len(queue) + 1] = q
      /\ \A j \in 1..Len(queue) : queue'[j] = queue[j]
  BY <1>1, <1>3, <1>4, AppendProperties
<1>6. Taken' = Taken BY <1>3, <1>4, <1>5 DEF Taken
<1>7. QueueInv'
  <2>1. Len(queue') <= sent' BY <1>3, <1>4, <1>5 DEF InputInv, QueueInv
  <2>2. ASSUME NEW j \in 1..Len(queue') PROVE IsMessage(queue'[j], Taken + j)
    <3>1. CASE j = Len(queue) + 1
      <4>1. Taken + j = sent + 1 BY <1>4, <3>1 DEF Taken
      <4> QED BY <1>2, <1>5, <3>1, <4>1
    <3>2. CASE j \in 1..Len(queue)
      BY <1>5, <3>2 DEF InputInv, QueueInv
    <3> QED BY <1>4, <1>5, <3>1, <3>2
  <2> QED BY <1>6, <2>1, <2>2 DEF QueueInv, IsMessage
<1>8. LastInv' BY <1>3, <1>6 DEF InputInv, LastInv
<1>9. InputInOrder' BY <1>3 DEF InputInv, InputInOrder, Follows
<1> QED BY <1>7, <1>8, <1>9 DEF InputInv

LEMMA InjectKeepsOrder ==
  ASSUME InputInv, TypeOK, PtyLoopAssumption, Inject
  PROVE  InputInv'
<1> DEFINE q == Head(queue)
           n == Lesser(Len(q), Room - unread)
           s == SubSeq(q, 1, n)
<1>1. queue # <<>> BY DEF Inject
<1>2. q \in Seq(Pieces) /\ n \in 0..Len(q) BY <1>1, TakesRoom
<1>3. s \in Seq(Pieces) /\ Len(s) = n /\ \A i \in 1..n : s[i] = q[i] BY <1>2, FirstPieces
<1>4. /\ typed' = typed \o s /\ queue' = Tail(queue) /\ sent' = sent
      /\ overrun' = (overrun \/ n < Len(q))
  BY DEF Inject, Types
<1>5. queue \in Seq(Seq(Pieces)) /\ sent \in Nat /\ typed \in Seq(Pieces) BY DEF TypeOK
<1>6. q = queue[1] /\ Len(queue) \in Nat \ {0} BY <1>1, <1>5
<1> HIDE DEF n, s, q
<1>7. Len(queue) <= sent /\ \A j \in 1..Len(queue) : IsMessage(queue[j], Taken + j)
  BY DEF InputInv, QueueInv
<1>8. /\ Len(queue') = Len(queue) - 1
      /\ \A j \in 1..Len(queue') : queue'[j] = queue[j + 1]
  BY <1>1, <1>4, <1>5, HeadTailProperties
<1>9. Taken' = Taken + 1 /\ Taken \in Nat
  BY <1>4, <1>5, <1>6, <1>7, <1>8 DEF Taken
<1>10. QueueInv'
  <2>1. Len(queue') <= sent' BY <1>4, <1>5, <1>6, <1>7, <1>8
  <2>2. ASSUME NEW j \in 1..Len(queue') PROVE IsMessage(queue'[j], Taken + 1 + j)
    <3>1. j + 1 \in 1..Len(queue) /\ Taken + (j + 1) = Taken + 1 + j BY <1>6, <1>8, <1>9
    <3>2. IsMessage(queue[j + 1], Taken + (j + 1)) BY <1>7, <3>1
    <3> QED BY <1>8, <3>1, <3>2
  <2> QED BY <1>9, <2>1, <2>2 DEF QueueInv, IsMessage
<1>11. Len(q) >= 1 /\ \A i \in 1..Len(q) : q[i] = <<Taken + 1, i, Len(q)>>
  BY <1>6, <1>7 DEF IsMessage
<1>12. Len(typed) \in Nat /\ (typed = <<>> <=> Len(typed) = 0) /\ Len(q) \in Nat \ {0}
       /\ n \in Nat /\ n <= Len(q)
  BY <1>2, <1>5, <1>11
<1>13. /\ Len(typed') = Len(typed) + n
       /\ \A i \in 1..Len(typed) : typed'[i] = typed[i]
       /\ \A i \in 1..n : typed'[Len(typed) + i] = <<Taken + 1, i, Len(q)>>
  <2>1. Len(typed') = Len(typed) + n BY <1>3, <1>4, <1>5, ConcatProperties
  <2>2. ASSUME NEW i \in 1..Len(typed) PROVE typed'[i] = typed[i]
    BY <1>3, <1>4, <1>5, <1>12
  <2>3. ASSUME NEW i \in 1..n PROVE typed'[Len(typed) + i] = <<Taken + 1, i, Len(q)>>
    <3>1. typed'[Len(typed) + i] = s[i] BY <1>3, <1>4, <1>5, <1>12
    <3>2. i \in 1..Len(q) BY <1>12
    <3> QED BY <1>3, <1>11, <3>1, <3>2
  <2> QED BY <2>1, <2>2, <2>3
<1>14. typed' = <<>> <=> Len(typed') = 0
  <2>1. typed' \in Seq(Pieces) BY <1>3, <1>4, <1>5
  <2> QED BY <2>1
<1>15. LastInv'
  <2>1. CASE n = 0
    <3>1. overrun'
      <4>1. n < Len(q) BY <1>12, <2>1
      <4> QED BY <1>4, <4>1, Zenon
    <3>2. typed' # <<>> => typed # <<>> /\ typed'[Len(typed')] = typed[Len(typed)]
      BY <1>12, <1>13, <1>14, <2>1
    <3>3. typed # <<>> => typed[Len(typed)][1] \in Nat BY <1>5, <1>13 DEF Pieces
    <3> QED BY <1>9, <3>1, <3>2, <3>3 DEF InputInv, LastInv
  <2>2. CASE n # 0
    <3>1. typed'[Len(typed')] = <<Taken + 1, n, Len(q)>> /\ typed' # <<>>
      BY <1>12, <1>13, <1>14, <2>2
    <3>2. ~overrun' => n = Len(q)
      <4>1. ~overrun' => ~(n < Len(q)) BY <1>4, Zenon
      <4> QED BY <1>12, <4>1
    <3> QED BY <1>9, <3>1, <3>2 DEF LastInv
  <2> QED BY <2>1, <2>2
<1>16. InputInOrder'
  <2>1. typed' # <<>> => typed'[1][2] = 1 /\ (~overrun' => typed'[1][1] = 1)
    <3>1. CASE typed # <<>>
      <4>1. typed'[1] = typed[1] BY <1>12, <1>13, <3>1
      <4> QED BY <1>4, <3>1, <4>1 DEF InputInv, InputInOrder
    <3>2. CASE typed = <<>>
      <4>1. typed' # <<>> => typed'[1] = <<Taken + 1, 1, Len(q)>>
        BY <1>12, <1>13, <1>14, <3>2
      <4>2. ~overrun' => Taken = 0 BY <1>4, <3>2 DEF InputInv, LastInv
      <4> QED BY <1>9, <4>1, <4>2
    <3> QED BY <3>1, <3>2
  <2>2. ASSUME NEW i \in 1..(Len(typed') - 1) PROVE Follows(typed[i], typed[i + 1])'
    <3>1. CASE i < Len(typed)
      <4>1. i \in 1..(Len(typed) - 1) /\ typed'[i] = typed[i] /\ typed'[i + 1] = typed[i + 1]
        BY <1>12, <1>13, <3>1
      <4>2. Follows(typed[i], typed[i + 1]) BY <4>1 DEF InputInv, InputInOrder
      <4> QED BY <1>4, <4>1, <4>2 DEF Follows
    <3>2. CASE i = Len(typed)
      <4>1. typed # <<>> /\ n >= 1 BY <1>12, <1>13, <3>2
      <4>2. typed'[i] = typed[Len(typed)] /\ typed'[i + 1] = <<Taken + 1, 1, Len(q)>>
        BY <1>12, <1>13, <3>2, <4>1
      <4>3. typed[Len(typed)][1] \in Nat BY <1>5, <1>12, <4>1 DEF Pieces
      <4>4. /\ typed[Len(typed)][1] <= Taken
            /\ ~overrun => /\ typed[Len(typed)][1] = Taken
                           /\ typed[Len(typed)][2] = typed[Len(typed)][3]
        BY <4>1 DEF InputInv, LastInv
      <4> DEFINE a == typed[Len(typed)]
      <4>5. Taken + 1 > a[1] BY <1>9, <4>3, <4>4
      <4> HIDE DEF a
      <4>6. \A z : z = <<Taken + 1, 1, Len(q)>> => z[1] = Taken + 1 /\ z[2] = 1 OBVIOUS
      <4>7. typed'[i] = a /\ typed'[i + 1][1] = Taken + 1 /\ typed'[i + 1][2] = 1
        BY <4>2, <4>6 DEF a
      <4>8. ~overrun' => a[1] = Taken /\ a[2] = a[3] BY <1>4, <4>4 DEF a
      <4> QED BY <4>5, <4>7, <4>8 DEF Follows
    <3>3. CASE i > Len(typed)
      <4> DEFINE k == i - Len(typed)
      <4>0. i \in Nat /\ i > Len(typed) /\ i + 1 <= Len(typed) + n BY <1>12, <1>13, <3>3
      <4>1. k \in 1..n /\ i = Len(typed) + k /\ k + 1 \in 1..n BY <1>12, <4>0
      <4> HIDE DEF k
      <4>2. typed'[i] = <<Taken + 1, k, Len(q)>> /\ typed'[i + 1] = <<Taken + 1, k + 1, Len(q)>>
        <5>1. i + 1 = Len(typed) + (k + 1) BY <1>12, <4>1
        <5> QED BY <1>13, <4>1, <5>1
      <4> QED BY <4>2 DEF Follows
    <3> QED BY <1>12, <1>13, <3>1, <3>2, <3>3
  <2> QED BY <2>1, <2>2 DEF InputInOrder
<1> QED BY <1>10, <1>15, <1>16 DEF InputInv

LEMMA InputStep ==
  ASSUME InputInv, TypeOK, PtyLoopAssumption, [Next]_vars
  PROVE  InputInv'
<1>1. CASE Session
  <2>1. UNCHANGED <<queue, sent, typed, overrun>>
    BY <1>1 DEF Session, Output, ShellReads, JobStarts, ShellEnds, ShellStops, PidReused, LetsGo,
                inputVars
  <2> QED BY <2>1, SameInput
<1>2. ASSUME NEW n \in Nat \ {0}, Enqueue(n) PROVE InputInv' BY <1>2, EnqueueKeepsOrder
<1>3. ASSUME NEW c \in Clients,
             ResizeTerminal(c) \/ \E s \in Sizes \cup {None} : ResizePty(c, s)
      PROVE  InputInv'
  <2>1. UNCHANGED <<queue, sent, typed, overrun>>
    BY <1>3 DEF ResizeTerminal, ResizePty, inputVars
  <2> QED BY <2>1, SameInput
<1>4. CASE Inject BY <1>4, InjectKeepsOrder
<1>5. CASE \/ EnterLoop \/ LoopFails \/ Signal
          \/ TakeChld \/ Read \/ ReadEnds \/ TakeSignal \/ Ending
  <2>1. UNCHANGED <<queue, sent, typed, overrun>>
    BY <1>5 DEF EnterLoop, LoopFails, Signal, TakeChld, Read, ReadEnds, TakeSignal, Ending, NoticeEnds,
                HangUp, Poll, Deadline, Probe, Wait, inputVars
  <2> QED BY <2>1, SameInput
<1>6. CASE UNCHANGED vars
  BY <1>6, SameInput DEF vars, inputVars
<1> QED BY <1>1, <1>2, <1>3, <1>4, <1>5, <1>6, NextSteps

LEMMA InputInvariance == Spec => []InputInv
<1>1. Init => InputInv
  <2> SUFFICES ASSUME Init PROVE InputInv OBVIOUS
  <2>2. queue = <<>> /\ typed = <<>> /\ sent = 0 /\ ~overrun BY DEF Init
  <2>3. sent = 0 /\ Len(queue) = 0 /\ Len(typed) = 0 BY <2>2
  <2>4. Taken = 0 BY <2>3 DEF Taken
  <2>5. QueueInv BY <2>2, <2>3 DEF QueueInv
  <2>6. LastInv BY <2>2, <2>4 DEF LastInv
  <2>7. InputInOrder BY <2>2, <2>3 DEF InputInOrder
  <2> QED BY <2>5, <2>6, <2>7 DEF InputInv
<1>2. InputInv /\ TypeOK /\ [Next]_vars => InputInv' BY InputStep, PtyLoopAssumption
<1> QED BY <1>1, <1>2, PtyTypeCorrect, PTL DEF Spec

\* server.rs:664-667: for any number of messages, of any form, and any room, the
\* shell's input is the messages in the order they were queued, none torn, and whole
\* with room.
THEOREM InputArrivesInOrder == Spec => []InputInOrder
<1>1. InputInv => InputInOrder BY DEF InputInv
<1> QED BY <1>1, InputInvariance, PTL

\* server.rs:664-667: what was queued has been typed, to its end, once the queue is
\* empty, for any room that was enough.
THEOREM InputIsComplete == Spec => []InputComplete
<1>1. InputInv /\ TypeOK => InputComplete
  <2> SUFFICES ASSUME InputInv, TypeOK, queue = <<>>, ~overrun
               PROVE IF typed = <<>> THEN sent = 0
                     ELSE typed[Len(typed)][1] = sent /\ typed[Len(typed)][2] = typed[Len(typed)][3]
    BY DEF InputComplete
  <2>1. Len(queue) = 0 /\ sent \in Nat BY DEF TypeOK
  <2>2. Taken = sent BY <2>1 DEF Taken
  <2> QED BY <2>2 DEF InputInv, LastInv
<1> QED BY <1>1, InputInvariance, PtyTypeCorrect, PTL
=============================================================================
