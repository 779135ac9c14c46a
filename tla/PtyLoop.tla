------------------------------- MODULE PtyLoop -------------------------------
(***************************************************************************)
(* The daemon's side of the PTY: what clients send to the shell, the size  *)
(* of its window, and the end of the session.  One event loop owns the     *)
(* PTY's master and the shell, its child.  The handlers of connections run *)
(* beside it on other threads: they queue input for the loop, and resize   *)
(* the PTY and the terminal themselves.                                    *)
(*                                                                         *)
(* Input is counted in pieces: what `write` was given, the two ends of a   *)
(* bracketed paste and the newline of Enter.  <<m, i, n>> is piece i of    *)
(* the n pieces of the m-th message that was queued.  Output is counted in *)
(* writes.                                                                 *)
(***************************************************************************)
EXTENDS Naturals, Sequences

CONSTANTS
  Clients,      \* connections that send Resize requests
  Sizes,        \* window sizes, none with a zero
  InitialSize,  \* 24 rows and 80 columns
  None,         \* no size; a request with a zero in it
  Forms,        \* forms of `write`: in a bracketed paste or not, with Enter or not
  Room,         \* pieces the PTY takes from the daemon before the shell reads
  MaxMessages,  \* bound on the input
  MaxOutput     \* bound on the output

ASSUME PtyLoopAssumption ==
  /\ InitialSize \in Sizes /\ None \notin Sizes
  /\ Forms \subseteq [bracketed : BOOLEAN, enter : BOOLEAN]
  /\ Room \in Nat /\ MaxMessages \in Nat /\ MaxOutput \in Nat

VARIABLES
  loop,       \* where the daemon's main task is
  child,      \* the shell: it runs, has exited, or has been waited for
  holders,    \* who has the PTY's slave open: the shell, a job it left behind
  killed,     \* SIGKILL was sent to the shell
  chld,       \* sig_chld has something to receive
  asked,      \* sig_term, sig_int or sig_hup has something to receive
  reused,     \* the pid of the shell, which was waited for, is another process's
  stray,      \* (history) signals to end it that were sent to the pid of a shell
              \* that had been waited for
  written,    \* writes of the shell and its jobs to the PTY
  shown,      \* those the loop has read, processed and broadcast
  queue,      \* the channel inject_tx, inject_rx
  sent,       \* (history) how many messages were sent to it
  typed,      \* (history) the pieces the PTY has taken
  unread,     \* how many of them the shell has not read
  overrun,    \* (history) the PTY has refused a piece
  pending,    \* pending[c]: the size the handler of c has given the PTY only, or None
  ptySize,    \* the window size of the PTY
  termSize,   \* the size of the terminal
  overlap     \* (history) the last resizes overlapped

loopVars == <<loop, chld, asked>>
shellVars == <<child, holders, killed, reused, stray>>
outputVars == <<written, shown>>
inputVars == <<queue, sent, typed, unread, overrun>>
sizeVars == <<pending, ptySize, termSize, overlap>>
vars == <<loopVars, shellVars, outputVars, inputVars, sizeVars>>

Stages == {"forked", "select", "notice", "hangup", "reap", "probe", "wait", "done", "dead"}

\* The master is open: `drop(async_master)` is part of HangUp.
Open == loop \in {"forked", "select", "notice", "hangup"}

Lives == loop \notin {"done", "dead"}

Pieces == Nat \X Nat \X Nat

\* The variables have their types; the PTY holds no more than it has room for,
\* and the window never gets a size with a zero.
TypeOK ==
  /\ loop \in Stages
  /\ child \in {"running", "zombie", "reaped"}
  /\ holders \subseteq {"shell", "job"}
  /\ killed \in BOOLEAN /\ chld \in BOOLEAN /\ asked \in BOOLEAN /\ reused \in BOOLEAN
  /\ stray \subseteq {"INT", "HUP", "TERM", "KILL"}
  /\ written \in Nat /\ shown \in 0..written
  /\ sent \in Nat
  /\ queue \in Seq(Seq(Pieces)) /\ typed \in Seq(Pieces)
  /\ unread \in 0..Room /\ unread <= Len(typed)
  /\ overrun \in BOOLEAN
  /\ pending \in [Clients -> Sizes \cup {None}]
  /\ ptySize \in Sizes /\ termSize \in Sizes
  /\ overlap \in BOOLEAN

\* The shell was forked; the handlers of connections have run for a while.
Init ==
  /\ loop = "forked" /\ chld = FALSE /\ asked = FALSE
  /\ child = "running" /\ holders = {"shell"} /\ killed = FALSE
  /\ reused = FALSE /\ stray = {}
  /\ written = 0 /\ shown = 0
  /\ queue = <<>> /\ sent = 0 /\ typed = <<>> /\ unread = 0 /\ overrun = FALSE
  /\ pending = [c \in Clients |-> None]
  /\ ptySize = InitialSize /\ termSize = InitialSize /\ overlap = FALSE

-----------------------------------------------------------------------------
(* The programs in the session                                             *)

\* The shell or a job writes to the PTY.
Output ==
  /\ Open /\ holders # {} /\ written < MaxOutput
  /\ written' = written + 1
  /\ UNCHANGED <<loopVars, shellVars, shown, inputVars, sizeVars>>

\* The shell reads its input; nothing obliges it to.
ShellReads ==
  /\ Open /\ child = "running" /\ "shell" \in holders
  /\ \E n \in 1..unread : unread' = unread - n
  /\ UNCHANGED <<loopVars, shellVars, outputVars, queue, sent, typed, overrun, sizeVars>>

JobStarts ==
  /\ Open /\ child = "running" /\ "shell" \in holders
  /\ holders' = holders \cup {"job"}
  /\ UNCHANGED <<loopVars, child, killed, reused, stray, outputVars, inputVars, sizeVars>>

\* A job ends, or a process closes the terminal and goes on.
LetsGo(p) ==
  /\ p \in holders
  /\ holders' = holders \ {p}
  /\ UNCHANGED <<loopVars, child, killed, reused, stray, outputVars, inputVars, sizeVars>>

\* SIGCHLD; before the handler is installed it is lost, and after the loop
\* nobody receives it.
Raised == chld' = (chld \/ loop = "select")

\* The shell exits, by itself or for a signal.  SIGKILL it cannot ignore.
ShellEnds ==
  /\ child = "running" /\ Lives
  /\ child' = "zombie"
  /\ holders' = holders \ {"shell"}
  /\ Raised
  /\ UNCHANGED <<loop, asked, killed, reused, stray, outputVars, inputVars, sizeVars>>

\* The shell is stopped or continued: SIGCHLD too.
ShellStops ==
  /\ child = "running" /\ loop = "select"
  /\ Raised
  /\ UNCHANGED <<loop, asked, shellVars, outputVars, inputVars, sizeVars>>

\* Another process gets the pid of a shell that was waited for.
PidReused ==
  /\ child = "reaped" /\ ~reused /\ Lives
  /\ reused' = TRUE
  /\ UNCHANGED <<loopVars, child, holders, killed, stray, outputVars, inputVars, sizeVars>>

-----------------------------------------------------------------------------
(* The handlers of connections                                             *)

\* inject_tx.send: it fails, unnoticed, when the loop has returned.
Enqueue(n) ==
  /\ Lives /\ sent < MaxMessages
  /\ sent' = sent + 1
  /\ queue' = Append(queue, [i \in 1..n |-> <<sent + 1, i, n>>])
  /\ UNCHANGED <<loopVars, shellVars, outputVars, typed, unread, overrun, sizeVars>>

\* Write: the text, with all that its form adds, is one message; "sent" is
\* answered before the shell gets any of it.
Write(f) == Enqueue(1 + (IF f.bracketed THEN 2 ELSE 0) + (IF f.enter THEN 1 ELSE 0))

\* What the user of an attached client types, as far as one read goes.
AttachInput == Enqueue(1)

Resizing == {c \in Clients : pending[c] # None}

\* Mutant: a size with a zero is not turned down.
ResizePtyToAny(c, s) ==
  /\ pending[c] = None /\ Lives
  /\ pending' = [pending EXCEPT ![c] = s]
  /\ ptySize' = IF Open THEN s ELSE ptySize
  /\ overlap' = (Resizing # {})
  /\ UNCHANGED <<loopVars, shellVars, outputVars, inputVars, termSize>>

\* The first half of resize_pty sets the window size of the PTY.
ResizePty(c, s) ==
  /\ pending[c] = None /\ Lives
  /\ s # None
  /\ pending' = [pending EXCEPT ![c] = s]
  /\ ptySize' = IF Open THEN s ELSE ptySize
  /\ overlap' = (Resizing # {})
  /\ UNCHANGED <<loopVars, shellVars, outputVars, inputVars, termSize>>

\* Mutant: nothing but the PTY is resized before the shell is known.
ResizeTerminalOfShell(c) ==
  /\ pending[c] # None /\ Lives
  /\ termSize' = IF loop = "forked" THEN termSize ELSE pending[c]
  /\ pending' = [pending EXCEPT ![c] = None]
  /\ UNCHANGED <<loopVars, shellVars, outputVars, inputVars, ptySize, overlap>>

\* The second half sets the size of the terminal, and sends SIGWINCH.
ResizeTerminal(c) ==
  /\ pending[c] # None /\ Lives
  /\ termSize' = pending[c]
  /\ pending' = [pending EXCEPT ![c] = None]
  /\ UNCHANGED <<loopVars, shellVars, outputVars, inputVars, ptySize, overlap>>

-----------------------------------------------------------------------------
(* run_pty_event_loop                                                      *)

\* AsyncFd::new or signal() fails: the daemon returns and leaves its shell alone.
LoopFails ==
  /\ loop = "forked"
  /\ loop' = "dead"
  /\ UNCHANGED <<chld, asked, shellVars, outputVars, inputVars, sizeVars>>

\* The handlers of signals are installed and the loop begins.
EnterLoop ==
  /\ loop = "forked"
  /\ loop' = "select"
  /\ UNCHANGED <<chld, asked, shellVars, outputVars, inputVars, sizeVars>>

\* SIGTERM, SIGINT or SIGHUP; without a handler it ends the daemon.
Signal ==
  /\ loop \in {"forked", "select"} /\ ~asked
  /\ IF loop = "forked"
     THEN loop' = "dead" /\ UNCHANGED asked
     ELSE asked' = TRUE /\ UNCHANGED loop
  /\ UNCHANGED <<chld, shellVars, outputVars, inputVars, sizeVars>>

\* waitpid(child, WNOHANG): a zombie has been waited for then.
WaitPid == child' = (IF child = "zombie" THEN "reaped" ELSE child)

\* Signals for the shell, and its group, go to its pid.
SendsToShell(signals) ==
  stray' = IF child = "reaped" THEN stray \cup signals ELSE stray

\* Mutant: the loop goes on after the shell was waited for.
TakeChldGoesOn ==
  /\ loop = "select" /\ chld
  /\ chld' = FALSE
  /\ WaitPid
  /\ UNCHANGED <<loop, asked, holders, killed, reused, stray, outputVars, inputVars, sizeVars>>

\* sig_chld.recv(): the loop ends if the shell has exited.
TakeChld ==
  /\ loop = "select" /\ chld
  /\ chld' = FALSE
  /\ WaitPid
  /\ loop' = IF child = "zombie" THEN "hangup" ELSE loop
  /\ UNCHANGED <<asked, holders, killed, reused, stray, outputVars, inputVars, sizeVars>>

\* One read takes what has been written, or a part of it.
Read ==
  /\ loop = "select"
  /\ \E n \in (shown + 1)..written : shown' = n
  /\ UNCHANGED <<loopVars, shellVars, written, inputVars, sizeVars>>

\* Nobody has the slave open and all was read: EIO, or 0 bytes.
ReadEnds ==
  /\ loop = "select" /\ shown = written /\ holders = {}
  /\ loop' = "hangup"
  /\ UNCHANGED <<chld, asked, shellVars, outputVars, inputVars, sizeVars>>

Lesser(m, n) == IF m < n THEN m ELSE n

\* The PTY takes the first n pieces of a message.
Types(message, n) ==
  /\ typed' = typed \o SubSeq(message, 1, n)
  /\ unread' = unread + n
  /\ overrun' = (overrun \/ n < Len(message))
  /\ UNCHANGED <<sent, loopVars, shellVars, outputVars, sizeVars>>

\* Mutant: what the PTY does not take is queued again.
InjectAgain ==
  /\ loop = "select" /\ queue # <<>>
  /\ LET n == Lesser(Len(Head(queue)), Room - unread)
         rest == SubSeq(Head(queue), n + 1, Len(Head(queue)))
     IN  /\ Types(Head(queue), n)
         /\ queue' = IF rest = <<>> THEN Tail(queue) ELSE Append(Tail(queue), rest)

\* Mutant: a loop that empties the queue and types one message of it.
InjectOne ==
  /\ loop = "select" /\ queue # <<>>
  /\ Types(Head(queue), Lesser(Len(Head(queue)), Room - unread))
  /\ queue' = <<>>

\* Mutant: a message waits until the PTY takes it whole.
InjectWhole ==
  /\ loop = "select" /\ queue # <<>>
  /\ Len(Head(queue)) <= Room - unread
  /\ Types(Head(queue), Len(Head(queue)))
  /\ queue' = Tail(queue)

\* inject_rx.recv() and one write, which does not wait and whose result is
\* ignored: what the PTY does not take is dropped.
Inject ==
  /\ loop = "select" /\ queue # <<>>
  /\ Types(Head(queue), Lesser(Len(Head(queue)), Room - unread))
  /\ queue' = Tail(queue)

\* forward_signal_and_notify, up to its sleep: the signal is passed on to the
\* shell.  Nothing more is read or typed.
TakeSignal ==
  /\ loop = "select" /\ asked
  /\ loop' = "notice" /\ asked' = FALSE
  /\ \E signal \in {"INT", "HUP", "TERM"} : SendsToShell({signal})
  /\ UNCHANGED <<chld, child, holders, killed, reused, outputVars, inputVars, sizeVars>>

NoticeEnds ==
  /\ loop = "notice"
  /\ loop' = "hangup"
  /\ UNCHANGED <<chld, asked, shellVars, outputVars, inputVars, sizeVars>>

\* SIGHUP and SIGTERM to the shell's group and the shell; drop(async_master).
HangUp ==
  /\ loop = "hangup"
  /\ loop' = "reap"
  /\ SendsToShell({"HUP", "TERM"})
  /\ UNCHANGED <<chld, asked, child, holders, killed, reused, outputVars, inputVars, sizeVars>>

\* waitpid(child, WNOHANG) every 20 ms.
Poll ==
  /\ loop = "reap" /\ child = "zombie"
  /\ WaitPid
  /\ loop' = "probe"
  /\ UNCHANGED <<chld, asked, holders, killed, reused, stray, outputVars, inputVars, sizeVars>>

\* 200 ms have passed without a child to wait for.
Deadline ==
  /\ loop = "reap"
  /\ loop' = "probe"
  /\ UNCHANGED <<chld, asked, shellVars, outputVars, inputVars, sizeVars>>

\* Mutant: the shell is taken for dead when its time is up.
ProbeNothing ==
  /\ loop = "probe"
  /\ loop' = "done"
  /\ UNCHANGED <<chld, asked, shellVars, outputVars, inputVars, sizeVars>>

\* kill(pid, 0) finds the shell until it was waited for.
PidExists == child # "reaped" \/ reused

\* Mutant: the shell is asked once more instead of being killed.
KillPolitely ==
  /\ SendsToShell({"TERM"})
  /\ UNCHANGED <<child, holders, killed, reused>>

\* SIGKILL to the shell's group and the shell.
Kill ==
  /\ killed' = (killed \/ child # "reaped")
  /\ SendsToShell({"KILL"})
  /\ UNCHANGED <<child, holders, reused>>

Probe ==
  /\ loop = "probe"
  /\ IF PidExists THEN Kill /\ loop' = "wait"
                  ELSE loop' = "done" /\ UNCHANGED shellVars
  /\ UNCHANGED <<chld, asked, outputVars, inputVars, sizeVars>>

\* waitpid(child) blocks while the shell runs, and fails for a pid that is
\* not, or no longer, a child's.
Wait ==
  /\ loop = "wait" /\ child # "running"
  /\ WaitPid
  /\ loop' = "done"
  /\ UNCHANGED <<chld, asked, holders, killed, reused, stray, outputVars, inputVars, sizeVars>>

-----------------------------------------------------------------------------
Session ==
  \/ Output \/ ShellReads \/ JobStarts \/ ShellEnds \/ ShellStops \/ PidReused
  \/ \E p \in {"shell", "job"} : LetsGo(p)

Connections ==
  \/ \E f \in Forms : Write(f)
  \/ AttachInput
  \/ \E c \in Clients : ResizeTerminal(c) \/ \E s \in Sizes \cup {None} : ResizePty(c, s)

Branch == TakeChld \/ Read \/ ReadEnds \/ Inject \/ TakeSignal

Ending == NoticeEnds \/ HangUp \/ Poll \/ Deadline \/ Probe \/ Wait

Next == Session \/ Connections \/ EnterLoop \/ LoopFails \/ Signal \/ Branch \/ Ending

Spec == Init /\ [][Next]_vars

\* The runtime polls the loop; select! takes ready branches at random and so
\* leaves none out for ever.  The kernel ends a shell that gets SIGKILL.
FairSpec ==
  /\ Spec
  /\ WF_vars(EnterLoop) /\ WF_vars(Ending)
  /\ WF_vars(TakeChld) /\ WF_vars(Read) /\ WF_vars(ReadEnds)
  /\ WF_vars(Inject) /\ WF_vars(TakeSignal)
  /\ WF_vars(killed /\ ShellEnds)

-----------------------------------------------------------------------------
(* Properties                                                              *)

\* The piece b can follow a: it is the next one of the same message, or the
\* first of a later one, which is the next one if the PTY never refused any.
Follows(a, b) ==
  \/ b[1] = a[1] /\ b[2] = a[2] + 1
  \/ b[1] > a[1] /\ b[2] = 1 /\ (~overrun => b[1] = a[1] + 1 /\ a[2] = a[3])

\* Whatever clients write at the same time and however slowly the shell reads,
\* its input is the messages in the order they were queued, none torn apart by
\* another one; it is all of them, whole, as long as the PTY has room.
InputInOrder ==
  /\ typed # <<>> => typed[1][2] = 1 /\ (~overrun => typed[1][1] = 1)
  /\ \A i \in 1..(Len(typed) - 1) : Follows(typed[i], typed[i + 1])

\* What is queued is typed: when the queue is empty the last piece of the last
\* message has been typed, unless the PTY has refused a piece.
InputComplete ==
  queue = <<>> /\ ~overrun =>
    IF typed = <<>> THEN sent = 0
    ELSE LET last == typed[Len(typed)] IN last[1] = sent /\ last[2] = last[3]

\* A shell that does not read holds up neither the loop nor other clients:
\* what is queued while the loop runs is taken from the queue.
InputIsTaken ==
  (loop = "select" /\ queue # <<>>) ~> (loop # "select" \/ queue = <<>>)

\* When no resize is under way the PTY and the terminal have the same size,
\* unless the last resizes overlapped or the PTY was closed.
SizesAgree ==
  Resizing = {} /\ ~overlap /\ Open => ptySize = termSize

\* The daemon ends only when its shell has ended and was waited for, whatever
\* signals the shell ignores and whichever way the loop was left.
LeavesNoShell == loop = "done" => child = "reaped"

\* No signal for the shell misses it as long as the loop runs and while it tells
\* its clients of a signal it passed on (server.rs:616); and a shell that must be
\* killed has been sent SIGHUP and SIGTERM, none of which missed it (server.rs:711).
StraySignals == loop \in {"select", "notice"} \/ killed => stray = {}

\* A session whose shell has exited, that nobody has open or that was asked to
\* end, ends.  (SIGCHLD must have been seen, or no job have the terminal open.)
SessionEnds ==
  (loop = "select" /\ (asked \/ holders = {} \/ (chld /\ child = "zombie"))) ~> loop = "done"
=============================================================================
