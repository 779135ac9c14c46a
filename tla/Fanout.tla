------------------------------- MODULE Fanout -------------------------------
(***************************************************************************)
(* How the output of one session reaches its clients.  The PTY event loop  *)
(* feeds each chunk it reads to the terminal and then to a bounded         *)
(* broadcast channel; one task per connection writes a snapshot of the     *)
(* terminal to its client and forwards what it receives from the channel.  *)
(*                                                                         *)
(* Chunks are numbered in the order the shell wrote them, so chunk k is    *)
(* also the k-th message of the channel; the notice a signal sends is one  *)
(* message more.  A snapshot stands for the chunks the terminal had        *)
(* processed when it was taken.                                            *)
(***************************************************************************)
EXTENDS Naturals, Sequences, FiniteSets

CONSTANTS
  Attachers,  \* connections that send Attach
  Watchers,   \* connections that send Subscribe
  Capacity,   \* messages the broadcast channel keeps (1024)
  SockBuf,    \* writes a client's socket holds before it has to read
  MaxChunks   \* bound on what the shell writes

Conns == Attachers \cup Watchers

ASSUME FanoutAssumption ==
  /\ Attachers \cap Watchers = {} /\ IsFiniteSet(Attachers)
  /\ Capacity \in Nat \ {0}
  /\ SockBuf \in Nat \ {0}
  /\ MaxChunks \in Nat

VARIABLES
  produced,   \* chunks the shell has written to the PTY
  processed,  \* chunks the terminal has processed
  sent,       \* messages sent to the channel
  over,       \* the PTY event loop has ended
  exited,     \* the daemon process has exited
  clients,    \* SessionSharedState.clients
  pc,         \* where the task of a connection is
  snap,       \* what the snapshot of a connection stands for
  next,       \* the next message its receiver will get; 0 before subscribe
  log,        \* the messages written to the client, after the snapshot
  wrote,      \* completed writes to the client, the snapshot included
  read,       \* how many of them the client has read
  hungUp      \* the client has closed its end

loopVars == <<produced, processed, sent, over, exited>>
taskVars == <<clients, pc, snap, next, log, wrote>>
clientVars == <<read, hungUp>>
vars == <<loopVars, taskVars, clientVars>>

Steps == {"start", "subscribe", "snapshot", "initial", "receive", "forward", "closed"}

TypeOK ==
  /\ produced \in 0..MaxChunks /\ processed \in Nat /\ sent \in Nat
  /\ over \in BOOLEAN /\ exited \in BOOLEAN
  /\ clients \in Nat
  /\ pc \in [Conns -> Steps]
  /\ snap \in [Conns -> Nat]
  /\ next \in [Conns -> Nat]
  /\ log \in [Conns -> Seq(Nat)]
  /\ wrote \in [Conns -> Nat]
  /\ read \in [Conns -> Nat]
  /\ hungUp \in [Conns -> BOOLEAN]

Init ==
  /\ produced = 0 /\ processed = 0 /\ sent = 0
  /\ over = FALSE /\ exited = FALSE
  /\ clients = 0
  /\ pc = [c \in Conns |-> "start"]
  /\ snap = [c \in Conns |-> 0]
  /\ next = [c \in Conns |-> 0]
  /\ log = [c \in Conns |-> <<>>]
  /\ wrote = [c \in Conns |-> 0]
  /\ read = [c \in Conns |-> 0]
  /\ hungUp = [c \in Conns |-> FALSE]

-----------------------------------------------------------------------------
(* The PTY event loop                                                      *)

Produce ==
  /\ produced < MaxChunks /\ ~over
  /\ produced' = produced + 1
  /\ UNCHANGED <<processed, sent, over, exited, taskVars, clientVars>>

\* Mutant: a loop that reads on and sends the chunks together.
ProcessAhead ==
  /\ ~over /\ processed < produced
  /\ processed' = processed + 1
  /\ UNCHANGED <<produced, sent, over, exited, taskVars, clientVars>>

\* terminal.process: the loop is back in select, so the last chunk was sent.
Process ==
  /\ ~over /\ processed < produced /\ sent = processed
  /\ processed' = processed + 1
  /\ UNCHANGED <<produced, sent, over, exited, taskVars, clientVars>>

\* Mutant: a channel that makes its sender wait for the slowest receiver.
SendWhenAllReceived ==
  /\ ~over /\ sent < processed
  /\ \A c \in Conns : pc[c] \in {"receive", "forward"} => next[c] + Capacity > sent + 1
  /\ sent' = sent + 1
  /\ UNCHANGED <<produced, processed, over, exited, taskVars, clientVars>>

\* broadcast_tx.send never waits.
Send ==
  /\ ~over /\ sent < processed
  /\ sent' = sent + 1
  /\ UNCHANGED <<produced, processed, over, exited, taskVars, clientVars>>

\* SIGCHLD, end of file or an error on the PTY ends the loop, and so does a
\* signal after its notice was sent.  Output not yet read is dropped.
EndLoop ==
  /\ ~over /\ sent = processed
  /\ over' = TRUE
  /\ sent' \in {sent, sent + 1}
  /\ UNCHANGED <<produced, processed, exited, taskVars, clientVars>>

\* The process exits and its tasks with it.
Exit ==
  /\ over /\ ~exited
  /\ exited' = TRUE
  /\ pc' = [c \in Conns |-> "closed"]
  /\ clients' = 0
  /\ UNCHANGED <<produced, processed, sent, over, snap, next, log, wrote, clientVars>>

-----------------------------------------------------------------------------
(* The task of a connection                                                *)

Goto(c, p) == pc' = [pc EXCEPT ![c] = p]

\* Mutant: every task that returns lowers the count.
CloseUncounting(c) ==
  /\ Goto(c, "closed")
  /\ clients' = clients - 1
  /\ UNCHANGED <<snap, next, log, wrote>>

\* The task returns; the ClientGuard of an attach is dropped.
Close(c) ==
  /\ Goto(c, "closed")
  /\ clients' = IF c \in Attachers THEN clients - 1 ELSE clients
  /\ UNCHANGED <<snap, next, log, wrote>>

\* A write that fits in the socket of a client that is still there.
Write(c) ==
  /\ ~hungUp[c] /\ wrote[c] < read[c] + SockBuf
  /\ wrote' = [wrote EXCEPT ![c] = @ + 1]

Attach(c) ==
  /\ c \in Attachers /\ pc[c] = "start" /\ ~exited
  /\ clients' = clients + 1
  /\ Goto(c, "snapshot")
  /\ UNCHANGED <<snap, next, log, wrote, loopVars, clientVars>>

\* Mutant: a receiver that starts with the oldest message kept.
SubscribeFromOldest(c) ==
  /\ ~exited
  /\ \/ c \in Watchers /\ pc[c] = "start" /\ Goto(c, "snapshot")
     \/ c \in Attachers /\ pc[c] = "subscribe" /\ Goto(c, "receive")
  /\ next' = [next EXCEPT ![c] = IF sent < Capacity THEN 1 ELSE sent - Capacity + 1]
  /\ UNCHANGED <<clients, snap, log, wrote, loopVars, clientVars>>

\* Subscribe takes its receiver first, Attach after the snapshot was written.
Subscribe(c) ==
  /\ ~exited
  /\ \/ c \in Watchers /\ pc[c] = "start" /\ Goto(c, "snapshot")
     \/ c \in Attachers /\ pc[c] = "subscribe" /\ Goto(c, "receive")
  /\ next' = [next EXCEPT ![c] = sent + 1]
  /\ UNCHANGED <<clients, snap, log, wrote, loopVars, clientVars>>

\* terminal.redraw_payload or terminal.read
TakeSnapshot(c) ==
  /\ pc[c] = "snapshot"
  /\ snap' = [snap EXCEPT ![c] = processed]
  /\ Goto(c, "initial")
  /\ UNCHANGED <<clients, next, log, wrote, loopVars, clientVars>>

\* Mutant: a watch that renews its receiver once the snapshot is written.
WriteInitialResubscribing(c) ==
  /\ pc[c] = "initial"
  /\ Write(c)
  /\ next' = [next EXCEPT ![c] = IF c \in Watchers THEN sent + 1 ELSE @]
  /\ Goto(c, IF c \in Attachers THEN "subscribe" ELSE "receive")
  /\ UNCHANGED <<clients, snap, log, loopVars, clientVars>>

WriteInitial(c) ==
  /\ pc[c] = "initial"
  /\ Write(c)
  /\ Goto(c, IF c \in Attachers THEN "subscribe" ELSE "receive")
  /\ UNCHANGED <<clients, snap, next, log, loopVars, clientVars>>

\* Messages are overwritten once Capacity newer ones were sent.
Lagged(c) == next[c] + Capacity <= sent

\* Mutant: a task that goes on with the oldest message left.
ReceiveSkipping(c) ==
  /\ pc[c] = "receive" /\ next[c] <= sent
  /\ next' = [next EXCEPT ![c] = (IF Lagged(c) THEN sent - Capacity + 1 ELSE @) + 1]
  /\ Goto(c, "forward")
  /\ UNCHANGED <<clients, snap, log, wrote, loopVars, clientVars>>

\* sub_rx.recv(): `while let Ok` ends on Lagged.
Receive(c) ==
  /\ pc[c] = "receive" /\ next[c] <= sent
  /\ IF Lagged(c)
     THEN Close(c)
     ELSE /\ next' = [next EXCEPT ![c] = @ + 1]
          /\ Goto(c, "forward")
          /\ UNCHANGED <<clients, snap, log, wrote>>
  /\ UNCHANGED <<loopVars, clientVars>>

\* Mutant: a failed write is ignored and the message dropped.
ForwardIgnoringErrors(c) ==
  /\ pc[c] = "forward"
  /\ \/ Write(c) /\ log' = [log EXCEPT ![c] = Append(@, next[c] - 1)]
     \/ hungUp[c] /\ UNCHANGED <<log, wrote>>
  /\ Goto(c, "receive")
  /\ UNCHANGED <<clients, snap, next, loopVars, clientVars>>

Forward(c) ==
  /\ pc[c] = "forward"
  /\ Write(c)
  /\ log' = [log EXCEPT ![c] = Append(@, next[c] - 1)]
  /\ Goto(c, "receive")
  /\ UNCHANGED <<clients, snap, next, loopVars, clientVars>>

\* Mutant: a failed write that returns past the guard's decrement.
WriteFailsUncounted(c) ==
  /\ pc[c] \in {"initial", "forward"} /\ hungUp[c]
  /\ Goto(c, "closed")
  /\ UNCHANGED <<clients, snap, next, log, wrote, loopVars, clientVars>>

WriteFails(c) ==
  /\ pc[c] \in {"initial", "forward"} /\ hungUp[c]
  /\ Close(c)
  /\ UNCHANGED <<loopVars, clientVars>>

\* The input half of an attach sees the client's end of file, or fails to
\* inject input because the event loop is gone.
InputEnds(c) ==
  /\ c \in Attachers /\ pc[c] \in {"receive", "forward"}
  /\ hungUp[c] \/ over
  /\ Close(c)
  /\ UNCHANGED <<loopVars, clientVars>>

-----------------------------------------------------------------------------
(* The client                                                              *)

Read(c) ==
  /\ ~hungUp[c] /\ read[c] < wrote[c]
  /\ read' = [read EXCEPT ![c] = @ + 1]
  /\ UNCHANGED <<loopVars, taskVars, hungUp>>

\* Closing a connection the task has closed already changes nothing.
HangUp(c) ==
  /\ ~hungUp[c] /\ pc[c] \notin {"start", "closed"}
  /\ hungUp' = [hungUp EXCEPT ![c] = TRUE]
  /\ UNCHANGED <<loopVars, taskVars, read>>

SeesEof(c) == pc[c] = "closed" /\ ~hungUp[c] /\ read[c] = wrote[c]

-----------------------------------------------------------------------------
Loop == Process \/ Send \/ EndLoop \/ Exit

Task(c) ==
  \/ Attach(c) \/ Subscribe(c) \/ TakeSnapshot(c) \/ WriteInitial(c)
  \/ Receive(c) \/ Forward(c) \/ WriteFails(c) \/ InputEnds(c)

Next ==
  \/ Produce \/ Loop
  \/ \E c \in Conns : Task(c) \/ Read(c) \/ HangUp(c)

Spec == Init /\ [][Next]_vars

\* The runtime polls the event loop; clients may stall for ever.
FairSpec == Spec /\ WF_vars(Process) /\ WF_vars(Send)

\* The runtime polls the task of c, and its client reads.
Reads(c) == WF_vars(Receive(c)) /\ WF_vars(Forward(c)) /\ WF_vars(WriteFails(c)) /\ WF_vars(Read(c))

-----------------------------------------------------------------------------
(* Properties                                                              *)

\* What a client is sent after its snapshot is one run of consecutive chunks:
\* lag ends the stream, it never leaves a hole in it.
NoHole ==
  \A c \in Conns : \A i \in 1..(Len(log[c]) - 1) : log[c][i + 1] = log[c][i] + 1

\* The stream of c goes on where its snapshot ended, or earlier.
Seamless(c) == log[c] # <<>> => log[c][1] <= snap[c] + 1

\* Nothing is lost between the snapshot and the stream of a watch.
WatchSeamless == \A c \in Watchers : Seamless(c)

\* An attach is sent at most one chunk again that its snapshot already shows:
\* the one the event loop had processed and not yet sent.
AttachRepeatsAtMostOne == \A c \in Attachers : log[c] # <<>> => log[c][1] >= snap[c]

\* The client count is the number of attaches in progress on every path out of
\* the handler.
ClientsExact ==
  clients = Cardinality({c \in Attachers : pc[c] \notin {"start", "closed"}})

\* Clients that stall do not stop the session: what the shell wrote is
\* processed and sent as long as the session lives.
SlowClientsDontStall == \A k \in 1..MaxChunks : produced >= k ~> (sent >= k \/ over)

\* A client that keeps reading gets every message sent since it subscribed, or
\* its connection is closed; the others may stall meanwhile.
DeliveredOrClosed ==
  \A c \in Conns : Reads(c) =>
    \A k \in 1..MaxChunks :
      (pc[c] = "receive" /\ next[c] <= k /\ k <= sent)
        ~> (pc[c] = "closed" \/ \E i \in DOMAIN log[c] : log[c][i] = k)

-----------------------------------------------------------------------------
(* What the fan-out implements                                             *)

\* What a task does, as its client sees it.
StageOf(p) ==
  CASE p \in {"start", "snapshot"} -> "waiting"
    [] p = "closed" -> "ended"
    [] OTHER -> "following"

stages == [c \in Conns |-> StageOf(pc[c])]

OS == INSTANCE OutputStream WITH
        Whole <- Watchers, Brief <- Attachers,
        made <- sent, stage <- stages, shown <- snap, stream <- log

\* Every step of the event loop, of a task or of a client is a step of the output
\* stream: an up-to-date screen, then messages that were sent, each after the one
\* before it, and after the end no more.
ImplementsOutputStream == OS!Spec

-----------------------------------------------------------------------------
(* What the repository says of the stream and the code does not keep       *)

\* README.md:15: the raw bytes of the PTY are passed to the terminal of an
\* attached client, so none is lost between its snapshot and its stream.
AttachSeamless == \A c \in Attachers : Seamless(c)

\* attach.rs:272: when the stream of an attached client ends, its session has
\* terminated.
EofMeansTerminated == \A c \in Attachers : SeesEof(c) => over
=============================================================================
