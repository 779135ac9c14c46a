---------------------------- MODULE FanoutProofs ----------------------------
(***************************************************************************)
(* Proofs of the safety properties of Fanout, for any connections, any     *)
(* capacity of the channel and of the sockets and any amount of output.    *)
(***************************************************************************)
EXTENDS Fanout, FiniteSetTheorems, TLAPS

-----------------------------------------------------------------------------
(* Types and the client count.  A counter of Nat that is decremented stays *)
(* in Nat only because it counts, so the two are proved together.          *)

InProgress == {c \in Attachers : pc[c] \notin {"start", "closed"}}

\* A message in the hands of a task was taken from the channel.
ForwardsSomething == \A c \in Conns : pc[c] = "forward" => next[c] >= 1

CountInv == TypeOK /\ ForwardsSomething /\ ClientsExact

\* Everything but the count keeps its type.
TypeRest ==
  /\ produced \in 0..MaxChunks /\ processed \in Nat /\ sent \in Nat
  /\ over \in BOOLEAN /\ exited \in BOOLEAN
  /\ pc \in [Conns -> Steps]
  /\ snap \in [Conns -> Nat]
  /\ next \in [Conns -> Nat]
  /\ log \in [Conns -> Seq(Nat)]
  /\ wrote \in [Conns -> Nat]
  /\ read \in [Conns -> Nat]
  /\ hungUp \in [Conns -> BOOLEAN]

\* The attaches in progress are finitely many, so they can be counted.
LEMMA InProgressFinite == IsFiniteSet(InProgress)
  <1>1. InProgress \subseteq Attachers
    BY DEF InProgress
  <1> QED
    BY <1>1, FanoutAssumption, FS_Subset

\* Every step keeps the types of what is not counted, and a task only ever
\* forwards a message it has received.
LEMMA TypeRestStep ==
  ASSUME TypeOK, ForwardsSomething, Next
  PROVE  TypeRest' /\ ForwardsSomething'
  <1> USE FanoutAssumption DEF TypeOK, TypeRest, ForwardsSomething, loopVars, taskVars, clientVars
  <1>1. CASE Produce
    BY <1>1 DEF Produce
  <1>2. CASE Process
    BY <1>2 DEF Process
  <1>3. CASE Send
    BY <1>3 DEF Send
  <1>4. CASE EndLoop
    BY <1>4 DEF EndLoop
  <1>5. CASE Exit
    BY <1>5 DEF Exit, Steps
  <1>6. ASSUME NEW c \in Conns, Attach(c) PROVE TypeRest' /\ ForwardsSomething'
    BY <1>6 DEF Attach, Goto, Steps
  <1>7. ASSUME NEW c \in Conns, Subscribe(c) PROVE TypeRest' /\ ForwardsSomething'
    <2>1. PICK p \in {"snapshot", "receive"} : pc' = [pc EXCEPT ![c] = p]
      BY <1>7 DEF Subscribe, Goto
    <2>2. next' = [next EXCEPT ![c] = sent + 1]
      BY <1>7 DEF Subscribe
    <2>3. UNCHANGED <<snap, log, wrote, loopVars, clientVars>>
      BY <1>7 DEF Subscribe
    <2> QED
      BY <2>1, <2>2, <2>3 DEF Steps
  <1>8. ASSUME NEW c \in Conns, TakeSnapshot(c) PROVE TypeRest' /\ ForwardsSomething'
    BY <1>8 DEF TakeSnapshot, Goto, Steps
  <1>9. ASSUME NEW c \in Conns, WriteInitial(c) PROVE TypeRest' /\ ForwardsSomething'
    BY <1>9 DEF WriteInitial, Write, Goto, Steps
  <1>10. ASSUME NEW c \in Conns, Receive(c) PROVE TypeRest' /\ ForwardsSomething'
    <2>1. UNCHANGED <<snap, log, wrote, loopVars, clientVars>>
      BY <1>10 DEF Receive, Close
    <2>2. CASE Close(c)
      <3>1. pc' = [pc EXCEPT ![c] = "closed"] /\ next' = next
        BY <2>2 DEF Close, Goto
      <3> QED
        BY <2>1, <3>1 DEF Steps
    <2>3. CASE /\ next' = [next EXCEPT ![c] = @ + 1]
               /\ pc' = [pc EXCEPT ![c] = "forward"]
      BY <2>1, <2>3 DEF Steps
    <2> QED
      BY <1>10, <2>2, <2>3 DEF Receive, Goto
  <1>11. ASSUME NEW c \in Conns, Forward(c) PROVE TypeRest' /\ ForwardsSomething'
    BY <1>11 DEF Forward, Write, Goto, Steps
  <1>12. ASSUME NEW c \in Conns, WriteFails(c) PROVE TypeRest' /\ ForwardsSomething'
    BY <1>12 DEF WriteFails, Close, Goto, Steps
  <1>13. ASSUME NEW c \in Conns, InputEnds(c) PROVE TypeRest' /\ ForwardsSomething'
    BY <1>13 DEF InputEnds, Close, Goto, Steps
  <1>14. ASSUME NEW c \in Conns, Read(c) PROVE TypeRest' /\ ForwardsSomething'
    BY <1>14 DEF Read
  <1>15. ASSUME NEW c \in Conns, HangUp(c) PROVE TypeRest' /\ ForwardsSomething'
    BY <1>15 DEF HangUp
  <1> QED
    BY <1>1, <1>2, <1>3, <1>4, <1>5, <1>6, <1>7, <1>8, <1>9, <1>10, <1>11, <1>12,
       <1>13, <1>14, <1>15 DEF Next, Loop, Task

\* A task that moves between two steps of its handler is counted as before.
LEMMA GotoKeepsCount ==
  ASSUME TypeOK, NEW c \in Conns, NEW p \in Steps \ {"start", "closed"},
         c \in Attachers => pc[c] \notin {"start", "closed"},
         Goto(c, p)
  PROVE  InProgress' = InProgress
  BY DEF TypeOK, Goto, InProgress

\* A task that returns was counted if it was an attach, and no longer is.
LEMMA CloseCounts ==
  ASSUME TypeOK, ClientsExact, NEW c \in Conns, pc[c] \notin {"start", "closed"}, Close(c)
  PROVE  clients' \in Nat /\ ClientsExact'
  <1>1. clients = Cardinality(InProgress) /\ clients \in Nat
    BY DEF ClientsExact, InProgress, TypeOK
  <1>2. CASE c \in Attachers
    <2>1. c \in InProgress /\ InProgress' = InProgress \ {c}
      BY <1>2 DEF InProgress, Close, Goto, TypeOK
    <2>2. Cardinality(InProgress \ {c}) = Cardinality(InProgress) - 1
          /\ Cardinality(InProgress \ {c}) \in Nat
      BY <2>1, InProgressFinite, FS_RemoveElement, FS_CardinalityType
    <2>3. clients' = clients - 1
      BY <1>2 DEF Close
    <2> QED
      BY <1>1, <2>1, <2>2, <2>3 DEF ClientsExact, InProgress
  <1>3. CASE c \notin Attachers
    <2>1. InProgress' = InProgress /\ clients' = clients
      BY <1>3 DEF InProgress, Close, Goto, TypeOK
    <2> QED
      BY <1>1, <2>1 DEF ClientsExact, InProgress
  <1> QED
    BY <1>2, <1>3

\* Every step keeps the count exact, and therefore a natural number.
LEMMA CountStep ==
  ASSUME TypeOK, ClientsExact, Next
  PROVE  clients' \in Nat /\ ClientsExact'
  <1>1. clients = Cardinality(InProgress) /\ clients \in Nat
    BY DEF ClientsExact, InProgress, TypeOK
  <1>2. ASSUME InProgress' = InProgress, clients' = clients
        PROVE  clients' \in Nat /\ ClientsExact'
    BY <1>1, <1>2 DEF ClientsExact, InProgress
  <1>3. CASE Produce \/ Process \/ Send \/ EndLoop
    <2>1. UNCHANGED taskVars
      BY <1>3 DEF Produce, Process, Send, EndLoop
    <2> QED
      BY <1>2, <2>1 DEF taskVars, InProgress
  <1>4. CASE Exit
    <2>1. InProgress' = {} /\ clients' = 0
      BY <1>4 DEF Exit, InProgress, Conns
    <2> QED
      BY <2>1, FS_EmptySet DEF ClientsExact, InProgress
  <1>5. ASSUME NEW c \in Conns, Attach(c) PROVE clients' \in Nat /\ ClientsExact'
    <2>1. c \notin InProgress /\ InProgress' = InProgress \cup {c}
      BY <1>5 DEF Attach, Goto, InProgress, TypeOK
    <2>2. Cardinality(InProgress \cup {c}) = Cardinality(InProgress) + 1
      BY <2>1, InProgressFinite, FS_AddElement
    <2>3. clients' = clients + 1
      BY <1>5 DEF Attach
    <2> QED
      BY <1>1, <2>1, <2>2, <2>3 DEF ClientsExact, InProgress
  <1>6. ASSUME NEW c \in Conns, Subscribe(c) PROVE clients' \in Nat /\ ClientsExact'
    <2>1. clients' = clients
      BY <1>6 DEF Subscribe
    <2>2. \E p \in {"snapshot", "receive"} : Goto(c, p)
      BY <1>6 DEF Subscribe
    <2>3. c \in Attachers => pc[c] \notin {"start", "closed"}
      BY <1>6, FanoutAssumption DEF Subscribe
    <2>4. InProgress' = InProgress
      BY <2>2, <2>3, GotoKeepsCount DEF Steps
    <2> QED
      BY <1>2, <2>1, <2>4
  <1>7. ASSUME NEW c \in Conns, TakeSnapshot(c) \/ WriteInitial(c) \/ Forward(c)
        PROVE  clients' \in Nat /\ ClientsExact'
    <2>1. clients' = clients
      BY <1>7 DEF TakeSnapshot, WriteInitial, Forward
    <2>2. \E p \in {"initial", "subscribe", "receive"} : Goto(c, p)
      BY <1>7 DEF TakeSnapshot, WriteInitial, Forward
    <2>3. pc[c] \notin {"start", "closed"}
      BY <1>7 DEF TakeSnapshot, WriteInitial, Forward
    <2>4. InProgress' = InProgress
      BY <2>2, <2>3, GotoKeepsCount DEF Steps
    <2> QED
      BY <1>2, <2>1, <2>4
  <1>8. ASSUME NEW c \in Conns, Receive(c) PROVE clients' \in Nat /\ ClientsExact'
    <2>1. pc[c] = "receive"
      BY <1>8 DEF Receive
    <2>2. CASE Close(c)
      BY <2>1, <2>2, CloseCounts
    <2>3. CASE Goto(c, "forward") /\ clients' = clients
      <3>1. InProgress' = InProgress
        BY <2>1, <2>3, GotoKeepsCount DEF Steps
      <3> QED
        BY <1>2, <2>3, <3>1
    <2> QED
      BY <1>8, <2>2, <2>3 DEF Receive
  <1>9. ASSUME NEW c \in Conns, WriteFails(c) \/ InputEnds(c)
        PROVE  clients' \in Nat /\ ClientsExact'
    <2>1. pc[c] \notin {"start", "closed"} /\ Close(c)
      BY <1>9 DEF WriteFails, InputEnds
    <2> QED
      BY <2>1, CloseCounts
  <1>10. ASSUME NEW c \in Conns, Read(c) \/ HangUp(c) PROVE clients' \in Nat /\ ClientsExact'
    <2>1. UNCHANGED taskVars
      BY <1>10 DEF Read, HangUp
    <2> QED
      BY <1>2, <2>1 DEF taskVars, InProgress
  <1> QED
    BY <1>3, <1>4, <1>5, <1>6, <1>7, <1>8, <1>9, <1>10 DEF Next, Loop, Task

\* The count is exact in every behaviour.
LEMMA CountInvariance == Spec => []CountInv
  <1>1. Init => CountInv
    <2> SUFFICES ASSUME Init PROVE CountInv
      OBVIOUS
    <2>1. clients \in Nat /\ produced \in 0..MaxChunks /\ processed \in Nat /\ sent \in Nat
      BY FanoutAssumption DEF Init
    <2>4. over \in BOOLEAN /\ exited \in BOOLEAN /\ hungUp \in [Conns -> BOOLEAN]
      BY DEF Init
    <2>5. /\ pc \in [Conns -> Steps] /\ log \in [Conns -> Seq(Nat)]
          /\ snap \in [Conns -> Nat] /\ next \in [Conns -> Nat]
          /\ wrote \in [Conns -> Nat] /\ read \in [Conns -> Nat]
      BY DEF Init, Steps
    <2>6. ForwardsSomething
      BY DEF Init, ForwardsSomething
    <2>2. InProgress = {}
      BY DEF Init, InProgress, Conns
    <2>3. ClientsExact
      BY <2>2, FS_EmptySet DEF Init, ClientsExact, InProgress
    <2> QED
      BY <2>1, <2>3, <2>4, <2>5, <2>6 DEF CountInv, TypeOK
  <1>2. CountInv /\ [Next]_vars => CountInv'
    <2> SUFFICES ASSUME CountInv, [Next]_vars PROVE CountInv'
      OBVIOUS
    <2> USE DEF CountInv
    <2>1. CASE Next
      BY <2>1, TypeRestStep, CountStep DEF TypeOK, TypeRest
    <2>2. CASE UNCHANGED vars
      BY <2>2 DEF vars, loopVars, taskVars, clientVars, TypeOK, ForwardsSomething, ClientsExact
    <2> QED
      BY <2>1, <2>2
  <1> QED
    BY <1>1, <1>2, PTL DEF Spec

\* server.rs:146-154: the variables keep their types; in particular the client
\* count never falls below zero.
THEOREM FanoutTypeCorrect == Spec => []TypeOK
  BY CountInvariance, PTL DEF CountInv

\* server.rs:146-154: whatever way an attach ends (client gone, lag, write
\* error, daemon exit), the count is the number of attaches in progress.
THEOREM CountExact == Spec => []ClientsExact
  BY CountInvariance, PTL DEF CountInv

-----------------------------------------------------------------------------
(* The stream of a client.  What a task has logged determines the message  *)
(* it is to log next; where its stream starts is settled when it takes its *)
(* receiver, relative to what the event loop has processed by then.        *)

\* The message that the task will log next.
Upcoming(c) == IF pc[c] = "forward" THEN next[c] - 1 ELSE next[c]

Streaming(c) == pc[c] \in {"receive", "forward"}

\* The channel follows the terminal, at most one chunk behind while the loop runs,
\* and at most the notice of a signal ahead when it has ended.
LoopInv ==
  /\ ~over => sent <= processed /\ processed <= sent + 1
  /\ over => processed <= sent /\ sent <= processed + 1

SnapshotInv(c) == snap[c] <= processed

\* Nothing is logged before the snapshot was written; afterwards the log ends
\* just before the next message.
LogInv(c) ==
  /\ pc[c] \in {"start", "subscribe", "snapshot", "initial"} => log[c] = <<>>
  /\ Streaming(c) /\ log[c] # <<>> => log[c][Len(log[c])] + 1 = Upcoming(c)
  /\ \A i \in 1..(Len(log[c]) - 1) : log[c][i + 1] = log[c][i] + 1

\* A receiver that will not get a message any more: the loop is over.
Dry(c) == over /\ pc[c] # "forward" /\ next[c] > sent

\* A watch starts its stream where its snapshot ends, or earlier.
WatchInv(c) ==
  c \in Watchers =>
    /\ pc[c] = "snapshot" => next[c] <= processed + 1 \/ Dry(c)
    /\ (pc[c] = "initial" \/ Streaming(c)) /\ log[c] = <<>> => Upcoming(c) <= snap[c] + 1 \/ Dry(c)
    /\ log[c] # <<>> => log[c][1] <= snap[c] + 1

\* An attach starts at the last chunk of its snapshot, or later.
AttachInv(c) ==
  c \in Attachers =>
    /\ Streaming(c) /\ log[c] = <<>> => Upcoming(c) >= snap[c]
    /\ log[c] # <<>> => log[c][1] >= snap[c]

ConnInv(c) == SnapshotInv(c) /\ LogInv(c) /\ WatchInv(c) /\ AttachInv(c)

StreamInv == LoopInv /\ \A c \in Conns : ConnInv(c)

\* What Append does to the ends of a log.
LEMMA AppendEnds ==
  ASSUME NEW s \in Seq(Nat), NEW k \in Nat
  PROVE  /\ Append(s, k) # <<>>
         /\ Len(Append(s, k)) = Len(s) + 1 /\ Len(s) \in Nat
         /\ Append(s, k)[Len(s) + 1] = k
         /\ \A i \in 1..Len(s) : Append(s, k)[i] = s[i]
         /\ s = <<>> <=> Len(s) = 0
  OBVIOUS

\* A step of one connection does not concern the others.
LEMMA OtherConn ==
  ASSUME NEW x \in Conns, ConnInv(x), UNCHANGED loopVars,
         pc'[x] = pc[x], snap'[x] = snap[x], next'[x] = next[x], log'[x] = log[x]
  PROVE  ConnInv(x)'
  BY DEF ConnInv, SnapshotInv, LogInv, WatchInv, AttachInv, Streaming, Upcoming, Dry, loopVars

\* A task that returns leaves its log as it was.
LEMMA ClosedConn ==
  ASSUME NEW x \in Conns, ConnInv(x), UNCHANGED <<produced, processed, sent, over, exited>>,
         pc'[x] = "closed", snap'[x] = snap[x], next'[x] = next[x], log'[x] = log[x]
  PROVE  ConnInv(x)'
  BY DEF ConnInv, SnapshotInv, LogInv, WatchInv, AttachInv, Streaming

\* The steps of the event loop, for each connection.
LEMMA LoopConn ==
  ASSUME TypeOK, StreamInv, Produce \/ Process \/ Send \/ EndLoop, NEW x \in Conns
  PROVE  ConnInv(x)'
  <1> USE DEF TypeOK, StreamInv, LoopInv, ConnInv, SnapshotInv, LogInv, WatchInv, AttachInv,
              Streaming, Upcoming, Dry, taskVars
  <1>1. CASE Produce
    BY <1>1 DEF Produce
  <1>2. CASE Process
    BY <1>2 DEF Process
  <1>3. CASE Send
    BY <1>3 DEF Send
  <1>4. CASE EndLoop
    BY <1>4 DEF EndLoop
  <1> QED
    BY <1>1, <1>2, <1>3, <1>4

\* Taking a receiver.
LEMMA SubscribeConn ==
  ASSUME TypeOK, StreamInv, NEW c \in Conns, Subscribe(c)
  PROVE  ConnInv(c)'
  <1> USE DEF TypeOK, StreamInv, LoopInv, ConnInv, SnapshotInv, LogInv, WatchInv, AttachInv,
              Streaming, Upcoming, Dry, loopVars
  <1>1. next'[c] = sent + 1 /\ snap' = snap /\ log' = log /\ UNCHANGED loopVars
    BY DEF Subscribe
  <1>2. CASE c \in Watchers /\ pc[c] = "start" /\ pc'[c] = "snapshot"
    BY <1>1, <1>2, FanoutAssumption
  <1>3. CASE c \in Attachers /\ pc[c] = "subscribe" /\ pc'[c] = "receive"
    BY <1>1, <1>3, FanoutAssumption
  <1> QED
    BY <1>2, <1>3 DEF Subscribe, Goto

\* Taking and writing the snapshot.
LEMMA SnapshotConn ==
  ASSUME TypeOK, StreamInv, NEW c \in Conns, Attach(c) \/ TakeSnapshot(c) \/ WriteInitial(c)
  PROVE  ConnInv(c)'
  <1> USE FanoutAssumption DEF TypeOK, StreamInv, LoopInv, ConnInv, SnapshotInv, LogInv, WatchInv,
              AttachInv, Streaming, Upcoming, Dry, loopVars
  <1>1. CASE Attach(c)
    <2>1. /\ c \in Attachers /\ pc[c] = "start" /\ pc'[c] = "snapshot"
          /\ UNCHANGED <<snap, next, log, loopVars>>
      BY <1>1 DEF Attach, Goto
    <2> QED
      BY <2>1
  <1>2. CASE TakeSnapshot(c)
    <2>1. /\ pc[c] = "snapshot" /\ pc'[c] = "initial" /\ snap'[c] = processed
          /\ UNCHANGED <<next, log, loopVars>>
      BY <1>2 DEF TakeSnapshot, Goto
    <2> QED
      BY <2>1
  <1>3. CASE WriteInitial(c)
    <2>1. /\ pc[c] = "initial" /\ pc'[c] = IF c \in Attachers THEN "subscribe" ELSE "receive"
          /\ UNCHANGED <<snap, next, log, loopVars>>
      BY <1>3 DEF WriteInitial, Goto
    <2> QED
      BY <2>1
  <1> QED
    BY <1>1, <1>2, <1>3

\* Receiving a message and forwarding it.
LEMMA ForwardConn ==
  ASSUME TypeOK, ForwardsSomething, StreamInv, NEW c \in Conns, Receive(c) \/ Forward(c)
  PROVE  ConnInv(c)'
  <1>1. SnapshotInv(c) /\ LogInv(c) /\ WatchInv(c) /\ AttachInv(c)
    BY DEF StreamInv, ConnInv
  <1>2. next[c] \in Nat /\ snap[c] \in Nat /\ sent \in Nat /\ log[c] \in Seq(Nat)
    BY DEF TypeOK
  <1>3. CASE Receive(c) /\ Close(c)
    <2>1. pc' = [pc EXCEPT ![c] = "closed"] /\ UNCHANGED <<snap, next, log, loopVars>>
      BY <1>3 DEF Receive, Close, Goto
    <2> QED
      BY <1>1, <2>1, ClosedConn DEF loopVars, TypeOK, ConnInv
  <1>4. CASE Receive(c) /\ ~Close(c)
    <2>1. /\ pc[c] = "receive" /\ next[c] <= sent
          /\ pc'[c] = "forward" /\ next'[c] = next[c] + 1
          /\ UNCHANGED <<snap, log, loopVars>>
      BY <1>4 DEF Receive, Goto, TypeOK
    <2>2. Upcoming(c) = next[c] /\ Upcoming(c)' = next[c] /\ ~Dry(c)
      BY <1>2, <2>1, SMTT(30) DEF Upcoming, Dry
    <2>3. Streaming(c) /\ Streaming(c)'
      BY <2>1 DEF Streaming
    <2>4. LogInv(c)'
      BY <1>1, <2>1, <2>2, <2>3 DEF LogInv
    <2>5. WatchInv(c)'
      BY <1>1, <2>1, <2>2, <2>3 DEF WatchInv
    <2>6. AttachInv(c)'
      BY <1>1, <2>1, <2>2, <2>3 DEF AttachInv
    <2>7. SnapshotInv(c)'
      BY <1>1, <2>1 DEF SnapshotInv, loopVars
    <2> QED
      BY <2>4, <2>5, <2>6, <2>7 DEF ConnInv
  <1>5. CASE Forward(c)
    <2> DEFINE k == next[c] - 1
    <2>1. /\ pc[c] = "forward" /\ pc'[c] = "receive"
          /\ log'[c] = Append(log[c], k)
          /\ UNCHANGED <<snap, next, loopVars>>
      BY <1>5 DEF Forward, Goto, TypeOK
    <2>2. k \in Nat /\ next[c] = k + 1
      BY <1>2, <2>1 DEF ForwardsSomething
    <2>3. Upcoming(c) = k /\ Upcoming(c)' = k + 1 /\ ~Dry(c)
      BY <2>1, <2>2 DEF Upcoming, Dry
    <2>4. Streaming(c) /\ Streaming(c)'
      BY <2>1 DEF Streaming
    <2> HIDE DEF k
    <2>5. /\ log'[c] # <<>> /\ Len(log[c]) \in Nat /\ Len(log'[c]) = Len(log[c]) + 1
          /\ log'[c][Len(log[c]) + 1] = k
          /\ \A i \in 1..Len(log[c]) : log'[c][i] = log[c][i]
          /\ log[c] = <<>> <=> Len(log[c]) = 0
      BY <1>2, <2>1, <2>2, AppendEnds
    <2>6. ASSUME NEW i \in 1..(Len(log'[c]) - 1)
          PROVE  log'[c][i + 1] = log'[c][i] + 1
      <3>1. i \in 1..Len(log[c])
        BY <2>5
      <3>2. CASE i = Len(log[c])
        <4>1. log[c][Len(log[c])] + 1 = k
          BY <1>1, <2>3, <2>4, <2>5, <3>2 DEF LogInv
        <4> QED
          BY <2>5, <3>1, <3>2, <4>1
      <3>3. CASE i # Len(log[c])
        <4>1. i \in 1..(Len(log[c]) - 1) /\ i + 1 \in 1..Len(log[c])
          BY <2>5, <3>1, <3>3
        <4>2. log[c][i + 1] = log[c][i] + 1
          BY <1>1, <4>1 DEF LogInv
        <4> QED
          BY <2>5, <3>1, <4>1, <4>2
      <3> QED
        BY <3>2, <3>3
    <2>7. LogInv(c)'
      <3>1. log'[c][Len(log'[c])] + 1 = Upcoming(c)'
        BY <2>2, <2>3, <2>5
      <3> QED
        BY <2>1, <2>6, <3>1 DEF LogInv
    <2>8. log'[c][1] = IF log[c] = <<>> THEN k ELSE log[c][1]
      BY <2>5
    <2>9. WatchInv(c)'
      <3>1. c \in Watchers => log'[c][1] <= snap[c] + 1
        BY <1>1, <2>3, <2>4, <2>8 DEF WatchInv
      <3> QED
        BY <2>1, <2>5, <3>1 DEF WatchInv
    <2>10. AttachInv(c)'
      <3>1. c \in Attachers => log'[c][1] >= snap[c]
        BY <1>1, <2>3, <2>4, <2>8 DEF AttachInv
      <3> QED
        BY <2>1, <2>5, <3>1 DEF AttachInv
    <2>11. SnapshotInv(c)'
      BY <1>1, <2>1 DEF SnapshotInv, loopVars
    <2> QED
      BY <2>7, <2>9, <2>10, <2>11 DEF ConnInv
  <1> QED
    BY <1>3, <1>4, <1>5

\* The channel and the terminal stay in step.
LEMMA LoopStep ==
  ASSUME TypeOK, LoopInv, Next
  PROVE  LoopInv'
  <1> USE DEF TypeOK, LoopInv
  <1>1. CASE Produce
    BY <1>1 DEF Produce
  <1>2. CASE Process
    BY <1>2 DEF Process
  <1>3. CASE Send
    BY <1>3 DEF Send
  <1>4. CASE EndLoop
    BY <1>4 DEF EndLoop
  <1>5. CASE Exit
    BY <1>5 DEF Exit
  <1>6. CASE \E c \in Conns : Task(c) \/ Read(c) \/ HangUp(c)
    <2>1. UNCHANGED loopVars
      BY <1>6 DEF Task, Attach, Subscribe, TakeSnapshot, WriteInitial, Receive, Forward,
                  WriteFails, InputEnds, Read, HangUp
    <2> QED
      BY <2>1 DEF loopVars
  <1> QED
    BY <1>1, <1>2, <1>3, <1>4, <1>5, <1>6 DEF Next, Loop

\* Every step preserves the stream invariant of every connection.
LEMMA ConnStep ==
  ASSUME TypeOK, ForwardsSomething, StreamInv, Next, NEW x \in Conns
  PROVE  ConnInv(x)'
  <1>1. ConnInv(x)
    BY DEF StreamInv
  <1>2. CASE Produce \/ Process \/ Send \/ EndLoop
    BY <1>2, LoopConn
  <1>3. CASE Exit
    <2>1. /\ UNCHANGED <<produced, processed, sent, over>> /\ pc'[x] = "closed"
          /\ UNCHANGED <<snap, next, log>>
      BY <1>3 DEF Exit
    <2> QED
      BY <1>1, <2>1 DEF ConnInv, SnapshotInv, LogInv, WatchInv, AttachInv, Streaming
  <1>4. ASSUME NEW c \in Conns, Attach(c) \/ TakeSnapshot(c) \/ WriteInitial(c)
        PROVE  ConnInv(x)'
    <2>1. CASE c = x
      BY <1>4, <2>1, SnapshotConn
    <2>2. CASE c # x
      <3>1. UNCHANGED loopVars /\ next' = next /\ log' = log
        BY <1>4 DEF Attach, TakeSnapshot, WriteInitial
      <3>2. pc'[x] = pc[x] /\ snap'[x] = snap[x]
        BY <1>4, <2>2 DEF Attach, TakeSnapshot, WriteInitial, Goto, TypeOK
      <3> QED
        BY <1>1, <3>1, <3>2, OtherConn
    <2> QED
      BY <2>1, <2>2
  <1>5. ASSUME NEW c \in Conns, Subscribe(c)
        PROVE  ConnInv(x)'
    <2>1. CASE c = x
      BY <1>5, <2>1, SubscribeConn
    <2>2. CASE c # x
      <3>1. UNCHANGED loopVars /\ snap' = snap /\ log' = log
        BY <1>5 DEF Subscribe
      <3>2. pc'[x] = pc[x] /\ next'[x] = next[x]
        BY <1>5, <2>2 DEF Subscribe, Goto, TypeOK
      <3> QED
        BY <1>1, <3>1, <3>2, OtherConn
    <2> QED
      BY <2>1, <2>2
  <1>6. ASSUME NEW c \in Conns, Receive(c) \/ Forward(c)
        PROVE  ConnInv(x)'
    <2>1. CASE c = x
      BY <1>6, <2>1, ForwardConn
    <2>2. CASE c # x
      <3>1. UNCHANGED loopVars /\ snap' = snap
        BY <1>6 DEF Receive, Forward, Close
      <3>2. pc'[x] = pc[x] /\ next'[x] = next[x] /\ log'[x] = log[x]
        BY <1>6, <2>2 DEF Receive, Forward, Close, Goto, TypeOK
      <3> QED
        BY <1>1, <3>1, <3>2, OtherConn
    <2> QED
      BY <2>1, <2>2
  <1>7. ASSUME NEW c \in Conns, WriteFails(c) \/ InputEnds(c)
        PROVE  ConnInv(x)'
    <2>1. UNCHANGED <<snap, next, log, loopVars>> /\ pc' = [pc EXCEPT ![c] = "closed"]
      BY <1>7 DEF WriteFails, InputEnds, Close, Goto
    <2>2. CASE c = x
      BY <1>1, <2>1, <2>2, ClosedConn DEF loopVars, TypeOK
    <2>3. CASE c # x
      BY <1>1, <2>1, <2>3, OtherConn DEF TypeOK
    <2> QED
      BY <2>2, <2>3
  <1>8. ASSUME NEW c \in Conns, Read(c) \/ HangUp(c)
        PROVE  ConnInv(x)'
    <2>1. UNCHANGED <<pc, snap, next, log, loopVars>>
      BY <1>8 DEF Read, HangUp, taskVars
    <2> QED
      BY <1>1, <2>1, OtherConn
  <1> QED
    BY <1>2, <1>3, <1>4, <1>5, <1>6, <1>7, <1>8 DEF Next, Loop, Task

\* The stream invariant holds in every behaviour.
LEMMA StreamInvariance == Spec => []StreamInv
  <1>1. Init => StreamInv
    BY FanoutAssumption DEF Init, StreamInv, LoopInv, ConnInv, SnapshotInv, LogInv, WatchInv,
                            AttachInv, Streaming
  <1>2. CountInv /\ StreamInv /\ [Next]_vars => StreamInv'
    <2> SUFFICES ASSUME CountInv, StreamInv, [Next]_vars PROVE StreamInv'
      OBVIOUS
    <2>1. CASE Next
      BY <2>1, LoopStep, ConnStep DEF StreamInv, CountInv
    <2>2. CASE UNCHANGED vars
      <3>1. UNCHANGED <<pc, snap, next, log, loopVars>>
        BY <2>2 DEF vars, taskVars
      <3> QED
        BY <3>1, OtherConn DEF StreamInv, LoopInv, loopVars
    <2> QED
      BY <2>1, <2>2
  <1> QED
    BY <1>1, <1>2, CountInvariance, PTL DEF Spec

\* server.rs:121-126, 168-173: lag ends a stream and never leaves a hole in it.
THEOREM StreamHasNoHole == Spec => []NoHole
  <1>1. StreamInv => NoHole
    BY DEF StreamInv, ConnInv, LogInv, NoHole
  <1> QED
    BY <1>1, StreamInvariance, PTL

\* server.rs:113-117: taking the receiver before the snapshot loses nothing.
THEOREM WatchIsSeamless == Spec => []WatchSeamless
  <1>1. StreamInv => WatchSeamless
    BY DEF StreamInv, ConnInv, WatchInv, WatchSeamless, Seamless, Conns
  <1> QED
    BY <1>1, StreamInvariance, PTL

\* server.rs:159-165: taking the receiver after the snapshot repeats at most
\* the chunk that was being sent.
THEOREM AttachRepeats == Spec => []AttachRepeatsAtMostOne
  <1>1. StreamInv => AttachRepeatsAtMostOne
    BY DEF StreamInv, ConnInv, AttachInv, AttachRepeatsAtMostOne, Conns
  <1> QED
    BY <1>1, StreamInvariance, PTL

-----------------------------------------------------------------------------
(* The refinement of OutputStream.                                         *)

\* A receiver is at a message of the channel or at the one to come, and what a task
\* has in its hands was sent.
AtMessage(c) ==
  /\ pc[c] = "receive" \/ (c \in Watchers /\ pc[c] \in {"snapshot", "initial"}) => next[c] >= 1
  /\ pc[c] = "forward" => next[c] >= 2 /\ next[c] <= sent + 1

ReceiverInv == \A c \in Conns : AtMessage(c)

\* A task and a channel that stay as they are, or a channel with more messages.
LEMMA AtMessageStays ==
  ASSUME TypeOK, NEW x \in Conns, AtMessage(x), sent' \in Nat, sent' >= sent,
         pc'[x] = pc[x] \/ pc'[x] = "closed", next'[x] = next[x]
  PROVE  AtMessage(x)'
  BY DEF AtMessage, TypeOK

\* Each step of a task keeps its own receiver at a message.
LEMMA AtMessageTask ==
  ASSUME TypeOK, NEW c \in Conns, AtMessage(c), Task(c)
  PROVE  AtMessage(c)' /\ sent' = sent
  <1> USE FanoutAssumption DEF TypeOK, AtMessage, loopVars
  <1>1. sent' = sent
    BY DEF Task, Attach, Subscribe, TakeSnapshot, WriteInitial, Receive, Forward, WriteFails,
           InputEnds
  <1>2. CASE Attach(c)
    BY <1>2 DEF Attach, Goto
  <1>3. CASE Subscribe(c)
    <2>1. next'[c] = sent + 1 /\ pc'[c] \in {"snapshot", "receive"}
      BY <1>3 DEF Subscribe, Goto
    <2> QED
      BY <1>1, <2>1
  <1>4. CASE TakeSnapshot(c)
    BY <1>4 DEF TakeSnapshot, Goto
  <1>5. CASE WriteInitial(c)
    <2>1. /\ pc[c] = "initial" /\ next'[c] = next[c]
          /\ pc'[c] = IF c \in Attachers THEN "subscribe" ELSE "receive"
      BY <1>5 DEF WriteInitial, Goto
    <2> QED
      BY <1>1, <2>1 DEF Conns
  <1>6. CASE Receive(c)
    <2>1. pc[c] = "receive" /\ next[c] <= sent
      BY <1>6 DEF Receive
    <2>2. \/ pc'[c] = "closed"
          \/ pc'[c] = "forward" /\ next'[c] = next[c] + 1
      BY <1>6 DEF Receive, Close, Goto
    <2> QED
      BY <1>1, <2>1, <2>2
  <1>7. CASE Forward(c)
    <2>1. pc[c] = "forward" /\ pc'[c] = "receive" /\ next'[c] = next[c]
      BY <1>7 DEF Forward, Goto
    <2> QED
      BY <1>1, <2>1
  <1>8. CASE WriteFails(c) \/ InputEnds(c)
    <2>1. pc'[c] = "closed"
      BY <1>8 DEF WriteFails, InputEnds, Close, Goto
    <2> QED
      BY <1>1, <2>1
  <1> QED
    BY <1>2, <1>3, <1>4, <1>5, <1>6, <1>7, <1>8, <1>1 DEF Task

\* A task does nothing to the receivers of others.
LEMMA AtMessageOther ==
  ASSUME TypeOK, NEW c \in Conns, Task(c), NEW x \in Conns, x # c
  PROVE  pc'[x] = pc[x] /\ next'[x] = next[x]
  BY DEF TypeOK, Task, Attach, Subscribe, TakeSnapshot, WriteInitial, Receive, Forward,
         WriteFails, InputEnds, Close, Goto

\* Every step keeps every receiver at a message.
LEMMA ReceiverStep ==
  ASSUME TypeOK, ReceiverInv, [Next]_vars, sent' \in Nat
  PROVE  ReceiverInv'
  <1> SUFFICES ASSUME NEW x \in Conns PROVE AtMessage(x)'
    BY DEF ReceiverInv
  <1>1. AtMessage(x)
    BY DEF ReceiverInv
  <1>2. CASE Produce \/ Process \/ Send \/ EndLoop
    <2>1. UNCHANGED taskVars
      BY <1>2 DEF Produce, Process, Send, EndLoop
    <2>2. sent' >= sent
      BY <1>2 DEF Produce, Process, Send, EndLoop, TypeOK
    <2> QED
      BY <1>1, <2>1, <2>2, AtMessageStays DEF taskVars
  <1>3. CASE Exit
    <2>1. pc'[x] = "closed" /\ sent' = sent /\ next' = next
      BY <1>3 DEF Exit
    <2> QED
      BY <2>1 DEF AtMessage
  <1>4. ASSUME NEW c \in Conns, Task(c) PROVE AtMessage(x)'
    <2>1. CASE c = x
      BY <1>1, <1>4, <2>1, AtMessageTask
    <2>2. CASE c # x
      <3>1. AtMessage(c)
        BY DEF ReceiverInv
      <3>2. sent' = sent
        BY <1>4, <3>1, AtMessageTask
      <3> QED
        BY <1>1, <1>4, <2>2, <3>2, AtMessageOther DEF AtMessage
    <2> QED
      BY <2>1, <2>2
  <1>5. CASE (\E c \in Conns : Read(c) \/ HangUp(c)) \/ UNCHANGED vars
    <2>1. UNCHANGED <<loopVars, taskVars>>
      BY <1>5 DEF Read, HangUp, vars
    <2> QED
      BY <1>1, <2>1 DEF AtMessage, loopVars, taskVars
  <1> QED
    BY <1>2, <1>3, <1>4, <1>5 DEF Next, Loop

LEMMA ReceiverInvariance == Spec => []ReceiverInv
  <1>1. Init => ReceiverInv
    BY DEF Init, ReceiverInv, AtMessage
  <1>2. CountInv /\ CountInv' /\ ReceiverInv /\ [Next]_vars => ReceiverInv'
    <2> SUFFICES ASSUME CountInv, CountInv', ReceiverInv, [Next]_vars PROVE ReceiverInv'
      OBVIOUS
    <2>1. TypeOK /\ sent' \in Nat
      BY DEF CountInv, TypeOK
    <2> QED
      BY <2>1, ReceiverStep
  <1> QED
    BY <1>1, <1>2, CountInvariance, PTL DEF Spec

LEMMA ClientsAreConns == OS!Clients = Conns
  BY DEF OS!Clients, Conns

\* What a client sees of a step of its task.
LEMMA StageMoves ==
  ASSUME TypeOK, NEW c \in Conns, NEW p \in Steps, pc' = [pc EXCEPT ![c] = p]
  PROVE  /\ stages' = [stages EXCEPT ![c] = StageOf(p)]
         /\ StageOf(p) = StageOf(pc[c]) => stages' = stages
         /\ stages[c] = StageOf(pc[c])
  BY DEF stages, TypeOK

\* A task that returns ends its stream.
LEMMA CloseEnds ==
  ASSUME TypeOK, NEW c \in Conns, Close(c), UNCHANGED loopVars
  PROVE  OS!Next
  <1>1. pc' = [pc EXCEPT ![c] = "closed"] /\ UNCHANGED <<sent, snap, log>>
    BY DEF Close, Goto, loopVars
  <1>2. stages' = [x \in Conns |-> IF x \in {c} THEN "ended" ELSE stages[x]]
    BY <1>1 DEF stages, StageOf, TypeOK
  <1>3. OS!End({c})
    BY <1>1, <1>2, ClientsAreConns DEF OS!End
  <1> QED
    BY <1>3, ClientsAreConns DEF OS!Next

\* A step of a task on the way to its stream, or to its next message, goes unseen.
LEMMA Unnoticed ==
  ASSUME TypeOK, NEW c \in Conns, NEW p \in Steps,
         pc' = [pc EXCEPT ![c] = p], StageOf(p) = StageOf(pc[c]),
         UNCHANGED <<sent, snap, log>>
  PROVE  UNCHANGED OS!ovars
  BY StageMoves DEF OS!ovars

\* A snapshot is up to date.
LEMMA SnapshotShows ==
  ASSUME TypeOK, LoopInv, NEW c \in Conns, TakeSnapshot(c)
  PROVE  OS!Next
  <1>1. /\ pc[c] = "snapshot" /\ pc' = [pc EXCEPT ![c] = "initial"]
        /\ snap' = [snap EXCEPT ![c] = processed] /\ UNCHANGED <<sent, log>>
    BY DEF TakeSnapshot, Goto, loopVars
  <1>2. stages[c] = "waiting" /\ stages' = [stages EXCEPT ![c] = "following"]
    BY <1>1, StageMoves DEF StageOf, Steps
  <1>3. processed \in OS!UpToDate
    BY DEF TypeOK, LoopInv, OS!UpToDate
  <1>4. OS!Show(c, processed)
    BY <1>1, <1>2 DEF OS!Show
  <1> QED
    BY <1>3, <1>4, ClientsAreConns DEF OS!Next

\* What is forwarded was sent, and follows what the client has.
LEMMA ForwardDelivers ==
  ASSUME TypeOK, StreamInv, ReceiverInv, NEW c \in Conns, Forward(c)
  PROVE  OS!Next
  <1> DEFINE m == next[c] - 1
  <1>1. /\ pc[c] = "forward" /\ pc' = [pc EXCEPT ![c] = "receive"]
        /\ log' = [log EXCEPT ![c] = Append(@, m)] /\ UNCHANGED <<sent, snap>>
    BY DEF Forward, Goto, loopVars
  <1>2. stages[c] = "following" /\ stages' = stages
    BY <1>1, StageMoves DEF StageOf, Steps
  <1>3. m \in 1..sent
    BY <1>1 DEF ReceiverInv, AtMessage, TypeOK
  <1>4. LogInv(c) /\ WatchInv(c) /\ AttachInv(c)
    BY DEF StreamInv, ConnInv
  <1>5. Streaming(c) /\ Upcoming(c) = m /\ ~Dry(c)
    BY <1>1 DEF Streaming, Upcoming, Dry
  <1>6. snap[c] \in Nat /\ log[c] \in Seq(Nat)
    BY DEF TypeOK
  <1> HIDE DEF m
  <1>7. log[c] # <<>> => m = log[c][Len(log[c])] + 1
    BY <1>4, <1>5 DEF LogInv
  <1>8. log[c] = <<>> => /\ c \in Watchers => m <= snap[c] + 1
                         /\ c \in Attachers => m >= snap[c]
    BY <1>4, <1>5 DEF WatchInv, AttachInv
  <1>9. OS!Follows(c, m)
    BY <1>7, <1>8 DEF OS!Follows
  <1>10. OS!Deliver(c, m)
    BY <1>1, <1>2, <1>9 DEF OS!Deliver
  <1> QED
    BY <1>3, <1>10, ClientsAreConns DEF OS!Next

\* Every step is a step of the output stream or changes nothing that it shows.
LEMMA StreamStep ==
  ASSUME TypeOK, StreamInv, ReceiverInv, [Next]_vars
  PROVE  [OS!Next]_<<sent, stages, snap, log>>
  <1>1. CASE Produce \/ Process
    <2>1. UNCHANGED <<sent, pc, snap, log>>
      BY <1>1 DEF Produce, Process, taskVars
    <2> QED
      BY <2>1 DEF stages
  <1>2. CASE Send \/ EndLoop
    <2>1. UNCHANGED <<pc, snap, log>> /\ sent' \in {sent, sent + 1}
      BY <1>2 DEF Send, EndLoop, taskVars
    <2>2. UNCHANGED <<stages, snap, log>>
      BY <2>1 DEF stages
    <2> QED
      BY <2>1, <2>2 DEF OS!Next, OS!Make
  <1>3. CASE Exit
    <2>1. pc' = [c \in Conns |-> "closed"] /\ UNCHANGED <<sent, snap, log>>
      BY <1>3 DEF Exit
    <2>2. stages' = [c \in Conns |-> IF c \in Conns THEN "ended" ELSE stages[c]]
      BY <2>1 DEF stages, StageOf
    <2>3. OS!End(Conns)
      BY <2>1, <2>2, ClientsAreConns DEF OS!End
    <2> QED
      BY <2>3, ClientsAreConns DEF OS!Next
  <1>4. ASSUME NEW c \in Conns, Task(c)
        PROVE  [OS!Next]_<<sent, stages, snap, log>>
    <2>1. ASSUME NEW p \in Steps, pc' = [pc EXCEPT ![c] = p], StageOf(p) = StageOf(pc[c]),
                 UNCHANGED <<sent, snap, log>>
          PROVE  [OS!Next]_<<sent, stages, snap, log>>
      BY <2>1, Unnoticed DEF OS!ovars
    <2>2. CASE Attach(c)
      <3>1. pc' = [pc EXCEPT ![c] = "snapshot"] /\ pc[c] = "start" /\ UNCHANGED <<sent, snap, log>>
        BY <2>2 DEF Attach, Goto, loopVars
      <3> QED
        BY <2>1, <3>1 DEF StageOf, Steps
    <2>3. CASE Subscribe(c)
      <3>1. UNCHANGED <<sent, snap, log>>
        BY <2>3 DEF Subscribe, loopVars
      <3>2. CASE pc[c] = "start" /\ pc' = [pc EXCEPT ![c] = "snapshot"]
        BY <2>1, <3>1, <3>2 DEF StageOf, Steps
      <3>3. CASE pc[c] = "subscribe" /\ pc' = [pc EXCEPT ![c] = "receive"]
        BY <2>1, <3>1, <3>3 DEF StageOf, Steps
      <3> QED
        BY <2>3, <3>2, <3>3 DEF Subscribe, Goto
    <2>4. CASE TakeSnapshot(c)
      BY <2>4, SnapshotShows DEF StreamInv
    <2>5. CASE WriteInitial(c)
      <3>1. UNCHANGED <<sent, snap, log>> /\ pc[c] = "initial"
        BY <2>5 DEF WriteInitial, loopVars
      <3>2. \E p \in {"subscribe", "receive"} : pc' = [pc EXCEPT ![c] = p]
        BY <2>5 DEF WriteInitial, Goto
      <3> QED
        BY <2>1, <3>1, <3>2 DEF StageOf, Steps
    <2>6. CASE Receive(c)
      <3>1. pc[c] = "receive" /\ UNCHANGED loopVars
        BY <2>6 DEF Receive
      <3>2. CASE Close(c)
        BY <3>1, <3>2, CloseEnds
      <3>3. CASE pc' = [pc EXCEPT ![c] = "forward"] /\ UNCHANGED <<snap, log>>
        BY <2>1, <3>1, <3>3 DEF StageOf, Steps, loopVars
      <3> QED
        BY <2>6, <3>2, <3>3 DEF Receive, Goto
    <2>7. CASE Forward(c)
      BY <2>7, ForwardDelivers
    <2>8. CASE WriteFails(c) \/ InputEnds(c)
      <3>1. Close(c) /\ UNCHANGED loopVars
        BY <2>8 DEF WriteFails, InputEnds
      <3> QED
        BY <3>1, CloseEnds
    <2> QED
      BY <1>4, <2>2, <2>3, <2>4, <2>5, <2>6, <2>7, <2>8 DEF Task
  <1>5. CASE (\E c \in Conns : Read(c) \/ HangUp(c)) \/ UNCHANGED vars
    <2>1. UNCHANGED <<sent, pc, snap, log>>
      BY <1>5 DEF Read, HangUp, vars, loopVars, taskVars
    <2> QED
      BY <2>1 DEF stages
  <1> QED
    BY <1>1, <1>2, <1>3, <1>4, <1>5 DEF Next, Loop

\* server.rs:113-126, 146-195: for any clients, any capacity of the channel and
\* whatever the clients do, each is shown an up-to-date screen and then messages
\* that were sent, one after the other, until its stream ends for good.
THEOREM FanoutImplements == Spec => ImplementsOutputStream
  <1>1. Init => OS!Init
    BY DEF Init, OS!Init, OS!Clients, Conns, stages, StageOf
  <1>2. CountInv /\ StreamInv /\ ReceiverInv /\ [Next]_vars => [OS!Next]_<<sent, stages, snap, log>>
    BY StreamStep DEF CountInv
  <1> QED
    BY <1>1, <1>2, CountInvariance, StreamInvariance, ReceiverInvariance, PTL
       DEF Spec, ImplementsOutputStream, OS!Spec, OS!ovars
=============================================================================
