------------------------------- MODULE Events -------------------------------
(***************************************************************************)
(* The session events of `watch --exec`.  One detector per daemon receives *)
(* the output after it was fed to the terminal, and sends an event when a  *)
(* line was completed and the output then paused, or did not pause for too *)
(* long.  One task per watcher receives the events from a second bounded   *)
(* channel and writes them to its client.  When the session ends an exit   *)
(* event is sent, and the process waits a moment for the watchers.         *)
(*                                                                         *)
(* Text is what matters of output and events: a text is the sequence of    *)
(* the numbers of the chunks it shows.  Time is counted in units that are  *)
(* short against TICK; ages stop at AgeBound.                              *)
(***************************************************************************)
EXTENDS Naturals, Sequences

CONSTANTS
  Watchers,        \* connections that send SubscribeEvents
  OutputCapacity,  \* chunks the output channel keeps (1024)
  EventCapacity,   \* events the events channel keeps (64)
  Tick, Settle, MaxWait,  \* TICK, SETTLE, MAX_WAIT in units of time
  MaxChunks        \* bound on the output

ASSUME EventsAssumption ==
  /\ OutputCapacity \in Nat \ {0} /\ EventCapacity \in Nat \ {0}
  /\ Tick \in Nat \ {0} /\ Settle \in Nat \ {0} /\ MaxWait \in Nat \ {0}
  /\ MaxChunks \in Nat

VARIABLES
  chunks,     \* the output so far: what each chunk does to the screen
  alternate,  \* terminal.alternate_screen()
  over,       \* the PTY event loop has ended and fired `shutdown`
  exited,     \* the daemon process has exited
  seen,       \* chunks the detector has received or missed
  text,       \* new_text: the chunks to be told with the next event
  truncated,  \* new_text.truncated
  newLine,    \* new_line_at is set
  stopped,    \* the detector has returned
  events,     \* the events sent
  lineAge,    \* time since new_line_at
  quiet,      \* time since last_output
  mainFor,    \* time since the terminal left the alternate screen
  tillTick,   \* time to the next tick
  stage,      \* where the task of a watcher is
  pos,        \* the next event its receiver will get
  got,        \* the events written to its client
  gone        \* watchers whose client has closed its end

outputVars == <<chunks, alternate, over, exited>>
detectorVars == <<seen, text, truncated, newLine, stopped, events>>
clocks == <<lineAge, quiet, mainFor, tillTick>>
watchVars == <<stage, pos, got, gone>>
vars == <<outputVars, detectorVars, clocks, watchVars>>

\* A chunk completes a line, does not, enters the alternate screen or leaves it.
Kinds == {"line", "part", "alternate", "main"}

AgeBound == (IF Settle < MaxWait THEN MaxWait ELSE Settle) + Tick + 1

TypeOK ==
  /\ chunks \in Seq(Kinds) /\ alternate \in BOOLEAN
  /\ over \in BOOLEAN /\ exited \in BOOLEAN
  /\ seen \in 0..Len(chunks)
  /\ text \in Seq(Nat)
  /\ truncated \in BOOLEAN /\ newLine \in BOOLEAN /\ stopped \in BOOLEAN
  /\ events \in Seq([kind : {"done", "output", "exit"}, text : Seq(Nat),
                     truncated : BOOLEAN, upTo : Nat])
  /\ lineAge \in 0..AgeBound /\ quiet \in 0..AgeBound /\ mainFor \in 0..AgeBound
  /\ tillTick \in 0..Tick
  /\ stage \in [Watchers -> {"start", "receive", "write", "closed"}]
  /\ pos \in [Watchers -> Nat]
  /\ got \in [Watchers -> Seq(Nat)]
  /\ gone \subseteq Watchers

Init ==
  /\ chunks = <<>> /\ alternate = FALSE /\ over = FALSE /\ exited = FALSE
  /\ seen = 0 /\ text = <<>> /\ truncated = FALSE /\ newLine = FALSE /\ stopped = FALSE
  /\ events = <<>>
  /\ lineAge = 0 /\ quiet = 0 /\ mainFor = 0 /\ tillTick = 0
  /\ stage = [w \in Watchers |-> "start"]
  /\ pos = [w \in Watchers |-> 1]
  /\ got = [w \in Watchers |-> <<>>]
  /\ gone = {}

-----------------------------------------------------------------------------
(* The PTY event loop and the clock                                        *)

\* terminal.process and broadcast_tx.send
Output(k) ==
  /\ ~over /\ Len(chunks) < MaxChunks
  /\ chunks' = Append(chunks, k)
  /\ alternate' = (k = "alternate" \/ (alternate /\ k # "main"))
  /\ mainFor' = IF alternate' THEN 0 ELSE mainFor
  /\ UNCHANGED <<over, exited, detectorVars, lineAge, quiet, tillTick, watchVars>>

\* run_pty_event_loop returns and shutdown_tx fires.
EndLoop ==
  /\ ~over
  /\ over' = TRUE
  /\ UNCHANGED <<chunks, alternate, exited, detectorVars, clocks, watchVars>>

Older(age) == IF age < AgeBound THEN age + 1 ELSE age

\* A tick is handled when it is due; nothing else has to happen in time.
Elapse ==
  /\ tillTick > 0 /\ ~stopped
  /\ tillTick' = tillTick - 1
  /\ lineAge' = IF newLine THEN Older(lineAge) ELSE 0
  /\ quiet' = Older(quiet)
  /\ mainFor' = IF alternate THEN 0 ELSE Older(mainFor)
  /\ UNCHANGED <<outputVars, detectorVars, watchVars>>

-----------------------------------------------------------------------------
(* run_event_detector                                                      *)

\* Output was seen: a new line starts to wait unless one does already.
Heard(isLine) ==
  /\ newLine' = (newLine \/ isLine)
  /\ lineAge' = IF newLine THEN lineAge ELSE 0
  /\ quiet' = 0
  /\ UNCHANGED <<outputVars, stopped, events, mainFor, tillTick, watchVars>>

\* The channel has overwritten chunks the detector has not received.
Lagging == Len(chunks) - seen > OutputCapacity

\* new_text.push: the chunk is the next one the channel still has.
Push ==
  /\ ~stopped /\ seen < Len(chunks) /\ ~Lagging
  /\ seen' = seen + 1
  /\ text' = Append(text, seen + 1)
  /\ Heard(chunks[seen + 1] = "line")
  /\ UNCHANGED truncated

\* Mutant: lag that is added to a position the channel has moved already.
MissTwice ==
  /\ ~stopped /\ Lagging
  /\ seen' = Len(chunks) - OutputCapacity + (Len(chunks) - OutputCapacity - seen)
  /\ truncated' = TRUE
  /\ Heard(TRUE)
  /\ UNCHANGED text

\* Mutant: lag that is not recorded.
MissUnmarked ==
  /\ ~stopped /\ Lagging
  /\ seen' = Len(chunks) - OutputCapacity
  /\ Heard(TRUE)
  /\ UNCHANGED <<text, truncated>>

\* RecvError::Lagged: new_text.mark_truncated
Miss ==
  /\ ~stopped /\ Lagging
  /\ seen' = Len(chunks) - OutputCapacity
  /\ truncated' = TRUE
  /\ Heard(TRUE)
  /\ UNCHANGED text

\* emit: the event takes the text.
Emit(k) ==
  /\ events' = Append(events, [kind |-> k, text |-> text, truncated |-> truncated, upTo |-> seen])
  /\ text' = <<>>
  /\ truncated' = FALSE
  /\ UNCHANGED <<seen, outputVars, quiet, mainFor, watchVars>>

\* Mutant: a tick that reports only when the output pauses.
HandleTickPatiently ==
  /\ ~stopped /\ tillTick = 0
  /\ tillTick' = Tick
  /\ IF newLine /\ ~alternate /\ quiet >= Settle
     THEN /\ \E k \in {"done", "output"} : Emit(k)
          /\ newLine' = FALSE /\ lineAge' = 0
          /\ UNCHANGED stopped
     ELSE UNCHANGED <<outputVars, detectorVars, lineAge, quiet, mainFor, watchVars>>

\* ticker.tick(); the kind depends on who owns the terminal's foreground.
HandleTick ==
  /\ ~stopped /\ tillTick = 0
  /\ tillTick' = Tick
  /\ IF newLine /\ ~alternate /\ (quiet >= Settle \/ lineAge >= MaxWait)
     THEN /\ \E k \in {"done", "output"} : Emit(k)
          /\ newLine' = FALSE /\ lineAge' = 0
          /\ UNCHANGED stopped
     ELSE UNCHANGED <<outputVars, detectorVars, lineAge, quiet, mainFor, watchVars>>

\* select! may take the shutdown before output that is waiting.
Shutdown ==
  /\ ~stopped /\ over
  /\ Emit("exit")
  /\ stopped' = TRUE
  /\ UNCHANGED <<newLine, lineAge, tillTick>>

-----------------------------------------------------------------------------
(* The task of a watcher                                                   *)

Goto(w, s) == stage' = [stage EXCEPT ![w] = s]

Subscribe(w) ==
  /\ stage[w] = "start" /\ ~exited
  /\ pos' = [pos EXCEPT ![w] = Len(events) + 1]
  /\ Goto(w, "receive")
  /\ UNCHANGED <<outputVars, detectorVars, clocks, got, gone>>

\* The channel has overwritten events the watcher has not received.
Overtaken(w) == pos[w] + EventCapacity <= Len(events)

Receive(w) ==
  /\ stage[w] = "receive" /\ pos[w] <= Len(events) /\ ~Overtaken(w)
  /\ pos' = [pos EXCEPT ![w] = @ + 1]
  /\ Goto(w, "write")
  /\ UNCHANGED <<outputVars, detectorVars, clocks, got, gone>>

\* Mutant: a watcher that subscribes again when it was overtaken.
SkipToEnd(w) ==
  /\ stage[w] = "receive" /\ Overtaken(w)
  /\ pos' = [pos EXCEPT ![w] = Len(events) + 1]
  /\ UNCHANGED <<outputVars, detectorVars, clocks, stage, got, gone>>

\* Mutant: a watcher that returns when it was overtaken, as an attach does.
ReturnOvertaken(w) ==
  /\ stage[w] = "receive" /\ Overtaken(w)
  /\ Goto(w, "closed")
  /\ UNCHANGED <<outputVars, detectorVars, clocks, pos, got, gone>>

\* RecvError::Lagged: continue with the oldest event the channel still has.
Skip(w) ==
  /\ stage[w] = "receive" /\ Overtaken(w)
  /\ pos' = [pos EXCEPT ![w] = Len(events) - EventCapacity + 1]
  /\ UNCHANGED <<outputVars, detectorVars, clocks, stage, got, gone>>

\* Mutant: a task that returns only when a write fails.
WriteOn(w) ==
  /\ stage[w] = "write" /\ w \notin gone
  /\ got' = [got EXCEPT ![w] = Append(@, pos[w] - 1)]
  /\ Goto(w, "receive")
  /\ UNCHANGED <<outputVars, detectorVars, clocks, pos, gone>>

\* write_json_line; the task returns after the exit event.
Write(w) ==
  /\ stage[w] = "write" /\ w \notin gone
  /\ got' = [got EXCEPT ![w] = Append(@, pos[w] - 1)]
  /\ Goto(w, IF events[pos[w] - 1].kind = "exit" THEN "closed" ELSE "receive")
  /\ UNCHANGED <<outputVars, detectorVars, clocks, pos, gone>>

WriteFails(w) ==
  /\ stage[w] = "write" /\ w \in gone
  /\ Goto(w, "closed")
  /\ UNCHANGED <<outputVars, detectorVars, clocks, pos, got, gone>>

HangUp(w) ==
  /\ stage[w] # "start" /\ w \notin gone
  /\ gone' = gone \cup {w}
  /\ UNCHANGED <<outputVars, detectorVars, clocks, stage, pos, got>>

-----------------------------------------------------------------------------
(* The end of the process                                                  *)

\* events_tx.receiver_count() = 0
Drained == \A w \in Watchers : stage[w] \notin {"receive", "write"}

\* The watchers have all returned, or 500 ms have passed.
Exit ==
  /\ stopped /\ ~exited
  /\ exited' = TRUE
  /\ stage' = [w \in Watchers |-> "closed"]
  /\ UNCHANGED <<chunks, alternate, over, detectorVars, clocks, pos, got, gone>>

-----------------------------------------------------------------------------
Detector == Push \/ Miss \/ HandleTick \/ Shutdown

Watcher(w) ==
  Subscribe(w) \/ Receive(w) \/ Skip(w) \/ Write(w) \/ WriteFails(w) \/ HangUp(w)

Next ==
  \/ \E k \in Kinds : Output(k)
  \/ EndLoop \/ Elapse \/ Detector \/ Exit
  \/ \E w \in Watchers : Watcher(w)

Spec == Init /\ [][Next]_vars

\* The 500 ms are enough: the process does not exit before its watchers have
\* returned, their tasks are polled and their clients read.
PromptSpec ==
  /\ Init /\ [][Next /\ (exited' # exited => Drained)]_vars
  /\ WF_vars(Shutdown)
  /\ \A w \in Watchers :
       WF_vars(Receive(w)) /\ WF_vars(Skip(w)) /\ WF_vars(Write(w)) /\ WF_vars(WriteFails(w))

-----------------------------------------------------------------------------
(* Properties                                                              *)

\* What was seen when the event before the i-th was sent.
SeenBefore(i) == IF i = 1 THEN 0 ELSE events[i - 1].upTo

\* t shows chunks after `from` up to `to`, in order.
Shows(t, from, to) ==
  /\ \A j \in 1..Len(t) : from < t[j] /\ t[j] <= to
  /\ \A j \in 1..(Len(t) - 1) : t[j] < t[j + 1]

\* The texts of consecutive events join: each tells, in order, what was seen
\* since the event before it, all of it unless it says that lines are omitted.
TextsJoin ==
  \A i \in 1..Len(events) :
    LET e == events[i] IN
    /\ Shows(e.text, SeenBefore(i), e.upTo)
    /\ ~e.truncated => Len(e.text) = e.upTo - SeenBefore(i)

\* A completed line is told within SETTLE and a TICK of the last output, and
\* within MAX_WAIT and a TICK even if the output never pauses, unless a
\* full-screen program runs or ran until just now.
NothingOverdue ==
  ~stopped /\ newLine /\ mainFor > Tick => quiet <= Settle + Tick /\ lineAge <= MaxWait + Tick

\* The events a watcher was written, and the one it is to be written next.
Course(w) ==
  got[w] \o CASE stage[w] = "receive" -> <<pos[w]>>
              [] stage[w] = "write"   -> <<pos[w] - 1>>
              [] OTHER                -> <<>>

\* A watcher gets events in the order they were sent, none twice, and what a
\* slow one misses was overwritten: never one of the newest EventCapacity.
LosesOnlyOldEvents ==
  \A w \in Watchers : \A i \in 1..(Len(Course(w)) - 1) :
    /\ Course(w)[i] < Course(w)[i + 1]
    /\ \A k \in (Course(w)[i] + 1)..(Course(w)[i + 1] - 1) : k + EventCapacity <= Len(events)

SeesExit(w) == \E i \in DOMAIN got[w] : events[got[w][i]].kind = "exit"

\* A watcher that was there before the session ended and keeps reading gets
\* the exit event, even if it was overtaken by the others before.
ExitReachesWatchers ==
  \A w \in Watchers :
    (over /\ ~stopped /\ stage[w] \in {"receive", "write"}) ~> (SeesExit(w) \/ w \in gone)

-----------------------------------------------------------------------------
(* What the events implement                                               *)

\* Where a watcher is, and the event that it is to be written next.
stages ==
  [w \in Watchers |->
     CASE stage[w] = "start" -> "waiting" [] stage[w] = "closed" -> "ended" [] OTHER -> "following"]

due ==
  [w \in Watchers |->
     CASE stage[w] = "receive" -> pos[w] [] stage[w] = "write" -> pos[w] - 1 [] OTHER -> 0]

EL == INSTANCE EventLog WITH
        Followers <- Watchers, Kept <- EventCapacity,
        output <- Len(chunks), log <- events, stage <- stages, next <- due

\* Every step of the detector and of the watchers is a step of the event log: the
\* exit comes last and once, and a watcher gets all that was sent since it came
\* but what was overwritten, in order, up to the exit.
ImplementsEventLog == EL!Spec

-----------------------------------------------------------------------------
(* What the repository says of the events and the code does not keep       *)

\* ipc.rs:219-221: the texts joined together read like the screen, so the exit
\* event tells what the screen showed at the end, or that lines are omitted.
ExitTellsTheRest ==
  \A i \in 1..Len(events) :
    events[i].kind = "exit" => events[i].truncated \/ events[i].upTo = Len(chunks)
=============================================================================
