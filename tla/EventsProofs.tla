---------------------------- MODULE EventsProofs ----------------------------
(***************************************************************************)
(* Proofs of the safety properties of Events, for any watchers, any        *)
(* capacities, any periods and any amount of output.                       *)
(***************************************************************************)
EXTENDS Events, TLAPS

EventSet == [kind : {"done", "output", "exit"}, text : Seq(Nat),
             truncated : BOOLEAN, upTo : Nat]

\* What Append does to a sequence, and to the ends of it.
LEMMA AppendEnds ==
  ASSUME NEW S, NEW s \in Seq(S), NEW e \in S
  PROVE  /\ Append(s, e) \in Seq(S) /\ Len(s) \in Nat
         /\ Len(Append(s, e)) = Len(s) + 1
         /\ Append(s, e)[Len(s) + 1] = e
         /\ \A i \in 1..Len(s) : Append(s, e)[i] = s[i]
         /\ s = <<>> <=> Len(s) = 0
  OBVIOUS

-----------------------------------------------------------------------------
(* Types                                                                   *)

\* A watcher that writes has received.
WritesSomething == \A w \in Watchers : stage[w] = "write" => pos[w] >= 1

TypeInv == TypeOK /\ WritesSomething

OutputTypes ==
  /\ chunks \in Seq(Kinds) /\ alternate \in BOOLEAN
  /\ over \in BOOLEAN /\ exited \in BOOLEAN

DetectorTypes ==
  /\ seen \in 0..Len(chunks)
  /\ text \in Seq(Nat)
  /\ truncated \in BOOLEAN /\ newLine \in BOOLEAN /\ stopped \in BOOLEAN
  /\ events \in Seq(EventSet)

ClockTypes ==
  /\ lineAge \in 0..AgeBound /\ quiet \in 0..AgeBound /\ mainFor \in 0..AgeBound
  /\ tillTick \in 0..Tick

WatchTypes ==
  /\ stage \in [Watchers -> {"start", "receive", "write", "closed"}]
  /\ pos \in [Watchers -> Nat]
  /\ got \in [Watchers -> Seq(Nat)]
  /\ gone \subseteq Watchers
  /\ WritesSomething

\* The type invariant, part by part.
LEMMA TypeParts == TypeInv <=> OutputTypes /\ DetectorTypes /\ ClockTypes /\ WatchTypes
  BY DEF TypeInv, TypeOK, OutputTypes, DetectorTypes, ClockTypes, WatchTypes, EventSet

\* An event is well formed.
LEMMA EmitTypes ==
  ASSUME DetectorTypes, NEW k \in {"done", "output", "exit"}, Emit(k)
  PROVE  /\ events' \in Seq(EventSet) /\ Len(events') = Len(events) + 1
         /\ text' = <<>> /\ truncated' = FALSE
  <1> DEFINE e == [kind |-> k, text |-> text, truncated |-> truncated, upTo |-> seen]
  <1>1. Len(chunks) \in Nat \/ seen \in Nat
    BY DEF DetectorTypes
  <1>2. seen \in Nat
    BY DEF DetectorTypes
  <1>3. e \in EventSet
    BY <1>2 DEF DetectorTypes, EventSet
  <1>4. events' = Append(events, e)
    BY DEF Emit
  <1> HIDE DEF e
  <1> QED
    BY <1>3, <1>4, AppendEnds DEF Emit, DetectorTypes

\* Sending an event keeps the types of the output and the detector.
LEMMA EmitKeepsTypes ==
  ASSUME OutputTypes, DetectorTypes, NEW k \in {"done", "output", "exit"}, Emit(k),
         newLine' \in BOOLEAN, stopped' \in BOOLEAN
  PROVE  OutputTypes' /\ DetectorTypes'
  <1>1. /\ events' \in Seq(EventSet) /\ text' = <<>> /\ truncated' = FALSE
    BY EmitTypes
  <1>2. UNCHANGED <<seen, chunks, alternate, over, exited>>
    BY DEF Emit, outputVars
  <1>3. text' \in Seq(Nat)
    BY <1>1
  <1>4. OutputTypes'
    BY <1>2 DEF OutputTypes
  <1>5. DetectorTypes'
    BY <1>1, <1>2, <1>3 DEF DetectorTypes
  <1> QED
    BY <1>4, <1>5

\* Every step of the output and the detector keeps their types.
LEMMA DetectorTypeStep ==
  ASSUME TypeInv, Next
  PROVE  OutputTypes' /\ DetectorTypes'
  <1> USE EventsAssumption DEF OutputTypes, DetectorTypes
  <1>0. OutputTypes /\ DetectorTypes /\ Len(chunks) \in Nat
    BY TypeParts
  <1>1. ASSUME NEW k \in Kinds, Output(k) PROVE OutputTypes' /\ DetectorTypes'
    <2>1. chunks' = Append(chunks, k) /\ alternate' \in BOOLEAN /\ UNCHANGED <<over, exited, detectorVars>>
      BY <1>1 DEF Output
    <2>2. chunks' \in Seq(Kinds) /\ Len(chunks') = Len(chunks) + 1
      BY <1>0, <2>1, AppendEnds
    <2> QED
      BY <1>0, <2>1, <2>2 DEF detectorVars
  <1>2. CASE EndLoop \/ Exit
    BY <1>0, <1>2 DEF EndLoop, Exit, detectorVars
  <1>3. CASE Elapse
    BY <1>0, <1>3 DEF Elapse, outputVars, detectorVars
  <1>4. CASE Push
    <2>1. /\ seen' = seen + 1 /\ text' = Append(text, seen + 1) /\ newLine' \in BOOLEAN
          /\ seen < Len(chunks) /\ UNCHANGED <<outputVars, truncated, stopped, events>>
      BY <1>0, <1>4 DEF Push, Heard
    <2>2. text' \in Seq(Nat)
      BY <1>0, <2>1, AppendEnds
    <2> QED
      BY <1>0, <2>1, <2>2 DEF outputVars
  <1>5. CASE Miss
    <2>1. /\ seen' = Len(chunks) - OutputCapacity /\ Len(chunks) - seen > OutputCapacity
          /\ truncated' = TRUE /\ newLine' \in BOOLEAN
          /\ UNCHANGED <<outputVars, text, stopped, events>>
      BY <1>0, <1>5 DEF Miss, Heard, Lagging
    <2> QED
      BY <1>0, <2>1 DEF outputVars
  <1>6. CASE HandleTick
    <2>1. ASSUME NEW k \in {"done", "output"}, Emit(k), newLine' = FALSE, UNCHANGED stopped
          PROVE  OutputTypes' /\ DetectorTypes'
      BY <1>0, <2>1, EmitKeepsTypes
    <2>2. CASE UNCHANGED <<outputVars, detectorVars>>
      BY <1>0, <2>2 DEF outputVars, detectorVars
    <2> QED
      BY <1>6, <2>1, <2>2 DEF HandleTick
  <1>7. CASE Shutdown
    <2>1. Emit("exit") /\ newLine' \in BOOLEAN /\ stopped' \in BOOLEAN
      BY <1>0, <1>7 DEF Shutdown
    <2> QED
      BY <1>0, <2>1, EmitKeepsTypes
  <1>8. ASSUME NEW w \in Watchers, Watcher(w) PROVE OutputTypes' /\ DetectorTypes'
    <2>1. UNCHANGED <<outputVars, detectorVars>>
      BY <1>8 DEF Watcher, Subscribe, Receive, Skip, Write, WriteFails, HangUp
    <2> QED
      BY <1>0, <2>1 DEF outputVars, detectorVars
  <1> QED
    BY <1>1, <1>2, <1>3, <1>4, <1>5, <1>6, <1>7, <1>8 DEF Next, Detector

\* Every step keeps the types of the clocks.
LEMMA ClockTypeStep ==
  ASSUME TypeInv, Next
  PROVE  ClockTypes'
  <1> USE EventsAssumption DEF ClockTypes, AgeBound
  <1>0. ClockTypes
    BY TypeParts
  <1>1. ASSUME NEW k \in Kinds, Output(k) PROVE ClockTypes'
    BY <1>0, <1>1 DEF Output
  <1>2. CASE EndLoop \/ Exit
    BY <1>0, <1>2 DEF EndLoop, Exit, clocks
  <1>3. CASE Elapse
    BY <1>0, <1>3 DEF Elapse, Older
  <1>4. CASE Push \/ Miss
    BY <1>0, <1>4 DEF Push, Miss, Heard
  <1>5. CASE HandleTick
    BY <1>0, <1>5 DEF HandleTick, Emit
  <1>6. CASE Shutdown
    BY <1>0, <1>6 DEF Shutdown, Emit
  <1>7. ASSUME NEW w \in Watchers, Watcher(w) PROVE ClockTypes'
    <2>1. UNCHANGED clocks
      BY <1>7 DEF Watcher, Subscribe, Receive, Skip, Write, WriteFails, HangUp
    <2> QED
      BY <1>0, <2>1 DEF clocks
  <1> QED
    BY <1>1, <1>2, <1>3, <1>4, <1>5, <1>6, <1>7 DEF Next, Detector

\* Every step keeps the types of the watchers' variables.
LEMMA WatchTypeStep ==
  ASSUME TypeInv, Next
  PROVE  WatchTypes'
  <1> USE EventsAssumption DEF WatchTypes, WritesSomething
  <1>0. WatchTypes /\ Len(events) \in Nat
    BY TypeParts DEF DetectorTypes
  <1>1. CASE UNCHANGED watchVars
    BY <1>0, <1>1 DEF watchVars
  <1>2. CASE (\E k \in Kinds : Output(k)) \/ EndLoop \/ Elapse \/ Detector
    <2>1. UNCHANGED watchVars
      BY <1>2 DEF Output, EndLoop, Elapse, Detector, Push, Miss, Heard, HandleTick, Shutdown, Emit
    <2> QED
      BY <1>1, <2>1
  <1>3. CASE Exit
    BY <1>0, <1>3 DEF Exit
  <1>4. ASSUME NEW w \in Watchers, Subscribe(w) PROVE WatchTypes'
    BY <1>0, <1>4 DEF Subscribe, Goto
  <1>5. ASSUME NEW w \in Watchers, Receive(w) PROVE WatchTypes'
    BY <1>0, <1>5 DEF Receive, Goto
  <1>6. ASSUME NEW w \in Watchers, Skip(w) PROVE WatchTypes'
    BY <1>0, <1>6 DEF Skip, Overtaken
  <1>7. ASSUME NEW w \in Watchers, Write(w) PROVE WatchTypes'
    <2>1. pos[w] - 1 \in Nat
      BY <1>0, <1>7 DEF Write
    <2>2. got' \in [Watchers -> Seq(Nat)]
      BY <1>0, <1>7, <2>1, AppendEnds DEF Write
    <2>3. PICK s \in {"closed", "receive"} : stage' = [stage EXCEPT ![w] = s]
      BY <1>7 DEF Write, Goto
    <2>4. UNCHANGED <<pos, gone>>
      BY <1>7 DEF Write
    <2> QED
      BY <1>0, <2>2, <2>3, <2>4
  <1>8. ASSUME NEW w \in Watchers, WriteFails(w) \/ HangUp(w) PROVE WatchTypes'
    BY <1>0, <1>8 DEF WriteFails, HangUp, Goto
  <1> QED
    BY <1>2, <1>3, <1>4, <1>5, <1>6, <1>7, <1>8 DEF Next, Watcher

\* The type invariant holds in every behaviour.
LEMMA TypeInvariance == Spec => []TypeInv
  <1>1. Init => TypeInv
    <2> SUFFICES ASSUME Init PROVE TypeInv
      OBVIOUS
    <2>1. OutputTypes
      <3>1. chunks = <<>> /\ alternate = FALSE /\ over = FALSE /\ exited = FALSE
        BY DEF Init
      <3>2. chunks \in Seq(Kinds)
        BY <3>1
      <3> QED
        BY <3>1, <3>2 DEF OutputTypes
    <2>2. DetectorTypes
      <3>1. /\ seen = 0 /\ text = <<>> /\ events = <<>> /\ chunks = <<>>
            /\ truncated = FALSE /\ newLine = FALSE /\ stopped = FALSE
        BY DEF Init
      <3>2. text \in Seq(Nat) /\ events \in Seq(EventSet) /\ seen \in 0..Len(chunks)
        BY <3>1
      <3> QED
        BY <3>1, <3>2 DEF DetectorTypes
    <2>3. ClockTypes
      BY EventsAssumption DEF Init, ClockTypes, AgeBound
    <2>4. WatchTypes
      BY DEF Init, WatchTypes, WritesSomething
    <2> QED
      BY <2>1, <2>2, <2>3, <2>4, TypeParts
  <1>2. TypeInv /\ [Next]_vars => TypeInv'
    <2>1. TypeInv /\ Next => TypeInv'
      <3> SUFFICES ASSUME TypeInv, Next PROVE TypeInv'
        OBVIOUS
      <3>1. OutputTypes' /\ DetectorTypes' /\ ClockTypes' /\ WatchTypes'
        BY DetectorTypeStep, ClockTypeStep, WatchTypeStep
      <3>2. OutputTypes' /\ DetectorTypes' /\ ClockTypes' /\ WatchTypes' => TypeInv'
        BY DEF TypeInv, TypeOK, OutputTypes, DetectorTypes, ClockTypes, WatchTypes, EventSet
      <3> QED
        BY <3>1, <3>2
    <2>2. TypeInv /\ UNCHANGED vars => TypeInv'
      BY DEF vars, outputVars, detectorVars, clocks, watchVars, TypeInv, TypeOK, WritesSomething
    <2> QED
      BY <2>1, <2>2
  <1> QED
    BY <1>1, <1>2, PTL DEF Spec

\* events.rs:30-91, server.rs:129-144: the variables keep their types.
THEOREM EventsTypeCorrect == Spec => []TypeOK
  BY TypeInvariance, PTL DEF TypeInv

-----------------------------------------------------------------------------
(* Timeliness.  Since the last tick was handled Tick - tillTick has passed; *)
(* a line that still waits was not due then.                                *)

SinceTick == Tick - tillTick

TimeInv ==
  /\ alternate => mainFor = 0
  /\ ~stopped /\ newLine /\ mainFor > SinceTick
       => quiet <= Settle + SinceTick /\ lineAge <= MaxWait + SinceTick

\* Every step keeps a waiting line within its deadlines.
LEMMA TimeStep ==
  ASSUME TypeInv, TimeInv, Next
  PROVE  TimeInv'
  <1> USE EventsAssumption DEF TimeInv, SinceTick
  <1>0. /\ lineAge \in 0..AgeBound /\ quiet \in 0..AgeBound /\ mainFor \in 0..AgeBound
        /\ tillTick \in 0..Tick /\ AgeBound \in Nat /\ AgeBound > Tick
        /\ alternate \in BOOLEAN /\ newLine \in BOOLEAN /\ stopped \in BOOLEAN
    BY DEF TypeInv, TypeOK, AgeBound
  <1>1. ASSUME NEW k \in Kinds, Output(k) PROVE TimeInv'
    BY <1>0, <1>1 DEF Output, detectorVars
  <1>2. CASE EndLoop
    BY <1>0, <1>2 DEF EndLoop, detectorVars, clocks
  <1>3. CASE Elapse
    <2>1. /\ tillTick > 0 /\ tillTick' = tillTick - 1
          /\ lineAge' = IF newLine THEN Older(lineAge) ELSE 0
          /\ quiet' = Older(quiet)
          /\ mainFor' = IF alternate THEN 0 ELSE Older(mainFor)
          /\ alternate' = alternate /\ newLine' = newLine /\ stopped' = stopped
      BY <1>3 DEF Elapse, outputVars, detectorVars
    <2>2. SinceTick' = SinceTick + 1 /\ SinceTick \in Nat /\ SinceTick < AgeBound
      BY <1>0, <2>1
    <2> QED
      BY <1>0, <2>1, <2>2 DEF Older
  <1>4. CASE Push \/ Miss
    <2>1. /\ UNCHANGED <<alternate, stopped, mainFor, tillTick>>
          /\ quiet' = 0 /\ lineAge' = IF newLine THEN lineAge ELSE 0
      BY <1>4 DEF Push, Miss, Heard, outputVars
    <2> QED
      BY <1>0, <2>1
  <1>5. CASE HandleTick
    <2>1. tillTick' = Tick /\ UNCHANGED <<alternate, quiet, mainFor, stopped>>
      BY <1>5 DEF HandleTick, Emit, outputVars, detectorVars
    <2>2. CASE newLine' = FALSE
      BY <1>0, <2>1, <2>2
    <2>3. CASE ~(newLine /\ ~alternate /\ (quiet >= Settle \/ lineAge >= MaxWait))
               /\ UNCHANGED <<newLine, lineAge>>
      BY <1>0, <2>1, <2>3
    <2> QED
      BY <1>5, <2>2, <2>3 DEF HandleTick, detectorVars
  <1>6. CASE Shutdown
    BY <1>0, <1>6 DEF Shutdown, Emit, outputVars
  <1>7. CASE Exit \/ \E w \in Watchers : Watcher(w)
    <2>1. UNCHANGED <<alternate, detectorVars, clocks>>
      BY <1>7 DEF Exit, Watcher, Subscribe, Receive, Skip, Write, WriteFails, HangUp, outputVars
    <2> QED
      BY <2>1 DEF detectorVars, clocks
  <1> QED
    BY <1>1, <1>2, <1>3, <1>4, <1>5, <1>6, <1>7 DEF Next, Detector

\* events.rs:76-89: a completed line is told in time.
THEOREM Timely == Spec => []NothingOverdue
  <1>1. Init => TimeInv
    BY EventsAssumption DEF Init, TimeInv
  <1>2. TypeInv /\ TimeInv /\ [Next]_vars => TimeInv'
    <2>1. TypeInv /\ TimeInv /\ Next => TimeInv'
      BY TimeStep
    <2>2. TimeInv /\ UNCHANGED vars => TimeInv'
      BY DEF vars, outputVars, detectorVars, clocks, TimeInv, SinceTick
    <2> QED
      BY <2>1, <2>2
  <1>3. TypeInv /\ TimeInv => NothingOverdue
    BY EventsAssumption DEF TypeInv, TypeOK, TimeInv, SinceTick, NothingOverdue, AgeBound
  <1> QED
    BY <1>1, <1>2, <1>3, TypeInvariance, PTL DEF Spec

-----------------------------------------------------------------------------
(* Texts.  new_text is the text of the event to come, so it satisfies what *)
(* TextsJoin asks of the texts that were sent.                             *)

\* What was seen when the last event was sent.
SeenAtLast == IF events = <<>> THEN 0 ELSE events[Len(events)].upTo

TextInv ==
  /\ SeenAtLast <= seen
  /\ Shows(text, SeenAtLast, seen)
  /\ ~truncated => Len(text) = seen - SeenAtLast

\* Sending an event starts a new text and joins the one sent to those before.
LEMMA EmitJoins ==
  ASSUME TypeInv, TextInv, TextsJoin, NEW k \in {"done", "output", "exit"}, Emit(k)
  PROVE  TextInv' /\ TextsJoin'
  <1> DEFINE e == [kind |-> k, text |-> text, truncated |-> truncated, upTo |-> seen]
  <1>1. /\ seen \in Nat /\ text \in Seq(Nat) /\ events \in Seq(EventSet) /\ Len(events) \in Nat
        /\ e \in EventSet
    BY DEF TypeInv, TypeOK, EventSet
  <1>2. events' = Append(events, e) /\ text' = <<>> /\ truncated' = FALSE /\ seen' = seen
    BY DEF Emit
  <1>3. e.text = text /\ e.truncated = truncated /\ e.upTo = seen
    OBVIOUS
  <1> HIDE DEF e
  <1>4. /\ Len(events') = Len(events) + 1 /\ events'[Len(events) + 1] = e /\ events' # <<>>
        /\ \A i \in 1..Len(events) : events'[i] = events[i]
        /\ events = <<>> <=> Len(events) = 0
    BY <1>1, <1>2, AppendEnds
  <1>5. SeenAtLast' = seen
    BY <1>3, <1>4 DEF SeenAtLast
  <1>6. TextInv'
    BY <1>1, <1>2, <1>5 DEF TextInv, Shows
  <1>7. ASSUME NEW i \in Nat, i = Len(events) + 1
        PROVE  SeenBefore(i)' = SeenAtLast
    <2>1. CASE events = <<>>
      BY <1>4, <1>7, <2>1 DEF SeenBefore, SeenAtLast
    <2>2. CASE events # <<>>
      <3>1. i # 1 /\ i - 1 = Len(events) /\ Len(events) \in 1..Len(events)
        BY <1>1, <1>4, <1>7, <2>2
      <3>2. events'[i - 1] = events[Len(events)]
        BY <1>4, <3>1
      <3> QED
        BY <2>2, <3>1, <3>2 DEF SeenBefore, SeenAtLast
    <2> QED
      BY <2>1, <2>2
  <1>8. ASSUME NEW i \in 1..Len(events')
        PROVE  /\ Shows(events'[i].text, SeenBefore(i)', events'[i].upTo)
               /\ ~events'[i].truncated
                    => Len(events'[i].text) = events'[i].upTo - SeenBefore(i)'
    <2>1. CASE i = Len(events) + 1
      <3>1. SeenBefore(i)' = SeenAtLast /\ events'[i] = e
        BY <1>1, <1>4, <1>7, <2>1
      <3> QED
        BY <1>3, <3>1 DEF TextInv
    <2>2. CASE i \in 1..Len(events)
      <3>1. SeenBefore(i)' = SeenBefore(i)
        BY <1>1, <1>4, <2>2 DEF SeenBefore
      <3> QED
        BY <1>4, <2>2, <3>1 DEF TextsJoin
    <2> QED
      BY <1>1, <1>4, <2>1, <2>2
  <1>9. TextsJoin'
    BY <1>8 DEF TextsJoin, Shows, SeenBefore
  <1> QED
    BY <1>6, <1>9

\* Every step keeps the texts joined.
LEMMA TextStep ==
  ASSUME TypeInv, TextInv, TextsJoin, Next
  PROVE  TextInv' /\ TextsJoin'
  <1>0. /\ seen \in Nat /\ text \in Seq(Nat) /\ events \in Seq(EventSet) /\ Len(events) \in Nat
        /\ Len(chunks) \in Nat /\ seen <= Len(chunks)
    BY DEF TypeInv, TypeOK, EventSet
  <1>9. SeenAtLast \in Nat
    <2>1. CASE events = <<>>
      BY <2>1 DEF SeenAtLast
    <2>2. CASE events # <<>>
      <3>1. Len(events) \in 1..Len(events)
        BY <1>0, <2>2
      <3>2. events[Len(events)] \in EventSet
        BY <1>0, <3>1
      <3> QED
        BY <2>2, <3>2 DEF SeenAtLast, EventSet
    <2> QED
      BY <2>1, <2>2
  <1>1. ASSUME UNCHANGED <<seen, text, truncated, events>> PROVE TextInv' /\ TextsJoin'
    BY <1>1 DEF TextInv, TextsJoin, Shows, SeenBefore, SeenAtLast
  <1>2. ASSUME UNCHANGED events PROVE TextsJoin' /\ SeenAtLast' = SeenAtLast
    BY <1>2 DEF TextsJoin, Shows, SeenBefore, SeenAtLast
  <1>3. CASE (\E k \in Kinds : Output(k)) \/ EndLoop \/ Elapse \/ Exit
    <2>1. UNCHANGED detectorVars
      BY <1>3 DEF Output, EndLoop, Elapse, Exit
    <2> QED
      BY <1>1, <2>1 DEF detectorVars
  <1>4. CASE Push
    <2>1. seen' = seen + 1 /\ text' = Append(text, seen + 1) /\ UNCHANGED <<truncated, events>>
      BY <1>4 DEF Push, Heard
    <2>2. /\ Len(text') = Len(text) + 1 /\ Len(text) \in Nat /\ text'[Len(text) + 1] = seen + 1
          /\ \A i \in 1..Len(text) : text'[i] = text[i]
      BY <1>0, <2>1, AppendEnds
    <2>3. Shows(text, SeenAtLast, seen) /\ SeenAtLast <= seen
      BY DEF TextInv
    <2>4. ASSUME NEW j \in 1..Len(text')
          PROVE  SeenAtLast < text'[j] /\ text'[j] <= seen'
      <3>1. CASE j = Len(text) + 1
        BY <1>0, <1>9, <2>1, <2>2, <2>3, <3>1
      <3>2. CASE j \in 1..Len(text)
        BY <1>0, <1>9, <2>1, <2>2, <2>3, <3>2 DEF Shows
      <3> QED
        BY <2>2, <3>1, <3>2
    <2>5. ASSUME NEW j \in 1..(Len(text') - 1)
          PROVE  text'[j] < text'[j + 1]
      <3>1. CASE j = Len(text)
        <4>1. j \in 1..Len(text) /\ text'[j] = text[j] /\ text'[j + 1] = seen + 1
          BY <2>2, <3>1
        <4> QED
          BY <1>0, <2>3, <4>1 DEF Shows
      <3>2. CASE j \in 1..(Len(text) - 1)
        BY <2>2, <2>3, <3>2 DEF Shows
      <3> QED
        BY <2>2, <3>1, <3>2
    <2>6. Shows(text, SeenAtLast, seen)'
      BY <1>2, <2>1, <2>4, <2>5 DEF Shows
    <2> QED
      <3>1. SeenAtLast' = SeenAtLast /\ SeenAtLast' <= seen'
        BY <1>0, <1>2, <1>9, <2>1, <2>3
      <3>2. ~truncated => Len(text) = seen - SeenAtLast
        BY DEF TextInv
      <3>3. ASSUME ~truncated' PROVE Len(text') = seen' - SeenAtLast'
        <4>1. Len(text) = seen - SeenAtLast
          BY <2>1, <3>2, <3>3
        <4> QED
          BY <1>0, <1>9, <2>1, <2>2, <3>1, <4>1
      <3>4. TextInv'
        BY <2>6, <3>1, <3>3 DEF TextInv
      <3>5. TextsJoin'
        BY <1>2, <2>1
      <3> QED
        BY <3>4, <3>5
  <1>5. CASE Miss
    <2>1. /\ seen' = Len(chunks) - OutputCapacity /\ Len(chunks) - seen > OutputCapacity
          /\ truncated' = TRUE /\ UNCHANGED <<text, events>>
      BY <1>5 DEF Miss, Heard, Lagging
    <2>2. seen' > seen /\ seen' \in Nat
      BY <1>0, <2>1, EventsAssumption
    <2> QED
      BY <1>0, <1>2, <1>9, <2>1, <2>2 DEF TextInv, Shows
  <1>6. CASE HandleTick \/ Shutdown
    <2>1. (\E k \in {"done", "output", "exit"} : Emit(k)) \/ UNCHANGED detectorVars
      BY <1>6 DEF HandleTick, Shutdown
    <2> QED
      BY <1>1, <2>1, EmitJoins DEF detectorVars
  <1>7. ASSUME NEW w \in Watchers, Watcher(w) PROVE TextInv' /\ TextsJoin'
    <2>1. UNCHANGED detectorVars
      BY <1>7 DEF Watcher, Subscribe, Receive, Skip, Write, WriteFails, HangUp
    <2> QED
      BY <1>1, <2>1 DEF detectorVars
  <1> QED
    BY <1>3, <1>4, <1>5, <1>6, <1>7 DEF Next, Detector

LEMMA TextInvariance == Spec => [](TextInv /\ TextsJoin)
  <1>1. Init => TextInv /\ TextsJoin
    BY DEF Init, TextInv, TextsJoin, Shows, SeenAtLast
  <1>2. TypeInv /\ TextInv /\ TextsJoin /\ [Next]_vars => TextInv' /\ TextsJoin'
    <2>1. TypeInv /\ TextInv /\ TextsJoin /\ Next => TextInv' /\ TextsJoin'
      BY TextStep
    <2>2. TextInv /\ TextsJoin /\ UNCHANGED vars => TextInv' /\ TextsJoin'
      BY DEF vars, detectorVars, TextInv, TextsJoin, Shows, SeenBefore, SeenAtLast
    <2> QED
      BY <2>1, <2>2
  <1> QED
    BY <1>1, <1>2, TypeInvariance, PTL DEF Spec

\* terminal.rs:185-200, ipc.rs:219-221: the texts of consecutive events join.
THEOREM TextsAlwaysJoin == Spec => []TextsJoin
  BY TextInvariance, PTL

-----------------------------------------------------------------------------
(* Watchers.  What a watcher was written last and what it gets next are     *)
(* related as LosesOnlyOldEvents asks of neighbours in its course.          *)

\* Between the events a and b of n, only overwritten ones were left out.
Gap(a, b, n) == a < b /\ \A k \in (a + 1)..(b - 1) : k + EventCapacity <= n

\* The gaps of watcher w: among what it got, and from there to what is next.
Gaps(w) ==
  /\ \A i \in 1..(Len(got[w]) - 1) : Gap(got[w][i], got[w][i + 1], Len(events))
  /\ stage[w] = "start" => got[w] = <<>>
  /\ stage[w] = "receive" /\ got[w] # <<>> => Gap(got[w][Len(got[w])], pos[w], Len(events))
  /\ stage[w] = "write" /\ got[w] # <<>> => Gap(got[w][Len(got[w])], pos[w] - 1, Len(events))

\* The types of one watcher's variables.
LEMMA WatcherTypes ==
  ASSUME TypeInv, NEW w \in Watchers
  PROVE  /\ got[w] \in Seq(Nat) /\ pos[w] \in Nat /\ Len(got[w]) \in Nat /\ Len(events) \in Nat
         /\ stage[w] = "write" => pos[w] - 1 \in Nat
         /\ got[w] = <<>> <=> Len(got[w]) = 0
         /\ got[w] # <<>> => Len(got[w]) \in 1..Len(got[w])
  <1>1. got[w] \in Seq(Nat) /\ pos[w] \in Nat /\ events \in Seq(EventSet)
    BY DEF TypeInv, TypeOK, EventSet
  <1>2. stage[w] = "write" => pos[w] - 1 \in Nat
    BY <1>1 DEF TypeInv, WritesSomething
  <1>3. Len(got[w]) \in Nat /\ Len(events) \in Nat
    BY <1>1
  <1>4. got[w] = <<>> <=> Len(got[w]) = 0
    BY <1>1
  <1> QED
    BY <1>1, <1>2, <1>3, <1>4

\* What was overwritten stays overwritten.
LEMMA GapGrows ==
  ASSUME NEW a \in Nat, NEW b \in Nat, NEW m \in Nat, NEW n \in Nat, m <= n, Gap(a, b, m)
  PROVE  Gap(a, b, n)
  BY EventsAssumption DEF Gap

\* Steps that do not concern a watcher only add events.
LEMMA OthersKeepGaps ==
  ASSUME TypeInv, TypeInv', NEW w \in Watchers, Gaps(w), Len(events) <= Len(events)',
         got'[w] = got[w], pos'[w] = pos[w],
         stage'[w] = stage[w] \/ stage'[w] = "closed"
  PROVE  Gaps(w)'
  <1>1. /\ got[w] \in Seq(Nat) /\ pos[w] \in Nat /\ Len(got[w]) \in Nat
        /\ Len(events) \in Nat /\ Len(events)' \in Nat
        /\ stage[w] = "write" => pos[w] - 1 \in Nat
        /\ got[w] # <<>> => Len(got[w]) \in 1..Len(got[w])
    <2>1. Len(events)' \in Nat
      BY DEF TypeInv, TypeOK
    <2> QED
      BY <2>1, WatcherTypes
  <1>2. \A i \in 1..Len(got[w]) : got[w][i] \in Nat
    BY <1>1
  <1>3. ASSUME NEW i \in 1..(Len(got[w]) - 1)
        PROVE  Gap(got[w][i], got[w][i + 1], Len(events)')
    <2>1. got[w][i] \in Nat /\ got[w][i + 1] \in Nat /\ Gap(got[w][i], got[w][i + 1], Len(events))
      BY <1>1, <1>2 DEF Gaps
    <2> QED
      BY <1>1, <2>1, GapGrows
  <1>4. ASSUME stage[w] = "receive", got[w] # <<>>
        PROVE  Gap(got[w][Len(got[w])], pos[w], Len(events)')
    <2>1. got[w][Len(got[w])] \in Nat /\ Gap(got[w][Len(got[w])], pos[w], Len(events))
      BY <1>1, <1>2, <1>4 DEF Gaps
    <2> QED
      BY <1>1, <2>1, GapGrows
  <1>5. ASSUME stage[w] = "write", got[w] # <<>>
        PROVE  Gap(got[w][Len(got[w])], pos[w] - 1, Len(events)')
    <2>1. got[w][Len(got[w])] \in Nat /\ Gap(got[w][Len(got[w])], pos[w] - 1, Len(events))
      BY <1>1, <1>2, <1>5 DEF Gaps
    <2> QED
      BY <1>1, <1>5, <2>1, GapGrows
  <1>6. stage[w] = "start" => got[w] = <<>>
    BY DEF Gaps
  <1>7. /\ \A i \in 1..(Len(got[w]') - 1) : Gap(got[w]'[i], got[w]'[i + 1], Len(events)')
        /\ stage[w]' = "start" => got[w]' = <<>>
    BY <1>3, <1>6
  <1>8. /\ stage[w]' = "receive" /\ got[w]' # <<>>
             => Gap(got[w]'[Len(got[w]')], pos[w]', Len(events)')
        /\ stage[w]' = "write" /\ got[w]' # <<>>
             => Gap(got[w]'[Len(got[w]')], pos[w]' - 1, Len(events)')
    BY <1>4, <1>5
  <1> QED
    BY <1>7, <1>8 DEF Gaps, Gap

\* The steps of a watcher keep its own gaps.
LEMMA WatcherKeepsGaps ==
  ASSUME TypeInv, TypeInv', NEW w \in Watchers, Gaps(w), Watcher(w)
  PROVE  Gaps(w)'
  <1>1. /\ got[w] \in Seq(Nat) /\ pos[w] \in Nat /\ Len(got[w]) \in Nat /\ Len(events) \in Nat
        /\ stage[w] = "write" => pos[w] - 1 \in Nat
        /\ got[w] # <<>> => Len(got[w]) \in 1..Len(got[w])
        /\ EventCapacity \in Nat /\ EventCapacity # 0
    BY WatcherTypes, EventsAssumption
  <1>2. \A i \in 1..Len(got[w]) : got[w][i] \in Nat
    BY <1>1
  <1>3. events' = events
    BY DEF Watcher, Subscribe, Receive, Skip, Write, WriteFails, HangUp, detectorVars
  <1>4. /\ stage \in [Watchers -> {"start", "receive", "write", "closed"}]
        /\ pos \in [Watchers -> Nat] /\ got \in [Watchers -> Seq(Nat)]
    BY DEF TypeInv, TypeOK
  <1>5. CASE Subscribe(w)
    <2>1. got' = got /\ stage'[w] = "receive" /\ got[w] = <<>>
      BY <1>4, <1>5 DEF Subscribe, Goto, Gaps
    <2> QED
      BY <1>3, <2>1 DEF Gaps
  <1>6. CASE Receive(w)
    <2>1. got' = got /\ stage[w] = "receive" /\ stage'[w] = "write" /\ pos'[w] = pos[w] + 1
      BY <1>4, <1>6 DEF Receive, Goto
    <2>2. pos'[w] - 1 = pos[w]
      BY <1>1, <2>1
    <2> QED
      BY <1>3, <2>1, <2>2 DEF Gaps, Gap
  <1>7. CASE Skip(w)
    <2>1. /\ got' = got /\ stage' = stage /\ stage[w] = "receive"
          /\ pos'[w] = Len(events) - EventCapacity + 1 /\ pos[w] + EventCapacity <= Len(events)
      BY <1>4, <1>7 DEF Skip, Overtaken
    <2>2. ASSUME got[w] # <<>> PROVE Gap(got[w][Len(got[w])], pos'[w], Len(events))
      <3>1. got[w][Len(got[w])] \in Nat /\ got[w][Len(got[w])] < pos[w]
        BY <1>1, <1>2, <2>1, <2>2 DEF Gaps, Gap
      <3> QED
        BY <1>1, <2>1, <3>1 DEF Gap
    <2> QED
      BY <1>3, <2>1, <2>2 DEF Gaps, Gap
  <1>8. CASE Write(w)
    <2>1. /\ got'[w] = Append(got[w], pos[w] - 1) /\ pos' = pos /\ stage[w] = "write"
          /\ stage'[w] \in {"closed", "receive"}
      BY <1>4, <1>8 DEF Write, Goto
    <2>2. /\ Len(got'[w]) = Len(got[w]) + 1 /\ got'[w][Len(got[w]) + 1] = pos[w] - 1
          /\ \A i \in 1..Len(got[w]) : got'[w][i] = got[w][i]
          /\ got[w] = <<>> <=> Len(got[w]) = 0
      BY <1>1, <2>1, AppendEnds
    <2>3. ASSUME NEW i \in 1..(Len(got'[w]) - 1)
          PROVE  Gap(got'[w][i], got'[w][i + 1], Len(events))
      <3>1. CASE i = Len(got[w])
        BY <1>1, <2>1, <2>2, <3>1 DEF Gaps
      <3>2. CASE i \in 1..(Len(got[w]) - 1)
        <4>1. i \in 1..Len(got[w]) /\ i + 1 \in 1..Len(got[w])
          BY <1>1, <3>2
        <4>2. got'[w][i] = got[w][i] /\ got'[w][i + 1] = got[w][i + 1]
          BY <2>2, <4>1
        <4> QED
          BY <3>2, <4>2 DEF Gaps
      <3> QED
        BY <1>1, <2>2, <3>1, <3>2
    <2>4. Gap(got'[w][Len(got'[w])], pos'[w], Len(events))
      BY <1>1, <2>1, <2>2 DEF Gap
    <2> QED
      BY <1>3, <2>1, <2>3, <2>4 DEF Gaps, Gap
  <1>9. CASE WriteFails(w) \/ HangUp(w)
    <2>1. UNCHANGED <<got, pos, events>> /\ (stage'[w] = stage[w] \/ stage'[w] = "closed")
      BY <1>3, <1>4, <1>9 DEF WriteFails, HangUp, Goto
    <2> QED
      BY <1>1, <2>1, OthersKeepGaps
  <1> QED
    BY <1>5, <1>6, <1>7, <1>8, <1>9 DEF Watcher

\* Every step keeps every watcher's gaps.
LEMMA GapStep ==
  ASSUME TypeInv, TypeInv', \A w \in Watchers : Gaps(w), Next
  PROVE  \A w \in Watchers : Gaps(w)'
  <1> SUFFICES ASSUME NEW w \in Watchers PROVE Gaps(w)'
    OBVIOUS
  <1>0. /\ Len(events) \in Nat /\ events \in Seq(EventSet)
        /\ text \in Seq(Nat) /\ truncated \in BOOLEAN /\ seen \in Nat
        /\ stage \in [Watchers -> {"start", "receive", "write", "closed"}]
        /\ pos \in [Watchers -> Nat] /\ got \in [Watchers -> Seq(Nat)]
    <2>1. events \in Seq(EventSet)
      BY DEF TypeInv, TypeOK, EventSet
    <2>2. text \in Seq(Nat) /\ truncated \in BOOLEAN
      BY DEF TypeInv, TypeOK
    <2>3. /\ stage \in [Watchers -> {"start", "receive", "write", "closed"}]
          /\ pos \in [Watchers -> Nat] /\ got \in [Watchers -> Seq(Nat)]
      BY DEF TypeInv, TypeOK
    <2>4. chunks \in Seq(Kinds) /\ seen \in 0..Len(chunks)
      BY DEF TypeInv, TypeOK
    <2>5. Len(events) \in Nat /\ seen \in Nat
      BY <2>1, <2>4
    <2> QED
      BY <2>1, <2>2, <2>3, <2>5
  <1>1. ASSUME UNCHANGED <<events, watchVars>> PROVE Gaps(w)'
    BY <1>0, <1>1, OthersKeepGaps DEF watchVars
  <1>2. ASSUME NEW k \in {"done", "output", "exit"}, Emit(k) PROVE Gaps(w)'
    <2>1. Len(events)' = Len(events) + 1 /\ UNCHANGED watchVars
      BY <1>0, <1>2 DEF Emit, EventSet
    <2> QED
      BY <1>0, <2>1, OthersKeepGaps DEF watchVars
  <1>3. CASE (\E k \in Kinds : Output(k)) \/ EndLoop \/ Elapse \/ Push \/ Miss
    <2>1. UNCHANGED <<events, watchVars>>
      BY <1>3 DEF Output, EndLoop, Elapse, Push, Miss, Heard, detectorVars
    <2> QED
      BY <1>1, <2>1
  <1>4. CASE HandleTick \/ Shutdown
    <2>1. (\E k \in {"done", "output", "exit"} : Emit(k)) \/ UNCHANGED <<events, watchVars>>
      BY <1>4 DEF HandleTick, Shutdown, detectorVars
    <2> QED
      BY <1>1, <1>2, <2>1
  <1>5. CASE Exit
    <2>1. UNCHANGED <<events, got, pos>> /\ stage'[w] = "closed"
      BY <1>5 DEF Exit, detectorVars
    <2> QED
      BY <1>0, <2>1, OthersKeepGaps
  <1>6. ASSUME NEW v \in Watchers, Watcher(v) PROVE Gaps(w)'
    <2>1. CASE v = w
      BY <1>6, <2>1, WatcherKeepsGaps
    <2>2. CASE v # w
      <3>1. got'[w] = got[w] /\ pos'[w] = pos[w] /\ stage'[w] = stage[w] /\ events' = events
        BY <1>0, <1>6, <2>2
        DEF Watcher, Subscribe, Receive, Skip, Write, WriteFails, HangUp, Goto, detectorVars
      <3> QED
        BY <1>0, <3>1, OthersKeepGaps
    <2> QED
      BY <2>1, <2>2
  <1> QED
    BY <1>3, <1>4, <1>5, <1>6 DEF Next, Detector

\* Gaps speaks of the neighbours in a watcher's course.
LEMMA GapsOfCourse ==
  ASSUME TypeInv, NEW w \in Watchers, Gaps(w), NEW i \in 1..(Len(Course(w)) - 1)
  PROVE  Gap(Course(w)[i], Course(w)[i + 1], Len(events))
  <1>1. /\ got[w] \in Seq(Nat) /\ pos[w] \in Nat /\ Len(got[w]) \in Nat
        /\ stage[w] = "write" => pos[w] - 1 \in Nat
        /\ got[w] = <<>> <=> Len(got[w]) = 0
    BY DEF TypeInv, TypeOK, WritesSomething
  <1>2. ASSUME NEW x \in Nat, Course(w) = got[w] \o <<x>>,
               got[w] # <<>> => Gap(got[w][Len(got[w])], x, Len(events))
        PROVE  Gap(Course(w)[i], Course(w)[i + 1], Len(events))
    <2>1. /\ Len(Course(w)) = Len(got[w]) + 1 /\ Course(w)[Len(got[w]) + 1] = x
          /\ \A j \in 1..Len(got[w]) : Course(w)[j] = got[w][j]
      BY <1>1, <1>2
    <2>2. CASE i = Len(got[w])
      BY <1>1, <1>2, <2>1, <2>2
    <2>3. CASE i \in 1..(Len(got[w]) - 1)
      BY <1>1, <2>1, <2>3 DEF Gaps
    <2> QED
      BY <1>1, <2>1, <2>2, <2>3
  <1>3. CASE stage[w] = "receive"
    BY <1>1, <1>2, <1>3 DEF Course, Gaps
  <1>4. CASE stage[w] = "write"
    BY <1>1, <1>2, <1>4 DEF Course, Gaps
  <1>5. CASE stage[w] \notin {"receive", "write"}
    <2>1. Course(w) = got[w] \o <<>>
      BY <1>5 DEF Course
    <2>2. Course(w) = got[w]
      BY <1>1, <2>1
    <2> QED
      BY <2>2 DEF Gaps
  <1> QED
    BY <1>3, <1>4, <1>5

\* server.rs:129-144: a watcher gets events in order, and skips only overwritten ones.
THEOREM LosesOnlyOld == Spec => []LosesOnlyOldEvents
  <1> DEFINE GapInv == \A w \in Watchers : Gaps(w)
  <1>1. Init => GapInv
    <2> SUFFICES ASSUME Init, NEW w \in Watchers PROVE Gaps(w)
      OBVIOUS
    <2>1. got[w] = <<>> /\ stage[w] = "start"
      BY DEF Init
    <2>2. 1..(Len(got[w]) - 1) = {}
      BY <2>1
    <2> QED
      BY <2>1, <2>2 DEF Gaps
  <1>2. TypeInv /\ TypeInv' /\ GapInv /\ [Next]_vars => GapInv'
    <2>1. TypeInv /\ TypeInv' /\ GapInv /\ Next => GapInv'
      BY GapStep
    <2>2. GapInv /\ UNCHANGED vars => GapInv'
      BY DEF vars, detectorVars, watchVars, Gaps
    <2> QED
      BY <2>1, <2>2
  <1>3. TypeInv /\ GapInv => LosesOnlyOldEvents
    BY GapsOfCourse DEF LosesOnlyOldEvents, Gap
  <1> QED
    BY <1>1, <1>2, <1>3, TypeInvariance, PTL DEF Spec

-----------------------------------------------------------------------------
(* The refinement of EventLog.                                             *)

\* The event a watcher is to get is one of the log or the one to come, and the one
\* it writes was sent.
AtEvent(w) ==
  /\ stage[w] = "receive" => pos[w] >= 1
  /\ stage[w] = "write" => pos[w] - 1 \in 1..Len(events)

\* The exit is the last thing the detector sends.
LogInv == (EL!Closed => stopped) /\ \A w \in Watchers : AtEvent(w)

\* An event adds to the log, and the exit comes when the detector returns.
LEMMA EmitAdds ==
  ASSUME TypeInv, NEW k \in {"done", "output", "exit"}, Emit(k)
  PROVE  /\ events' = Append(events, events'[Len(events')]) /\ events' # <<>>
         /\ events'[Len(events')] =
              [kind |-> k, text |-> text, truncated |-> truncated, upTo |-> seen]
         /\ Len(events) \in Nat /\ Len(events') = Len(events) + 1
         /\ EL!Closed' => k = "exit"
  <1> DEFINE e == [kind |-> k, text |-> text, truncated |-> truncated, upTo |-> seen]
  <1>1. events \in Seq(EventSet) /\ e \in EventSet
    BY DEF TypeInv, TypeOK, EventSet
  <1>2. events' = Append(events, e) /\ e.kind = k
    BY DEF Emit
  <1> HIDE DEF e
  <1>3. /\ Len(events) \in Nat /\ Len(events') = Len(events) + 1
        /\ events'[Len(events) + 1] = e /\ events' # <<>>
    BY <1>1, <1>2, AppendEnds
  <1>4. events'[Len(events')] = e
    BY <1>3
  <1>5. EL!Closed' => k = "exit"
    BY <1>2, <1>4 DEF EL!Closed
  <1> QED
    BY <1>2, <1>3, <1>4, <1>5 DEF e

\* What the detector does to the log: nothing, or it adds an event.
LEMMA DetectorAdds ==
  ASSUME TypeInv, Detector
  PROVE  /\ \/ UNCHANGED <<events, stopped>>
            \/ ~stopped /\ UNCHANGED stopped /\ \E k \in {"done", "output"} : Emit(k)
            \/ ~stopped /\ stopped' /\ Emit("exit")
         /\ UNCHANGED <<chunks, watchVars>>
  <1>1. CASE Push \/ Miss
    BY <1>1 DEF Push, Miss, Heard, outputVars
  <1>2. CASE HandleTick
    BY <1>2 DEF HandleTick, Emit, detectorVars, outputVars
  <1>3. CASE Shutdown
    BY <1>3 DEF Shutdown, Emit, outputVars
  <1> QED
    BY <1>1, <1>2, <1>3 DEF Detector

\* Each step of a watcher's task keeps it at an event, and leaves the others alone.
LEMMA AtEventStep ==
  ASSUME TypeInv, NEW w \in Watchers, Watcher(w), NEW x \in Watchers, AtEvent(x)
  PROVE  AtEvent(x)'
  <1>1. /\ stage \in [Watchers -> {"start", "receive", "write", "closed"}]
        /\ pos \in [Watchers -> Nat] /\ Len(events) \in Nat
    BY DEF TypeInv, TypeOK
  <1>2. UNCHANGED events
    BY DEF Watcher, Subscribe, Receive, Skip, Write, WriteFails, HangUp, detectorVars
  <1>3. CASE x # w
    <2>1. pos'[x] = pos[x] /\ stage'[x] = stage[x]
      BY <1>1, <1>3 DEF Watcher, Subscribe, Receive, Skip, Write, WriteFails, HangUp, Goto
    <2> QED
      BY <1>2, <2>1 DEF AtEvent
  <1>4. CASE x = w /\ Subscribe(w)
    BY <1>1, <1>2, <1>4 DEF Subscribe, Goto, AtEvent
  <1>5. CASE x = w /\ Receive(w)
    BY <1>1, <1>2, <1>5 DEF Receive, Goto, AtEvent
  <1>6. CASE x = w /\ Skip(w)
    BY <1>1, <1>2, <1>6, EventsAssumption DEF Skip, Overtaken, AtEvent
  <1>7. CASE x = w /\ Write(w)
    <2>1. stage[w] = "write" /\ pos'[w] = pos[w] /\ stage'[w] \in {"closed", "receive"}
      BY <1>1, <1>7 DEF Write, Goto
    <2> QED
      BY <1>1, <1>2, <1>7, <2>1 DEF AtEvent
  <1>8. CASE x = w /\ WriteFails(w)
    BY <1>1, <1>2, <1>8 DEF WriteFails, Goto, AtEvent
  <1>9. CASE x = w /\ HangUp(w)
    BY <1>1, <1>2, <1>9 DEF HangUp, AtEvent
  <1> QED
    BY <1>3, <1>4, <1>5, <1>6, <1>7, <1>8, <1>9 DEF Watcher

\* Every step keeps the exit last and the watchers at their events.
LEMMA LogInvStep ==
  ASSUME TypeInv, LogInv, [Next]_vars
  PROVE  LogInv'
  <1>1. Len(events) \in Nat /\ (EL!Closed => stopped)
    BY DEF TypeInv, TypeOK, LogInv
  <1>2. CASE (\E k \in Kinds : Output(k)) \/ EndLoop \/ Elapse \/ UNCHANGED vars
    <2>1. UNCHANGED <<detectorVars, watchVars>>
      BY <1>2 DEF Output, EndLoop, Elapse, vars
    <2> QED
      BY <2>1 DEF LogInv, AtEvent, EL!Closed, detectorVars, watchVars
  <1>3. CASE Exit
    <2>1. UNCHANGED <<events, stopped>> /\ \A w \in Watchers : stage'[w] = "closed"
      BY <1>3 DEF Exit, detectorVars
    <2> QED
      BY <1>1, <2>1 DEF LogInv, AtEvent, EL!Closed
  <1>4. CASE Detector
    <2>1. UNCHANGED watchVars
      BY <1>4, DetectorAdds
    <2>2. CASE UNCHANGED <<events, stopped>>
      BY <2>1, <2>2 DEF LogInv, AtEvent, EL!Closed, watchVars
    <2>3. ASSUME NEW k \in {"done", "output", "exit"}, Emit(k), k = "exit" => stopped'
          PROVE  LogInv'
      <3>1. Len(events') = Len(events) + 1 /\ (EL!Closed' => k = "exit")
        BY <2>3, EmitAdds
      <3>2. ASSUME NEW w \in Watchers PROVE AtEvent(w)'
        <4>1. AtEvent(w) /\ pos'[w] = pos[w] /\ stage'[w] = stage[w]
          BY <2>1 DEF LogInv, watchVars
        <4> QED
          BY <1>1, <3>1, <4>1 DEF AtEvent
      <3> QED
        BY <2>3, <3>1, <3>2 DEF LogInv
    <2> QED
      BY <1>4, <2>2, <2>3, DetectorAdds
  <1>5. ASSUME NEW w \in Watchers, Watcher(w) PROVE LogInv'
    <2>1. UNCHANGED detectorVars
      BY <1>5 DEF Watcher, Subscribe, Receive, Skip, Write, WriteFails, HangUp
    <2> QED
      BY <1>5, <2>1, AtEventStep DEF LogInv, EL!Closed, detectorVars
  <1> QED
    BY <1>2, <1>3, <1>4, <1>5 DEF Next

LEMMA LogInvariance == Spec => []LogInv
  <1>1. Init => LogInv
    BY DEF Init, LogInv, AtEvent, EL!Closed
  <1>2. TypeInv /\ LogInv /\ [Next]_vars => LogInv'
    BY LogInvStep
  <1> QED
    BY <1>1, <1>2, TypeInvariance, PTL DEF Spec

Mapped == <<Len(chunks), events, stages, due, got>>

\* The text under way joins the log.
LEMMA TextTells ==
  ASSUME TypeInv, TextInv, NEW k \in {"done", "output", "exit"}
  PROVE  EL!Joins([kind |-> k, text |-> text, truncated |-> truncated, upTo |-> seen])
  <1>1. EL!Told = SeenAtLast
    BY DEF EL!Told, SeenAtLast
  <1>2. seen <= Len(chunks)
    BY DEF TypeInv, TypeOK
  <1> QED
    BY <1>1, <1>2 DEF EL!Joins, TextInv, Shows

\* A step of the detector adds to the log or goes unseen.
LEMMA DetectorTells ==
  ASSUME TypeInv, TextInv, LogInv, Detector
  PROVE  [EL!Next]_Mapped
  <1>1. UNCHANGED <<Len(chunks), stages, due, got>>
    <2>1. UNCHANGED <<chunks, watchVars>>
      BY DetectorAdds
    <2> QED
      BY <2>1 DEF watchVars, stages, due
  <1>2. CASE UNCHANGED events
    BY <1>1, <1>2 DEF Mapped
  <1>3. ASSUME NEW k \in {"done", "output", "exit"}, Emit(k), ~stopped
        PROVE  EL!Tell
    <2>1. ~EL!Closed
      BY <1>3 DEF LogInv
    <2>2. events' = Append(events, events'[Len(events')]) /\ events' # <<>>
      BY <1>3, EmitAdds
    <2>3. EL!Joins(events'[Len(events')])
      <3>1. events'[Len(events')] =
              [kind |-> k, text |-> text, truncated |-> truncated, upTo |-> seen]
        BY <1>3, EmitAdds
      <3> QED
        BY <3>1, TextTells
    <2> QED
      BY <1>1, <2>1, <2>2, <2>3 DEF EL!Tell
  <1> QED
    BY <1>2, <1>3, DetectorAdds DEF EL!Next

\* What the log sees of a watcher whose task goes on to s, with its receiver at n.
LEMMA WatcherMoves ==
  ASSUME TypeInv, NEW w \in Watchers, NEW s \in {"receive", "write", "closed"}, NEW n \in Nat,
         stage' = [stage EXCEPT ![w] = s], pos' = [pos EXCEPT ![w] = n]
  PROVE  /\ stages' = [stages EXCEPT ![w] = IF s = "closed" THEN "ended" ELSE "following"]
         /\ due' = [due EXCEPT ![w] = CASE s = "receive" -> n [] s = "write" -> n - 1 [] OTHER -> 0]
  BY DEF stages, due, TypeInv, TypeOK

\* The steps of a watcher's task.
LEMMA WatcherFollows ==
  ASSUME TypeInv, LogInv, NEW w \in Watchers, Watcher(w)
  PROVE  [EL!Next]_Mapped
  <1>1. /\ stage \in [Watchers -> {"start", "receive", "write", "closed"}]
        /\ pos \in [Watchers -> Nat] /\ Len(events) \in Nat /\ pos[w] \in Nat
    BY DEF TypeInv, TypeOK
  <1>2. AtEvent(w)
    BY DEF LogInv
  <1>3. UNCHANGED <<Len(chunks), events>>
    BY DEF Watcher, Subscribe, Receive, Skip, Write, WriteFails, HangUp, outputVars, detectorVars
  <1>4. /\ stages[w] = CASE stage[w] = "start" -> "waiting" [] stage[w] = "closed" -> "ended"
                         [] OTHER -> "following"
        /\ due[w] = CASE stage[w] = "receive" -> pos[w] [] stage[w] = "write" -> pos[w] - 1
                      [] OTHER -> 0
    BY DEF stages, due
  <1>5. CASE Subscribe(w)
    <2>1. /\ stage[w] = "start" /\ UNCHANGED got
          /\ stage' = [stage EXCEPT ![w] = "receive"] /\ pos' = [pos EXCEPT ![w] = Len(events) + 1]
      BY <1>5 DEF Subscribe, Goto
    <2>2. /\ stages' = [stages EXCEPT ![w] = "following"]
          /\ due' = [due EXCEPT ![w] = Len(events) + 1]
      <3> DEFINE n == Len(events) + 1
      <3>1. n \in Nat /\ pos' = [pos EXCEPT ![w] = n]
        BY <1>1, <2>1
      <3> HIDE DEF n
      <3>2. /\ stages' = [stages EXCEPT ![w] = "following"]
            /\ due' = [due EXCEPT ![w] = n]
        BY <2>1, <3>1, WatcherMoves
      <3> QED
        BY <3>2 DEF n
    <2>3. EL!Follow(w)
      BY <1>3, <1>4, <2>1, <2>2 DEF EL!Follow
    <2> QED
      BY <2>3 DEF EL!Next
  <1>6. CASE Receive(w)
    <2>1. /\ stage[w] = "receive" /\ UNCHANGED got
          /\ stage' = [stage EXCEPT ![w] = "write"] /\ pos' = [pos EXCEPT ![w] = pos[w] + 1]
      BY <1>6 DEF Receive, Goto
    <2>2. /\ stages' = [stages EXCEPT ![w] = "following"]
          /\ due' = [due EXCEPT ![w] = pos[w]]
      <3> DEFINE n == pos[w] + 1
      <3>1. n \in Nat /\ n - 1 = pos[w] /\ pos' = [pos EXCEPT ![w] = n]
        BY <1>1, <2>1
      <3> HIDE DEF n
      <3>2. /\ stages' = [stages EXCEPT ![w] = "following"]
            /\ due' = [due EXCEPT ![w] = n - 1]
        BY <2>1, <3>1, WatcherMoves
      <3> QED
        BY <3>1, <3>2
    <2>3. stages' = stages /\ due' = due
      BY <1>4, <2>1, <2>2 DEF stages, due
    <2> QED
      BY <1>3, <2>1, <2>3 DEF Mapped
  <1>7. CASE Skip(w)
    <2> DEFINE n == Len(events) - EventCapacity + 1
    <2>1. /\ stage[w] = "receive" /\ UNCHANGED <<got, stage>>
          /\ pos[w] + EventCapacity <= Len(events) /\ pos' = [pos EXCEPT ![w] = n]
      BY <1>7 DEF Skip, Overtaken
    <2>2. n \in 1..(Len(events) - EventCapacity + 1) /\ pos[w] < n /\ n \in Nat
      BY <1>1, <1>2, <2>1, EventsAssumption DEF AtEvent
    <2> HIDE DEF n
    <2>3. stages' = stages
      BY <2>1 DEF stages
    <2>4. due' = [due EXCEPT ![w] = n]
      BY <1>1, <2>1 DEF due
    <2>5. EL!Lose(w, n)
      BY <1>3, <1>4, <2>1, <2>2, <2>3, <2>4 DEF EL!Lose
    <2> QED
      BY <2>2, <2>5 DEF EL!Next
  <1>8. CASE Write(w)
    <2> DEFINE s == IF events[pos[w] - 1].kind = "exit" THEN "closed" ELSE "receive"
    <2>1. /\ stage[w] = "write" /\ pos' = pos
          /\ got' = [got EXCEPT ![w] = Append(@, pos[w] - 1)]
          /\ stage' = [stage EXCEPT ![w] = s]
      BY <1>8 DEF Write, Goto
    <2>2. pos' = [pos EXCEPT ![w] = pos[w]]
      BY <1>1, <2>1
    <2>3. stages[w] = "following" /\ due[w] = pos[w] - 1 /\ due[w] \in 1..Len(events)
      BY <1>2, <1>4, <2>1 DEF AtEvent
    <2>4. CASE events[pos[w] - 1].kind = "exit"
      <3>1. /\ stages' = [stages EXCEPT ![w] = "ended"]
            /\ due' = [due EXCEPT ![w] = 0]
        BY <1>1, <2>1, <2>2, <2>4, WatcherMoves
      <3>2. EL!Give(w)
        BY <1>3, <2>1, <2>3, <2>4, <3>1 DEF EL!Give
      <3> QED
        BY <3>2 DEF EL!Next
    <2>5. CASE events[pos[w] - 1].kind # "exit"
      <3>1. /\ stages' = [stages EXCEPT ![w] = "following"]
            /\ due' = [due EXCEPT ![w] = pos[w]]
        BY <1>1, <2>1, <2>2, <2>5, WatcherMoves
      <3>2. stages' = stages
        BY <2>3, <3>1 DEF stages
      <3>3. due' = [due EXCEPT ![w] = @ + 1]
        <4>1. due[w] + 1 = pos[w]
          BY <1>1, <2>3
        <4> QED
          BY <3>1, <4>1
      <3>4. EL!Give(w)
        BY <1>3, <2>1, <2>3, <2>5, <3>2, <3>3 DEF EL!Give
      <3> QED
        BY <3>4 DEF EL!Next
    <2> QED
      BY <2>4, <2>5
  <1>9. CASE WriteFails(w)
    <2>1. stage' = [stage EXCEPT ![w] = "closed"] /\ UNCHANGED <<pos, got>>
      BY <1>9 DEF WriteFails, Goto
    <2>2. /\ stages' = [f \in Watchers |-> IF f \in {w} THEN "ended" ELSE stages[f]]
          /\ due' = [f \in Watchers |-> IF f \in {w} THEN 0 ELSE due[f]]
      BY <1>1, <2>1 DEF stages, due
    <2>3. EL!End({w})
      BY <1>3, <2>1, <2>2 DEF EL!End
    <2> QED
      BY <2>3 DEF EL!Next
  <1>10. CASE HangUp(w)
    <2>1. UNCHANGED <<stage, pos, got>>
      BY <1>10 DEF HangUp
    <2> QED
      BY <1>3, <2>1 DEF Mapped, stages, due
  <1> QED
    BY <1>5, <1>6, <1>7, <1>8, <1>9, <1>10 DEF Watcher

\* Every step is a step of the event log or changes nothing that it shows.
LEMMA EventLogStep ==
  ASSUME TypeInv, TextInv, LogInv, [Next]_vars
  PROVE  [EL!Next]_Mapped
  <1>1. ASSUME NEW k \in Kinds, Output(k) PROVE EL!Grow
    <2>1. chunks \in Seq(Kinds) /\ chunks' = Append(chunks, k) /\ UNCHANGED <<detectorVars, watchVars>>
      BY <1>1 DEF Output, TypeInv, TypeOK
    <2>2. Len(chunks') = Len(chunks) + 1
      BY <2>1, AppendEnds
    <2> QED
      BY <2>1, <2>2 DEF EL!Grow, stages, due, detectorVars, watchVars
  <1>2. CASE EndLoop \/ Elapse \/ UNCHANGED vars
    <2>1. UNCHANGED <<chunks, detectorVars, watchVars>>
      BY <1>2 DEF EndLoop, Elapse, vars, outputVars
    <2> QED
      BY <2>1 DEF Mapped, stages, due, detectorVars, watchVars
  <1>3. CASE Exit
    <2>1. stage' = [w \in Watchers |-> "closed"] /\ UNCHANGED <<chunks, events, pos, got>>
      BY <1>3 DEF Exit, detectorVars
    <2>2. /\ stages' = [w \in Watchers |-> IF w \in Watchers THEN "ended" ELSE stages[w]]
          /\ due' = [w \in Watchers |-> IF w \in Watchers THEN 0 ELSE due[w]]
      BY <2>1 DEF stages, due
    <2>3. EL!End(Watchers)
      BY <2>1, <2>2 DEF EL!End
    <2> QED
      BY <2>3 DEF EL!Next
  <1> QED
    BY <1>1, <1>2, <1>3, DetectorTells, WatcherFollows DEF Next, EL!Next

\* events.rs:30-89, server.rs:129-143: for any watchers, capacities and periods, the
\* events tell the output piece by piece and end with the exit, and a watcher gets
\* all that is sent after it came but what was overwritten, up to the exit.
THEOREM EventsImplement == Spec => ImplementsEventLog
  <1>1. Init => EL!Init
    BY DEF Init, EL!Init, stages, due
  <1>2. TypeInv /\ TextInv /\ LogInv /\ [Next]_vars => [EL!Next]_Mapped
    BY EventLogStep
  <1> QED
    BY <1>1, <1>2, TypeInvariance, TextInvariance, LogInvariance, PTL
       DEF Spec, ImplementsEventLog, EL!Spec, EL!evars, Mapped
=============================================================================
