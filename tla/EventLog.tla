------------------------------ MODULE EventLog ------------------------------
(***************************************************************************)
(* What a session promises those who follow its events.  The events make   *)
(* up one log, which tells the output piece by piece and ends with the     *)
(* exit.  A follower gets what is added to the log from when it came, in   *)
(* order; all it may lose are events that are not kept any more.           *)
(***************************************************************************)
EXTENDS Naturals, Sequences

CONSTANTS Followers, Kept   \* the number of events that are kept

VARIABLES
  output,  \* chunks of output so far
  log,     \* the events: what each tells, and whether it leaves something out
  stage,   \* where a follower is
  next,    \* the next event a follower is to get; 0 if it follows nothing
  got      \* the events it was given

evars == <<output, log, stage, next, got>>

Init ==
  /\ output = 0
  /\ log = <<>>
  /\ stage = [f \in Followers |-> "waiting"]
  /\ next = [f \in Followers |-> 0]
  /\ got = [f \in Followers |-> <<>>]

Closed == log # <<>> /\ log[Len(log)].kind = "exit"

Told == IF log = <<>> THEN 0 ELSE log[Len(log)].upTo

\* e tells output that was not told, in order, and leaves none of it out unless
\* it says so.
Joins(e) ==
  /\ Told <= e.upTo /\ e.upTo <= output
  /\ \A j \in 1..Len(e.text) : Told < e.text[j] /\ e.text[j] <= e.upTo
  /\ \A j \in 1..(Len(e.text) - 1) : e.text[j] < e.text[j + 1]
  /\ ~e.truncated => Len(e.text) = e.upTo - Told

Grow == output' = output + 1 /\ UNCHANGED <<log, stage, next, got>>

Tell ==
  LET e == log'[Len(log')] IN
  /\ ~Closed
  /\ log' # <<>>
  /\ log' = Append(log, e) /\ Joins(e)
  /\ UNCHANGED <<output, stage, next, got>>

Follow(f) ==
  /\ stage[f] = "waiting"
  /\ stage' = [stage EXCEPT ![f] = "following"]
  /\ next' = [next EXCEPT ![f] = Len(log) + 1]
  /\ UNCHANGED <<output, log, got>>

\* f is slow: events before the n-th are not kept any more.
Lose(f, n) ==
  /\ stage[f] = "following" /\ next[f] < n
  /\ next' = [next EXCEPT ![f] = n]
  /\ UNCHANGED <<output, log, stage, got>>

\* After the exit there is nothing to follow.
Give(f) ==
  /\ stage[f] = "following" /\ next[f] \in 1..Len(log)
  /\ got' = [got EXCEPT ![f] = Append(@, next[f])]
  /\ IF log[next[f]].kind = "exit"
     THEN stage' = [stage EXCEPT ![f] = "ended"] /\ next' = [next EXCEPT ![f] = 0]
     ELSE next' = [next EXCEPT ![f] = @ + 1] /\ UNCHANGED stage
  /\ UNCHANGED <<output, log>>

\* A follower leaves, or the process ends.
End(S) ==
  /\ stage' = [f \in Followers |-> IF f \in S THEN "ended" ELSE stage[f]]
  /\ next' = [f \in Followers |-> IF f \in S THEN 0 ELSE next[f]]
  /\ UNCHANGED <<output, log, got>>

Next ==
  \/ Grow \/ Tell
  \/ \E f \in Followers : Follow(f) \/ Give(f) \/ \E n \in 1..(Len(log) - Kept + 1) : Lose(f, n)
  \/ \E S \in SUBSET Followers : End(S)

Spec == Init /\ [][Next]_evars
=============================================================================
