---------------------------- MODULE OutputStream ----------------------------
(***************************************************************************)
(* What a session promises the clients that follow its output.  A client   *)
(* is shown the screen as it is then, and after that messages one after    *)
(* the other without a gap, until its stream ends, for good.  The screen   *)
(* and the stream meet in the way of `Follows`.                            *)
(***************************************************************************)
EXTENDS Naturals, Sequences

CONSTANTS
  Whole,   \* clients to whom nothing is lost between screen and stream
  Brief    \* clients to whom nothing old is repeated

Clients == Whole \cup Brief

VARIABLES
  made,    \* messages of the session
  stage,   \* where a client is
  shown,   \* the messages that the screen it was shown stands for
  stream   \* the messages it was sent after the screen

ovars == <<made, stage, shown, stream>>

Init ==
  /\ made = 0
  /\ stage = [c \in Clients |-> "waiting"]
  /\ shown = [c \in Clients |-> 0]
  /\ stream = [c \in Clients |-> <<>>]

\* A screen may show what is about to be sent; and the last message, the notice of
\* a signal, is on no screen.
UpToDate == {k \in 0..(made + 1) : made <= k + 1}

Make == made' = made + 1 /\ UNCHANGED <<stage, shown, stream>>

Show(c, k) ==
  /\ stage[c] = "waiting"
  /\ stage' = [stage EXCEPT ![c] = "following"]
  /\ shown' = [shown EXCEPT ![c] = k]
  /\ UNCHANGED <<made, stream>>

\* Message m may come next in the stream of c.
Follows(c, m) ==
  IF stream[c] # <<>> THEN m = stream[c][Len(stream[c])] + 1
  ELSE /\ c \in Whole => m <= shown[c] + 1
       /\ c \in Brief => m >= shown[c]

Deliver(c, m) ==
  /\ stage[c] = "following"
  /\ Follows(c, m)
  /\ stream' = [stream EXCEPT ![c] = Append(@, m)]
  /\ UNCHANGED <<made, stage, shown>>

\* A client leaves or falls behind; or the session ends, with all streams.
End(S) ==
  /\ stage' = [c \in Clients |-> IF c \in S THEN "ended" ELSE stage[c]]
  /\ UNCHANGED <<made, shown, stream>>

Next ==
  \/ Make
  \/ \E c \in Clients : \E k \in UpToDate : Show(c, k)
  \/ \E c \in Clients : \E m \in 1..made : Deliver(c, m)
  \/ \E S \in SUBSET Clients : End(S)

Spec == Init /\ [][Next]_ovars
=============================================================================
