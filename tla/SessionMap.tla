----------------------------- MODULE SessionMap -----------------------------
(***************************************************************************)
(* What the runtime directory promises when nobody interferes: a partial   *)
(* one-to-one map from names to sessions.  A session appears under a free  *)
(* name, may move to another free name, and disappears only by ending; it  *)
(* never comes back.                                                       *)
(***************************************************************************)
CONSTANTS Names, Sessions, None

VARIABLES live, ended

svars == <<live, ended>>

Listed(s) == \E n \in Names : live[n] = s

Init == live = [n \in Names |-> None] /\ ended = {}

Create(n, s) ==
  /\ live[n] = None
  /\ ~Listed(s) /\ s \notin ended
  /\ live' = [live EXCEPT ![n] = s]
  /\ UNCHANGED ended

Move(n, m) ==
  /\ live[n] # None /\ live[m] = None
  /\ live' = [live EXCEPT ![n] = None, ![m] = live[n]]
  /\ UNCHANGED ended

End(n) ==
  /\ live[n] # None
  /\ live' = [live EXCEPT ![n] = None]
  /\ ended' = ended \cup {live[n]}

\* A session that was never listed fails to start.
Abandon(s) ==
  /\ ~Listed(s)
  /\ ended' = ended \cup {s}
  /\ UNCHANGED live

Next ==
  \/ \E n \in Names, s \in Sessions : Create(n, s)
  \/ \E n, m \in Names : Move(n, m)
  \/ \E n \in Names : End(n)
  \/ \E s \in Sessions : Abandon(s)

Spec == Init /\ [][Next]_svars
=============================================================================
