---------------------------- MODULE AttachClient ----------------------------
(***************************************************************************)
(* `ttyman attach`: a client that streams one session, lets its user       *)
(* switch to others with a menu command, and falls back to another session *)
(* when the stream of the current one ends.  Meanwhile other users start,  *)
(* rename and end sessions, and daemons crash.                             *)
(*                                                                         *)
(* The client knows sessions by the paths of their sockets only; a name    *)
(* stands for the path.  Whether a session is reachable at a name is what  *)
(* Registry is about; here dir and alive show the outcome.                 *)
(***************************************************************************)
EXTENDS Naturals, Sequences

CONSTANTS
  Names,      \* session names
  Sessions,   \* sessions that may ever be started (the bound)
  None,       \* no session, no name
  MaxVisits   \* bound on the switches by menu or by a stream that was cut

ASSUME AttachClientAssumption == None \notin Sessions \cup Names /\ MaxVisits \in Nat

VARIABLES
  dir,        \* dir[n]: the session whose socket is linked at n, or None
  alive,      \* sessions whose daemon runs
  born,       \* sessions that were ever started
  step,       \* what the client does next
  current,    \* current_sock_path
  conn,       \* the session the client has connected to, or None
  cut,        \* the daemon has closed the stream of a session that runs on
  stdin,      \* stdin_open
  history,    \* history_stack
  target,     \* the name the user has chosen to switch to, or None
  todo,       \* find_socket_files(): files the filter has not seen yet
  found,      \* files it has kept
  visits,     \* (history) how often the client has set out to a session
  lastVisit,  \* (history) lastVisit[n]: when it last set out to n; 0 for never
  steady,     \* (history) during a fallback, names connectable ever since the stream ended
  recent      \* (history) during a fallback, history_stack when the stream ended

worldVars == <<dir, alive, born, cut>>
clientVars == <<step, current, conn, stdin, history, target, todo, found>>
visitVars == <<visits, lastVisit>>
endVars == <<steady, recent>>
vars == <<worldVars, clientVars, visitVars, endVars>>

Steps == {"connect", "request", "streaming", "menu", "redraw", "switch", "spawn",
          "fallback", "scan", "left", "failed"}

TypeOK ==
  /\ dir \in [Names -> Sessions \cup {None}]
  /\ alive \subseteq born /\ born \subseteq Sessions
  /\ step \in Steps
  /\ current \in Names /\ target \in Names \cup {None}
  /\ conn \in Sessions \cup {None}
  /\ cut \in BOOLEAN /\ stdin \in BOOLEAN
  /\ history \in Seq(Names) /\ recent \in Seq(Names)
  /\ todo \subseteq Names /\ found \subseteq Names /\ steady \subseteq Names
  /\ visits \in Nat
  /\ lastVisit \in [Names -> Nat]

Connects(n) == dir[n] \in alive

\* attach::run has found or started the session of the first path.
Init ==
  /\ \E n \in Names, s \in Sessions :
       /\ dir = [m \in Names |-> IF m = n THEN s ELSE None]
       /\ alive = {s} /\ born = {s}
       /\ current = n
  /\ step = "connect" /\ conn = None /\ target = None /\ cut = FALSE /\ stdin = TRUE
  /\ history = <<>> /\ recent = <<>>
  /\ todo = {} /\ found = {} /\ steady = {}
  /\ visits = 0 /\ lastVisit = [n \in Names |-> 0]

-----------------------------------------------------------------------------
(* The sessions, as other users and the daemons change them                *)

StillSteady == steady' = {n \in steady : Connects(n)'} /\ UNCHANGED recent

\* What others do once the client has ended is not followed.
Watched == step \notin {"left", "failed"}

Start(n) ==
  /\ ~Connects(n)
  /\ \E s \in Sessions \ born :
       /\ dir' = [dir EXCEPT ![n] = s]
       /\ alive' = alive \cup {s}
       /\ born' = born \cup {s}

StartElsewhere(n) ==
  Watched /\ Start(n) /\ StillSteady /\ UNCHANGED <<cut, clientVars, visitVars>>

\* A session ends and removes its socket.
End(n) ==
  /\ Watched /\ Connects(n)
  /\ dir' = [dir EXCEPT ![n] = None]
  /\ alive' = alive \ {dir[n]}
  /\ UNCHANGED <<born, cut, clientVars, visitVars>>
  /\ StillSteady

\* A daemon is killed and leaves its socket file.
Crash(n) ==
  /\ Watched /\ Connects(n)
  /\ alive' = alive \ {dir[n]}
  /\ UNCHANGED <<dir, born, cut, clientVars, visitVars>>
  /\ StillSteady

Rename(n, m) ==
  /\ Watched /\ Connects(n) /\ ~Connects(m)
  /\ dir' = [dir EXCEPT ![n] = None, ![m] = dir[n]]
  /\ UNCHANGED <<alive, born, cut, clientVars, visitVars>>
  /\ StillSteady

\* The daemon closes the stream of a client that lags.
CutStream ==
  /\ conn \in alive /\ ~cut /\ visits < MaxVisits
  /\ cut' = TRUE
  /\ UNCHANGED <<dir, alive, born, clientVars, visitVars, endVars>>

-----------------------------------------------------------------------------
(* attach_single_session                                                   *)

\* history_stack.retain(|q| q != p); a path is in the history once at most.
Without(h, p) ==
  IF \E i \in 1..Len(h) : h[i] = p
  THEN LET i == CHOOSE i \in 1..Len(h) : h[i] = p
       IN  [j \in 1..(Len(h) - 1) |-> h[IF j < i THEN j ELSE j + 1]]
  ELSE h

Goto(s) == step' = s /\ UNCHANGED <<current, conn, stdin, history, target, todo, found>>

\* Mutant: a path that is pushed without being taken out first.
ConnectRepeating ==
  /\ step = "connect"
  /\ history' = Append(history, current)
  /\ visits' = visits + 1
  /\ lastVisit' = [lastVisit EXCEPT ![current] = visits + 1]
  /\ IF Connects(current)
     THEN step' = "request" /\ conn' = dir[current] /\ cut' = FALSE
     ELSE step' = "failed" /\ UNCHANGED <<conn, cut>>
  /\ UNCHANGED <<dir, alive, born, current, stdin, target, todo, found, endVars>>

\* The history, then connect(2); an error ends the client.
Connect ==
  /\ step = "connect"
  /\ history' = Append(Without(history, current), current)
  /\ visits' = visits + 1
  /\ lastVisit' = [lastVisit EXCEPT ![current] = visits + 1]
  /\ IF Connects(current)
     THEN step' = "request" /\ conn' = dir[current] /\ cut' = FALSE
     ELSE step' = "failed" /\ UNCHANGED <<conn, cut>>
  /\ UNCHANGED <<dir, alive, born, current, stdin, target, todo, found, endVars>>

\* The Attach request; writing it to a daemon that is gone ends the client.
\* Standard input is tried again in every session.
Request ==
  /\ step = "request"
  /\ step' = IF conn \in alive THEN "streaming" ELSE "failed"
  /\ stdin' = TRUE
  /\ UNCHANGED <<worldVars, visitVars, endVars, current, conn, history, target, todo, found>>

\* The stream ends, or input cannot be written: AttachOutcome::Terminated.
StreamEnds ==
  /\ step = "streaming"
  /\ conn \notin alive \/ cut
  /\ step' = "fallback"
  /\ conn' = None
  /\ history' = Without(history, current)
  /\ recent' = history'
  /\ steady' = {n \in Names : Connects(n)}
  /\ cut' = FALSE
  /\ UNCHANGED <<dir, alive, born, current, stdin, target, todo, found, visitVars>>

StdinEnds ==
  /\ step = "streaming" /\ stdin
  /\ stdin' = FALSE
  /\ UNCHANGED <<worldVars, visitVars, endVars, step, current, conn, history, target, todo,
                 found>>

\* The menu key; the client waits for the menu command and reads nothing else.
OpenMenu ==
  /\ step = "streaming" /\ stdin /\ visits < MaxVisits
  /\ Goto("menu")
  /\ UNCHANGED <<worldVars, visitVars, endVars>>

MenuDetach ==
  /\ step = "menu"
  /\ Goto("left")
  /\ UNCHANGED <<worldVars, visitVars, endVars>>

MenuCancel ==
  /\ step = "menu"
  /\ Goto("redraw")
  /\ UNCHANGED <<worldVars, visitVars, endVars>>

\* An invalid name, or `ttyman start` fails: `?` ends the client.
MenuFails ==
  /\ step = "menu"
  /\ Goto("failed")
  /\ UNCHANGED <<worldVars, visitVars, endVars>>

\* "attach <name>": SwitchTo
MenuChoose(n) ==
  /\ step = "menu"
  /\ step' = "switch" /\ target' = n
  /\ UNCHANGED <<worldVars, visitVars, endVars, current, conn, stdin, history, todo, found>>

\* Mutant: a name that is not found in the output of start is no error.
MenuNewUnparsed(n) ==
  /\ step = "menu" /\ dir[n] = None
  /\ Start(n)
  /\ step' = "connect" /\ current' = None
  /\ UNCHANGED <<cut, visitVars, endVars, conn, stdin, history, target, todo, found>>

\* "attach": a new session under a name of its own
MenuNew(n) ==
  /\ step = "menu" /\ dir[n] = None
  /\ Start(n)
  /\ step' = "switch" /\ target' = n
  /\ UNCHANGED <<cut, visitVars, endVars, current, conn, stdin, history, todo, found>>

\* The redraw after a cancelled menu leaves the client where it was.
Redraw ==
  /\ step = "redraw"
  /\ Goto("streaming")
  /\ UNCHANGED <<worldVars, visitVars, endVars>>

-----------------------------------------------------------------------------
(* attach_client                                                           *)

\* The client leaves the session it is connected to for the path p.
SetOut(p) ==
  /\ step' = "connect"
  /\ current' = p
  /\ conn' = None /\ target' = None /\ found' = {}
  /\ steady' = {} /\ recent' = <<>>

\* SwitchTo: exists() and connect(2)
Switch ==
  /\ step = "switch"
  /\ IF Connects(target)
     THEN SetOut(target) /\ UNCHANGED <<stdin, history, todo>>
     ELSE Goto("spawn") /\ UNCHANGED endVars
  /\ UNCHANGED <<worldVars, visitVars>>

\* `ttyman start -s <name>` starts the session or finds it running.
Spawn ==
  /\ step = "spawn"
  /\ IF Connects(target) THEN UNCHANGED <<dir, alive, born>> ELSE Start(target)
  /\ SetOut(target)
  /\ UNCHANGED <<cut, visitVars, stdin, history, todo>>

SpawnFails ==
  /\ step = "spawn"
  /\ Goto("failed")
  /\ UNCHANGED <<worldVars, visitVars, endVars>>

Last == history[Len(history)]
Popped == SubSeq(history, 1, Len(history) - 1)

\* Mutant: the history is searched from the session visited first.
FallBackToFirst ==
  /\ step = "fallback" /\ history # <<>>
  /\ history' = Tail(history)
  /\ IF Connects(history[1])
     THEN SetOut(history[1])
     ELSE UNCHANGED <<step, current, conn, target, found, endVars>>
  /\ UNCHANGED <<worldVars, visitVars, stdin, todo>>

\* Mutant: a path that does not answer is looked at again.
FallBackPeeking ==
  /\ step = "fallback" /\ history # <<>>
  /\ IF Connects(Last)
     THEN history' = Popped /\ SetOut(Last)
     ELSE UNCHANGED <<step, current, conn, history, target, found, endVars>>
  /\ UNCHANGED <<worldVars, visitVars, stdin, todo>>

\* history_stack.pop(), until a path can be connected to
FallBack ==
  /\ step = "fallback" /\ history # <<>>
  /\ history' = Popped
  /\ IF Connects(Last)
     THEN SetOut(Last)
     ELSE UNCHANGED <<step, current, conn, target, found, endVars>>
  /\ UNCHANGED <<worldVars, visitVars, stdin, todo>>

\* Mutant: only the sessions the client has been to are looked for.
LookAroundAtRecent ==
  /\ step = "fallback" /\ history = <<>>
  /\ step' = "scan"
  /\ todo' = {n \in Names : dir[n] # None /\ lastVisit[n] > 0} \ {current}
  /\ found' = {}
  /\ UNCHANGED <<worldVars, visitVars, endVars, current, conn, stdin, history, target>>

\* find_socket_files(), and the filter that leaves out the current path
LookAround ==
  /\ step = "fallback" /\ history = <<>>
  /\ step' = "scan"
  /\ todo' = {n \in Names : dir[n] # None} \ {current}
  /\ found' = {}
  /\ UNCHANGED <<worldVars, visitVars, endVars, current, conn, stdin, history, target>>

\* The filter connects to one file after the other.
Scan(n) ==
  /\ step = "scan" /\ n \in todo
  /\ todo' = todo \ {n}
  /\ found' = IF Connects(n) THEN found \cup {n} ELSE found
  /\ UNCHANGED <<worldVars, visitVars, endVars, step, current, conn, stdin, history, target>>

\* max_by_key(modified): whichever was bound last
Choose ==
  /\ step = "scan" /\ todo = {}
  /\ \E n \in found : SetOut(n)
  /\ UNCHANGED <<worldVars, visitVars, stdin, history, todo>>

\* No other session: the client ends.
GiveUp ==
  /\ step = "scan" /\ todo = {} /\ found = {}
  /\ Goto("left")
  /\ UNCHANGED <<worldVars, visitVars, endVars>>

-----------------------------------------------------------------------------
World ==
  \/ \E n \in Names : StartElsewhere(n) \/ End(n) \/ Crash(n)
  \/ \E n, m \in Names : Rename(n, m)
  \/ CutStream

User ==
  \/ StdinEnds \/ OpenMenu \/ MenuDetach \/ MenuCancel \/ MenuFails
  \/ \E n \in Names : MenuChoose(n) \/ MenuNew(n)

Client ==
  \/ Connect \/ Request \/ StreamEnds \/ Redraw
  \/ Switch \/ Spawn \/ SpawnFails
  \/ FallBack \/ LookAround \/ Choose \/ GiveUp
  \/ \E n \in Names : Scan(n)

Next == World \/ User \/ Client

Spec == Init /\ [][Next]_vars

\* The client runs; neither its user nor anyone else has to do anything.
FairSpec == Spec /\ WF_vars(Client)

-----------------------------------------------------------------------------
(* Properties                                                              *)

\* The history names the sessions the client has been to, none twice, in the
\* order of its last visits, and ends with the one it is at.
MostRecentLast ==
  /\ \A i, j \in 1..Len(history) :
       i < j => 0 < lastVisit[history[i]] /\ lastVisit[history[i]] < lastVisit[history[j]]
  /\ step \in {"request", "streaming", "menu", "redraw"} =>
       history # <<>> /\ history[Len(history)] = current

\* When a stream ends the client goes back to the session it visited last of
\* those that are there: it passes over none that could be connected to all
\* the time, neither in its history nor when it looks around.
BackToMostRecent ==
  [][\A i \in 1..Len(recent) :
       step \in {"fallback", "scan"} /\ step' = "connect" /\ recent[i] \in steady
         => \E j \in i..Len(recent) : current' = recent[j]]_vars

\* The client gives up only if no other session was there all the time since
\* the stream ended, under whatever name and however it came there.
GivesUpAlone ==
  [][step = "scan" /\ step' = "left" => steady \subseteq {current}]_vars

\* Whatever happens to sessions meanwhile, a client that is on its way from one
\* session to another arrives or ends.
Arrives ==
  step \notin {"streaming", "menu", "left", "failed"} ~> step \in {"streaming", "left", "failed"}

=============================================================================
