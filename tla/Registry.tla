------------------------------ MODULE Registry ------------------------------
(***************************************************************************)
(* The runtime directory of ttyman, the session daemons that own a socket  *)
(* file in it and the commands that look them up (start, attach, kill,     *)
(* rename, list --clean).  There is no central process and no lock between *)
(* commands: everything they agree on is which file ttyman-<name> exists   *)
(* and whether connect(2) to it succeeds.                                  *)
(*                                                                         *)
(* A daemon stands for one process and its pid; pids are not reused.  One  *)
(* step is one system call (or one critical section) that another process  *)
(* can observe.                                                            *)
(***************************************************************************)
CONSTANTS
  Names,      \* session names; name n is the file ttyman-<n>
  Daemons,    \* daemon processes that may ever be forked (the bound)
  Commands,   \* slots in which commands run; the bound on concurrent commands
  None,       \* no name, no daemon
  NumeralOf,  \* NumeralOf[n]: the daemon whose pid the name n spells, or None
  Faults      \* subset of {"crash", "accept"}: faults that may happen

ASSUME RegistryAssumption ==
  /\ None \notin Names \cup Daemons
  /\ NumeralOf \in [Names -> Daemons \cup {None}]
  /\ \A m, n \in Names : NumeralOf[m] = NumeralOf[n] /\ NumeralOf[n] # None => m = n
  /\ Faults \subseteq {"crash", "accept"}

VARIABLES
  dir,        \* dir[n]: the daemon whose listening socket is linked at n, or None
  phase,      \* phase[d]: how far the process d has come
  refusing,   \* daemons whose accept loop has ended (the listener is dropped)
  path,       \* path[d]: current_sock_path
  doomed,     \* doomed[d]: the path cloned for cleanup
  op, at,     \* the command in a slot and the step it is about to take
  name, newName, pid,  \* its arguments and the process it found
  returned    \* (history) kills past the first of their last two tests, to whose name
              \* a rename has brought their process back since that test

daemonVars == <<phase, refusing, path, doomed>>
args == <<op, name, newName, pid, returned>>
vars == <<dir, daemonVars, at, args>>

Phases == {"unborn", "booting", "cleared", "bound", "up", "serving",
           "leaving", "left", "zombie", "gone"}
Ops == {"none", "start", "kill", "rename", "clean"}
Points == {"idle", "probe", "connect", "unlink", "spawn", "ready", "query",
           "term", "await", "linger", "force", "remove", "request", "check", "clear", "move", "pid"}

TypeOK ==
  /\ dir \in [Names -> Daemons \cup {None}]
  /\ phase \in [Daemons -> Phases]
  /\ refusing \subseteq Daemons
  /\ path \in [Daemons -> Names \cup {None}]
  /\ doomed \in [Daemons -> Names \cup {None}]
  /\ op \in [Commands -> Ops]
  /\ at \in [Commands -> Points]
  /\ name \in [Commands -> Names \cup {None}]
  /\ newName \in [Commands -> Names \cup {None}]
  /\ pid \in [Commands -> Daemons \cup {None}]
  /\ returned \subseteq Commands

Init ==
  /\ dir = [n \in Names |-> None]
  /\ phase = [d \in Daemons |-> "unborn"]
  /\ refusing = {}
  /\ path = [d \in Daemons |-> None]
  /\ doomed = [d \in Daemons |-> None]
  /\ op = [c \in Commands |-> "none"]
  /\ at = [c \in Commands |-> "idle"]
  /\ name = [c \in Commands |-> None]
  /\ newName = [c \in Commands |-> None]
  /\ pid = [c \in Commands |-> None]
  /\ returned = {}

-----------------------------------------------------------------------------
(* What one process can see of another.                                    *)

Booting == {"booting", "cleared", "bound"}
Running == {"up", "serving", "leaving", "left"}
Alive(d) == phase[d] \in Booting \cup Running
Listening(d) == phase[d] \in Running /\ d \notin refusing

Exists(n) == dir[n] # None
Connects(n) == Exists(n) /\ Listening(dir[n])

Unlink(n) == dir' = [dir EXCEPT ![n] = None]
SetPhase(d, p) == phase' = [phase EXCEPT ![d] = p]

Goto(c, p) == at' = [at EXCEPT ![c] = p] /\ UNCHANGED args

\* The command exits; its slot is free for another one.
Leave(c) ==
  /\ at' = [at EXCEPT ![c] = "idle"]
  /\ op' = [op EXCEPT ![c] = "none"]
  /\ name' = [name EXCEPT ![c] = None]
  /\ newName' = [newName EXCEPT ![c] = None]
  /\ pid' = [pid EXCEPT ![c] = None]

Finish(c) == Leave(c) /\ returned' = returned \ {c}

\* The command found the process d and goes on to p.
Found(c, d, p) ==
  /\ pid' = [pid EXCEPT ![c] = d]
  /\ at' = [at EXCEPT ![c] = p]
  /\ UNCHANGED <<op, name, newName, returned>>

Begin(c, o, n, m, p) ==
  /\ at[c] = "idle"
  /\ op' = [op EXCEPT ![c] = o]
  /\ name' = [name EXCEPT ![c] = n]
  /\ newName' = [newName EXCEPT ![c] = m]
  /\ at' = [at EXCEPT ![c] = p]
  /\ UNCHANGED <<dir, daemonVars, pid, returned>>

-----------------------------------------------------------------------------
(* start and attach: is_socket_alive, then spawn_daemon_supervisor.        *)

BeginStart(c, n) == Begin(c, "start", n, None, "probe")
BeginAnonymous(c) == Begin(c, "start", None, None, "spawn")

NotAlive(c) == IF op[c] = "start" THEN "spawn" ELSE "remove"

\* is_socket_alive: p.exists()
Probe(c) ==
  /\ at[c] = "probe"
  /\ Goto(c, IF Exists(name[c]) THEN "connect" ELSE NotAlive(c))
  /\ UNCHANGED <<dir, daemonVars>>

\* is_socket_alive: UnixStream::connect.  A live session ends either command:
\* start prints "already running", kill gives up on a session it cannot query.
Connect(c) ==
  /\ at[c] = "connect"
  /\ IF Connects(name[c]) THEN Finish(c) ELSE Goto(c, "unlink")
  /\ UNCHANGED <<dir, daemonVars>>

\* is_socket_alive: remove_file of what it takes for a stale socket
RemoveStale(c) ==
  /\ at[c] = "unlink"
  /\ Unlink(name[c])
  /\ Goto(c, NotAlive(c))
  /\ UNCHANGED daemonVars

\* fork of the daemon; an anonymous session is named by its own pid
Spawn(c) ==
  /\ at[c] = "spawn"
  /\ \E d \in Daemons, n \in Names :
       /\ phase[d] = "unborn"
       /\ name[c] = n \/ (name[c] = None /\ NumeralOf[n] = d)
       /\ SetPhase(d, "booting")
       /\ path' = [path EXCEPT ![d] = n]
       /\ name' = [name EXCEPT ![c] = n]
       /\ pid' = [pid EXCEPT ![c] = d]
  /\ at' = [at EXCEPT ![c] = "ready"]
  /\ UNCHANGED <<dir, refusing, doomed, op, newName, returned>>

\* pipe() or fork() fails
SpawnFails(c) ==
  /\ at[c] = "spawn"
  /\ Finish(c)
  /\ UNCHANGED <<dir, daemonVars>>

\* Mutant: a parent that keeps its own write end of the pipe open never sees the end of a dead daemon's.
ReadsSuccessOnly(c) ==
  /\ at[c] = "ready"
  /\ phase[pid[c]] \in Running
  /\ Finish(c)
  /\ UNCHANGED <<dir, daemonVars>>

\* The parent reads READY, an error, or the end of the pipe of a dead daemon.
ReadReady(c) ==
  /\ at[c] = "ready"
  /\ phase[pid[c]] \notin Booting
  /\ Finish(c)
  /\ UNCHANGED <<dir, daemonVars>>

-----------------------------------------------------------------------------
(* The daemon's life, as far as the directory shows it.                    *)

\* bind_unix_listener: remove_file, whatever is there
RemoveOld(d) ==
  /\ phase[d] = "booting"
  /\ Unlink(path[d])
  /\ SetPhase(d, "cleared")
  /\ UNCHANGED <<refusing, path, doomed, at, args>>

\* bind_unix_listener: bind(2); EADDRINUSE ends the process
Bind(d) ==
  /\ phase[d] = "cleared"
  /\ IF Exists(path[d])
     THEN SetPhase(d, "zombie") /\ UNCHANGED dir
     ELSE SetPhase(d, "bound") /\ dir' = [dir EXCEPT ![path[d]] = d]
  /\ UNCHANGED <<refusing, path, doomed, at, args>>

\* listen(2), the accept loop and READY
Listen(d) ==
  /\ phase[d] = "bound"
  /\ SetPhase(d, "up")
  /\ UNCHANGED <<dir, refusing, path, doomed, at, args>>

\* The shell is forked and the signal handlers are installed.
EnterEventLoop(d) ==
  /\ phase[d] = "up"
  /\ SetPhase(d, "serving")
  /\ UNCHANGED <<dir, refusing, path, doomed, at, args>>

\* A rename handler of d holds the write lock of current_sock_path.
Locked(d) == \E c \in Commands : pid[c] = d /\ at[c] \in {"clear", "move"}

\* The event loop ends (shell gone, PTY closed, signal) and reads the path.
LeaveEventLoop(d) ==
  /\ phase[d] = "serving"
  /\ ~Locked(d)
  /\ SetPhase(d, "leaving")
  /\ doomed' = [doomed EXCEPT ![d] = path[d]]
  /\ UNCHANGED <<dir, refusing, path, at, args>>

\* Mutant: a cleanup that spares a socket that still answers, as its own does.
RemoveUnlessAlive(d) ==
  /\ phase[d] = "leaving"
  /\ IF Connects(doomed[d]) THEN UNCHANGED dir ELSE Unlink(doomed[d])
  /\ SetPhase(d, "left")
  /\ UNCHANGED <<refusing, path, doomed, at, args>>

RemoveSocket(d) ==
  /\ phase[d] = "leaving"
  /\ Unlink(doomed[d])
  /\ SetPhase(d, "left")
  /\ UNCHANGED <<refusing, path, doomed, at, args>>

Exit(d) ==
  /\ phase[d] = "left"
  /\ SetPhase(d, "zombie")
  /\ UNCHANGED <<dir, refusing, path, doomed, at, args>>

\* The parent that started d waits for it, or exits and init does.
Reap(d) ==
  /\ phase[d] = "zombie"
  /\ SetPhase(d, "gone")
  /\ UNCHANGED <<dir, refusing, path, doomed, at, args>>

\* SIGKILL, a panic, or an error of openpty or fork returned by `?`
Crash(d) ==
  /\ "crash" \in Faults
  /\ Alive(d)
  /\ SetPhase(d, "zombie")
  /\ UNCHANGED <<dir, refusing, path, doomed, at, args>>

\* accept(2) fails once: `while let Ok` ends and drops the listener.
AcceptError(d) ==
  /\ "accept" \in Faults
  /\ Listening(d)
  /\ refusing' = refusing \cup {d}
  /\ UNCHANGED <<dir, phase, path, doomed, at, args>>

-----------------------------------------------------------------------------
(* kill                                                                    *)

BeginKill(c, n) == Exists(n) /\ Begin(c, "kill", n, None, "query")

\* Mutant: kill that takes the session name for its pid.
KillQueryByName(c) ==
  /\ op[c] = "kill"
  /\ at[c] = "query"
  /\ IF Connects(name[c]) THEN Found(c, name[c], "term") ELSE Goto(c, "probe")
  /\ UNCHANGED <<dir, daemonVars>>

\* query_session_info; a failure makes kill ask is_socket_alive.
KillQuery(c) ==
  /\ op[c] = "kill"
  /\ at[c] = "query"
  /\ IF Connects(name[c]) THEN Found(c, dir[name[c]], "term") ELSE Goto(c, "probe")
  /\ UNCHANGED <<dir, daemonVars>>

\* kill(pid, SIGTERM).  ESRCH: only the file is left.  Before the handlers are
\* installed the default action ends the daemon; afterwards its event loop may
\* take LeaveEventLoop, which is enabled anyway.
KillTerm(c) ==
  LET d == pid[c] IN
  /\ at[c] = "term"
  /\ Goto(c, IF phase[d] = "gone" THEN "remove" ELSE "await")
  /\ phase' = [phase EXCEPT ![d] = IF @ = "up" THEN "zombie" ELSE @]
  /\ UNCHANGED <<dir, refusing, path, doomed>>

\* Mutant: kill that asks for the process only.
KillLookAway(c) ==
  /\ at[c] = "await"
  /\ Goto(c, "linger")
  /\ UNCHANGED <<dir, daemonVars>>

\* The polling loop ends, by its condition or by the 1 s deadline, and each of
\* its two tests is made again: sock_path.exists() ...
KillLook(c) ==
  /\ at[c] = "await"
  /\ Goto(c, IF Exists(name[c]) THEN "force" ELSE "linger")
  /\ UNCHANGED <<dir, daemonVars>>

\* ... and kill(pid, 0), if there was no file.  A zombie still has its pid.
KillProbe(c) ==
  /\ at[c] = "linger"
  /\ IF phase[pid[c]] = "gone" THEN Finish(c) ELSE Goto(c, "force")
  /\ UNCHANGED <<dir, daemonVars>>

\* kill(pid, SIGKILL)
KillForce(c) ==
  /\ at[c] = "force"
  /\ Goto(c, "remove")
  /\ phase' = [phase EXCEPT ![pid[c]] = IF @ = "gone" THEN @ ELSE "zombie"]
  /\ UNCHANGED <<dir, refusing, path, doomed>>

\* remove_file(sock_path), by kill and by list --clean
RemoveFile(c) ==
  /\ at[c] = "remove"
  /\ Unlink(name[c])
  /\ Finish(c)
  /\ UNCHANGED daemonVars

-----------------------------------------------------------------------------
(* rename: the command asks the daemon, the daemon's handler moves the file. *)

BeginRename(c, n, m) == Exists(n) /\ Begin(c, "rename", n, m, "request")

RenameRequest(c) ==
  /\ at[c] = "request"
  /\ IF Connects(name[c]) THEN Found(c, dir[name[c]], "check") ELSE Finish(c)
  /\ UNCHANGED <<dir, daemonVars>>

\* Mutant: a handler that does not ask whether the target is active.
RenameCheckUnasked(c) ==
  /\ at[c] = "check"
  /\ Alive(pid[c]) /\ ~Locked(pid[c])
  /\ IF path[pid[c]] = newName[c] THEN Finish(c) ELSE Goto(c, "clear")
  /\ UNCHANGED <<dir, daemonVars>>

\* The handler takes the lock; the same name or an active target ends it.
RenameCheck(c) ==
  /\ at[c] = "check"
  /\ Alive(pid[c]) /\ ~Locked(pid[c])
  /\ IF path[pid[c]] = newName[c] \/ Connects(newName[c])
     THEN Finish(c)
     ELSE Goto(c, "clear")
  /\ UNCHANGED <<dir, daemonVars>>

RenameClear(c) ==
  /\ at[c] = "clear"
  /\ Alive(pid[c])
  /\ Unlink(newName[c])
  /\ Goto(c, "move")
  /\ UNCHANGED daemonVars

\* Mutant: a rename that links the new name and keeps the old one.
RenameByHardLink(c) ==
  LET d == pid[c] IN
  /\ at[c] = "move"
  /\ Alive(d)
  /\ IF Exists(path[d])
     THEN /\ dir' = [dir EXCEPT ![newName[c]] = dir[path[d]]]
          /\ path' = [path EXCEPT ![d] = newName[c]]
     ELSE UNCHANGED <<dir, path>>
  /\ Finish(c)
  /\ UNCHANGED <<phase, refusing, doomed>>

\* Mutant: a rename that does not store current_sock_path.
RenameForgetsPath(c) ==
  LET d == pid[c] IN
  /\ at[c] = "move"
  /\ Alive(d)
  /\ IF Exists(path[d])
     THEN dir' = [dir EXCEPT ![path[d]] = None, ![newName[c]] = dir[path[d]]]
     ELSE UNCHANGED dir
  /\ Finish(c)
  /\ UNCHANGED daemonVars

\* The kills that wait between their last two tests for the process e at n.
Lingering(e, n) == {k \in Commands : at[k] = "linger" /\ pid[k] = e /\ name[k] = n}

\* fs::rename moves whatever is at the old path and replaces whatever is at
\* the new one; the lock is released.
RenameMove(c) ==
  LET d == pid[c] IN
  /\ at[c] = "move"
  /\ Alive(d)
  /\ IF Exists(path[d])
     THEN /\ dir' = [dir EXCEPT ![path[d]] = None, ![newName[c]] = dir[path[d]]]
          /\ path' = [path EXCEPT ![d] = newName[c]]
          /\ returned' = returned \cup Lingering(dir[path[d]], newName[c])
     ELSE UNCHANGED <<dir, path, returned>>
  /\ Leave(c)
  /\ UNCHANGED <<phase, refusing, doomed>>

\* The daemon dies under its handler, or drops the listener before accepting.
RenameAborted(c) ==
  /\ at[c] \in {"check", "clear", "move"}
  /\ ~Alive(pid[c]) \/ (at[c] = "check" /\ pid[c] \in refusing)
  /\ Finish(c)
  /\ UNCHANGED <<dir, daemonVars>>

-----------------------------------------------------------------------------
(* list --clean, for one of the files it found                             *)

BeginClean(c, n) == Exists(n) /\ Begin(c, "clean", n, None, "query")

CleanAnswered(c) ==
  /\ op[c] = "clean"
  /\ at[c] = "query"
  /\ Connects(name[c])
  /\ Found(c, dir[name[c]], "pid")
  /\ UNCHANGED <<dir, daemonVars>>

\* Mutant: a session that does not answer is taken for dead.
CleanUnansweredRemoves(c) ==
  /\ op[c] = "clean"
  /\ at[c] = "query"
  /\ Goto(c, "remove")
  /\ UNCHANGED <<dir, daemonVars>>

\* No listener, or no answer within 150 ms: a numeral name is taken for the
\* pid, any other name is skipped.
CleanUnanswered(c) ==
  /\ op[c] = "clean"
  /\ at[c] = "query"
  /\ IF NumeralOf[name[c]] # None
     THEN Found(c, NumeralOf[name[c]], "pid")
     ELSE Finish(c)
  /\ UNCHANGED <<dir, daemonVars>>

\* is_process_alive: kill(pid, 0)
CleanPid(c) ==
  /\ at[c] = "pid"
  /\ IF phase[pid[c]] \in {"unborn", "gone"} THEN Goto(c, "remove") ELSE Finish(c)
  /\ UNCHANGED <<dir, daemonVars>>

-----------------------------------------------------------------------------
BeginCommand(c) ==
  \/ BeginAnonymous(c)
  \/ \E n \in Names : BeginStart(c, n) \/ BeginKill(c, n) \/ BeginClean(c, n)
  \/ \E n, m \in Names : BeginRename(c, n, m)

CommandStep(c) ==
  \/ Probe(c) \/ Connect(c) \/ RemoveStale(c)
  \/ Spawn(c) \/ SpawnFails(c) \/ ReadReady(c)
  \/ KillQuery(c) \/ KillTerm(c) \/ KillLook(c) \/ KillProbe(c) \/ KillForce(c)
  \/ RemoveFile(c)
  \/ RenameRequest(c) \/ RenameCheck(c) \/ RenameClear(c) \/ RenameMove(c)
  \/ RenameAborted(c)
  \/ CleanAnswered(c) \/ CleanUnanswered(c) \/ CleanPid(c)

BootStep(d) == RemoveOld(d) \/ Bind(d) \/ Listen(d) \/ EnterEventLoop(d)

ExitStep(d) == RemoveSocket(d) \/ Exit(d) \/ Reap(d)

DaemonStep(d) ==
  BootStep(d) \/ LeaveEventLoop(d) \/ ExitStep(d) \/ Crash(d) \/ AcceptError(d)

Next ==
  \/ \E c \in Commands : BeginCommand(c) \/ CommandStep(c)
  \/ \E d \in Daemons : DaemonStep(d)

Spec == Init /\ [][Next]_vars

\* A process that can take a step takes it, and a handler that waits for the
\* lock gets it.  Nothing obliges a session to end, nor anyone to run a command.
FairSpec ==
  /\ Spec
  /\ \A c \in Commands : WF_vars(CommandStep(c)) /\ SF_vars(RenameCheck(c))
  /\ \A d \in Daemons : WF_vars(BootStep(d)) /\ WF_vars(ExitStep(d))

-----------------------------------------------------------------------------
(* Orderly use.  The code has no lock between commands, so a session stays *)
(* reachable only as long as its users and its daemon keep out of each     *)
(* other's way.  These are the ways they have to.                          *)

InUse(c) == {name[c], newName[c]} \ {None}

\* Commands in flight name different sessions.
NoOverlap == \A b, c \in Commands : b # c => InUse(b) \cap InUse(c) = {}

\* No session but d itself is given d's pid as its name.
NumeralsReserved == \A d \in Daemons : path[d] # None => NumeralOf[path[d]] \in {None, d}

\* A session that is about to remove its socket is not being renamed.
NoRenameAtExit ==
  \A c \in Commands : at[c] \in {"clear", "move"} => phase[pid[c]] # "leaving"

\* The accept loop of a running session has not ended.
Accepting == \A d \in Daemons : Alive(d) => d \notin refusing

Orderly == NoOverlap /\ NumeralsReserved /\ NoRenameAtExit /\ Accepting

OrderlySpec == Init /\ [][Next /\ Orderly']_vars

-----------------------------------------------------------------------------
(* Properties of every behaviour                                           *)

\* A socket is linked under at most one name at a time: rename moves it, and
\* nothing else makes a second link.
LinkedOnce ==
  \A m, n \in Names : dir[m] = dir[n] /\ dir[n] # None => m = n

\* When kill reports success, the process it signalled is dead and the name does
\* not lead to it, whatever other commands did meanwhile; the one exception is a
\* rename that brings the socket back between the two tests of kill.rs:52.
KillIsFinal ==
  [][\A c \in Commands :
       op[c] = "kill" /\ pid[c] # None /\ at'[c] = "idle"
         => /\ phase'[pid[c]] \in {"zombie", "gone"}
            /\ dir'[name[c]] = pid[c] => c \in returned]_vars

\* No command waits for ever: not start for READY, not rename for the lock or
\* for the answer of a daemon that is exiting.
CommandsFinish == \A c \in Commands : at[c] # "idle" ~> at[c] = "idle"

-----------------------------------------------------------------------------
(* Properties of orderly use                                               *)

\* A running session can be found: its socket is linked where it believes it is.
Reachable ==
  \A d \in Daemons : phase[d] \in {"up", "serving"} => dir[path[d]] = d

\* A session that ends, other than by a crash, leaves no file behind, whatever it
\* was renamed to before and whoever has its name by then.
LeavesNoFile ==
  \A d \in Daemons : phase[d] = "left" => \A n \in Names : dir[n] # d

\* Nobody takes the socket of a live process away from its name but the process
\* itself, when it leaves or moves to another name: neither a probe, nor the
\* cleanup of kill, list --clean or a rename, nor the bind of another daemon.
LiveSocketStays ==
  [][\A n \in Names :
       Exists(n) /\ Alive(dir[n]) /\ dir'[n] # dir[n] /\ phase'[dir[n]] = phase[dir[n]]
         => \E m \in Names : dir'[m] = dir[n]]_vars

\* The directory implements the map from names to sessions.
live == [n \in Names |-> IF Exists(n) /\ phase[dir[n]] \in {"up", "serving"}
                         THEN dir[n] ELSE None]
ended == {d \in Daemons : phase[d] \in {"leaving", "left", "zombie", "gone"}}

SM == INSTANCE SessionMap WITH Sessions <- Daemons
ImplementsSessionMap == SM!Spec

-----------------------------------------------------------------------------
(* What the repository says of its commands and the code does not keep     *)

\* list.rs:14: list --clean does remove a file whose session is dead.
CleanRemovesStale ==
  [][\A c \in Commands :
       op[c] = "clean" /\ at'[c] = "idle" /\ at[c] # "idle" /\ Exists(name[c])
         => phase[dir[name[c]]] # "gone" \/ dir'[name[c]] = None]_vars

\* README.md:17: every session has its own socket, so no two running sessions claim
\* the same name.
OwnSocket ==
  \A d, e \in Daemons :
    phase[d] = "serving" /\ phase[e] = "serving" /\ path[d] = path[e] => d = e
=============================================================================
