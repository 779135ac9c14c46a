--------------------------- MODULE RegistryProofs ---------------------------
(***************************************************************************)
(* Proofs about Registry: type correctness, the uniqueness of links and    *)
(* the finality of kill for every behaviour; for orderly use, that every   *)
(* running session is reachable, that nobody removes the socket of a live  *)
(* one and that the directory implements SessionMap.                       *)
(***************************************************************************)
EXTENDS Registry, TLAPS

(* The inductive invariant of orderly use, part by part.                   *)

\* No process that is alive has its socket at n.
Vacant(n) == dir[n] = None \/ ~Alive(dir[n])

\* A linked socket belongs to a process that has bound it ...
LinkedAfterBind ==
  \A n \in Names : Exists(n) => phase[dir[n]] \notin {"unborn", "booting", "cleared"}

\* ... and, as long as that process lives, at the path it believes in.
LinkedAtPath == \A n \in Names : Exists(n) /\ Alive(dir[n]) => path[dir[n]] = n

Anchored ==
  \A d \in Daemons : phase[d] \in {"bound", "up", "serving", "leaving"} => dir[path[d]] = d

HasPath == \A d \in Daemons : phase[d] # "unborn" => path[d] \in Names

CleanupPath == \A d \in Daemons : phase[d] = "leaving" => doomed[d] = path[d]

\* The start command of a booting daemon still waits, and so holds its name.
StarterWaits ==
  \A d \in Daemons : phase[d] \in Booting =>
    \E c \in Commands : at[c] = "ready" /\ pid[c] = d /\ name[c] = path[d]

\* The arguments a command has at each point.
HasArguments ==
  \A c \in Commands :
    /\ at[c] \notin {"idle", "spawn"} => name[c] \in Names
    /\ at[c] \in {"request", "check", "clear", "move"} => newName[c] \in Names
    /\ at[c] \in {"ready", "term", "await", "linger", "force", "pid", "check", "clear", "move"}
         => pid[c] \in Daemons
    /\ at[c] \in {"ready", "term", "await", "linger", "force", "check", "clear", "move"}
         => phase[pid[c]] # "unborn"
    /\ at[c] \in {"spawn", "ready"} => op[c] = "start"

\* What a command is about to remove or replace belongs to no live process.
RemovesVacant ==
  \A c \in Commands :
    /\ at[c] \in {"unlink", "remove"} => Vacant(name[c])
    /\ at[c] = "spawn" /\ name[c] # None => Vacant(name[c])
    /\ at[c] = "ready" /\ phase[pid[c]] = "booting" => Vacant(name[c])
    /\ at[c] = "clear" => Vacant(newName[c])
    /\ at[c] = "move" => dir[newName[c]] = None

\* While a command deals with a process, no other live one takes its name.
KeepsTarget ==
  \A c \in Commands :
    at[c] \in {"term", "await", "linger", "force", "pid", "check", "clear", "move"}
      => Vacant(name[c]) \/ dir[name[c]] = pid[c]

RenamesByPath ==
  \A c \in Commands :
    at[c] \in {"check", "clear", "move"} /\ Alive(pid[c]) => path[pid[c]] = name[c]

OrderlyInv ==
  /\ TypeOK
  /\ Orderly
  /\ LinkedAfterBind
  /\ LinkedAtPath
  /\ Anchored
  /\ HasPath
  /\ CleanupPath
  /\ StarterWaits
  /\ HasArguments
  /\ RemovesVacant
  /\ KeepsTarget
  /\ RenamesByPath
-----------------------------------------------------------------------------
(* Type correctness                                                        *)

\* TypeOK alone is not inductive: a command must have the argument it looks up,
\* and a process the path it renames.
TypeInv == TypeOK /\ HasArguments /\ HasPath

\* Every step keeps the types.
LEMMA TypeStep == TypeInv /\ [Next]_vars => TypeInv'
<1> SUFFICES ASSUME TypeInv, [Next]_vars PROVE TypeInv'
  OBVIOUS
<1> USE RegistryAssumption DEF TypeInv, TypeOK, HasArguments, HasPath, Phases, Ops, Points, daemonVars, args
<1>1. CASE UNCHANGED vars
  BY <1>1 DEF vars
<1>2. ASSUME NEW c \in Commands, BeginCommand(c) PROVE TypeInv'
  BY <1>2 DEF BeginCommand, BeginAnonymous, BeginStart, BeginKill, BeginClean,
              BeginRename, Begin
<1>3. ASSUME NEW c \in Commands, CommandStep(c) PROVE TypeInv'
  <2>1. CASE Probe(c)
    BY <2>1 DEF Probe, Goto, NotAlive
  <2>2. CASE Connect(c)
    BY <2>2 DEF Connect, Goto, Finish, Leave
  <2>3. CASE RemoveStale(c)
    BY <2>3 DEF RemoveStale, Unlink, Goto, NotAlive
  <2>4. CASE Spawn(c)
    BY <2>4 DEF Spawn, SetPhase
  <2>5. CASE SpawnFails(c)
    BY <2>5 DEF SpawnFails, Finish, Leave
  <2>6. CASE ReadReady(c)
    BY <2>6 DEF ReadReady, Finish, Leave
  <2>7. CASE KillQuery(c)
    BY <2>7 DEF KillQuery, Found, Goto, Connects, Exists, Listening, Running
  <2>8. CASE KillTerm(c)
    BY <2>8 DEF KillTerm, Goto
  <2>9. CASE KillLook(c) \/ KillProbe(c) \/ KillForce(c)
    BY <2>9 DEF KillLook, KillProbe, KillForce, Goto, Finish, Leave
  <2>10. CASE RemoveFile(c)
    BY <2>10 DEF RemoveFile, Unlink, Finish, Leave
  <2>11. CASE RenameRequest(c)
    BY <2>11 DEF RenameRequest, Found, Finish, Leave, Connects, Exists, Listening, Running
  <2>12. CASE RenameCheck(c)
    BY <2>12 DEF RenameCheck, Goto, Finish, Leave
  <2>13. CASE RenameClear(c)
    BY <2>13 DEF RenameClear, Unlink, Goto
  <2>14. CASE RenameMove(c)
    BY <2>14 DEF RenameMove, Lingering, Leave, Exists, Alive, Booting, Running
  <2>15. CASE RenameAborted(c)
    BY <2>15 DEF RenameAborted, Finish, Leave
  <2>16. CASE CleanAnswered(c)
    BY <2>16 DEF CleanAnswered, Found, Connects, Exists
  <2>17. CASE CleanUnanswered(c)
    BY <2>17 DEF CleanUnanswered, Found, Finish, Leave
  <2>18. CASE CleanPid(c)
    BY <2>18 DEF CleanPid, Goto, Finish, Leave
  <2> QED
    BY <1>3, <2>1, <2>2, <2>3, <2>4, <2>5, <2>6, <2>7, <2>8, <2>9, <2>10, <2>11, <2>12, <2>13, <2>14, <2>15, <2>16, <2>17, <2>18
       DEF CommandStep
<1>4. ASSUME NEW d \in Daemons, DaemonStep(d) PROVE TypeInv'
  <2>1. CASE RemoveOld(d)
    BY <2>1 DEF RemoveOld, Unlink, SetPhase
  <2>2. CASE Bind(d)
    BY <2>2 DEF Bind, SetPhase, Exists
  <2>3. CASE Listen(d)
    BY <2>3 DEF Listen, SetPhase
  <2>4. CASE EnterEventLoop(d)
    BY <2>4 DEF EnterEventLoop, SetPhase
  <2>5. CASE LeaveEventLoop(d)
    BY <2>5 DEF LeaveEventLoop, SetPhase
  <2>6. CASE RemoveSocket(d)
    BY <2>6 DEF RemoveSocket, Unlink, SetPhase
  <2>7. CASE Exit(d)
    BY <2>7 DEF Exit, SetPhase
  <2>8. CASE Reap(d)
    BY <2>8 DEF Reap, SetPhase
  <2>9. CASE Crash(d)
    BY <2>9 DEF Crash, SetPhase, Alive, Booting, Running
  <2>10. CASE AcceptError(d)
    BY <2>10 DEF AcceptError, Listening, Running
  <2> QED
    BY <1>4, <2>1, <2>2, <2>3, <2>4, <2>5, <2>6, <2>7, <2>8, <2>9, <2>10
       DEF DaemonStep, BootStep, ExitStep
<1> QED
  BY <1>1, <1>2, <1>3, <1>4 DEF Next

\* Every variable keeps its type, whatever commands and daemons do.
THEOREM TypeCorrect == Spec => []TypeOK
<1>1. Init => TypeInv
  BY DEF Init, TypeInv, TypeOK, HasArguments, HasPath, Phases, Ops, Points
<1>2. TypeInv => TypeOK
  BY DEF TypeInv
<1> QED
  BY <1>1, <1>2, TypeStep, PTL DEF Spec
-----------------------------------------------------------------------------
(* One link per socket                                                     *)

LinkInv == LinkedOnce /\ LinkedAfterBind

\* A daemon binds when nothing of it is linked yet, and rename moves a link.
LEMMA LinkStep == TypeInv /\ LinkInv /\ [Next]_vars => LinkInv'
<1> SUFFICES ASSUME TypeInv, LinkInv, [Next]_vars PROVE LinkInv'
  OBVIOUS
<1> USE RegistryAssumption
    DEF TypeInv, TypeOK, HasArguments, HasPath, LinkInv, LinkedOnce, LinkedAfterBind,
        Exists, Phases, daemonVars, args
<1>1. CASE UNCHANGED vars
  BY <1>1 DEF vars
<1>2. ASSUME NEW c \in Commands, BeginCommand(c) PROVE LinkInv'
  BY <1>2 DEF BeginCommand, BeginAnonymous, BeginStart, BeginKill, BeginClean,
              BeginRename, Begin
<1>3. ASSUME NEW c \in Commands, CommandStep(c) PROVE LinkInv'
  <2>1. CASE RemoveStale(c) \/ RemoveFile(c) \/ RenameClear(c)
    BY <2>1 DEF RemoveStale, RemoveFile, RenameClear, Unlink
  <2>2. CASE Spawn(c)
    BY <2>2 DEF Spawn, SetPhase
  <2>3. CASE KillTerm(c) \/ KillLook(c) \/ KillProbe(c) \/ KillForce(c)
    BY <2>3 DEF KillTerm, KillLook, KillProbe, KillForce
  <2>4. CASE RenameMove(c)
    BY <2>4 DEF RenameMove
  <2>5. CASE \/ Probe(c) \/ Connect(c) \/ SpawnFails(c) \/ ReadReady(c)
             \/ KillQuery(c) \/ RenameRequest(c) \/ RenameCheck(c) \/ RenameAborted(c)
             \/ CleanAnswered(c) \/ CleanUnanswered(c) \/ CleanPid(c)
    BY <2>5 DEF Probe, Connect, SpawnFails, ReadReady, KillQuery, RenameRequest,
                RenameCheck, RenameAborted, CleanAnswered, CleanUnanswered, CleanPid
  <2> QED
    BY <1>3, <2>1, <2>2, <2>3, <2>4, <2>5 DEF CommandStep
<1>4. ASSUME NEW d \in Daemons, DaemonStep(d) PROVE LinkInv'
  <2>1. CASE RemoveOld(d) \/ RemoveSocket(d)
    BY <2>1 DEF RemoveOld, RemoveSocket, Unlink, SetPhase
  <2>2. CASE Bind(d)
    BY <2>2 DEF Bind, SetPhase
  <2>3. CASE \/ Listen(d) \/ EnterEventLoop(d) \/ LeaveEventLoop(d)
             \/ Exit(d) \/ Reap(d) \/ Crash(d)
    BY <2>3 DEF Listen, EnterEventLoop, LeaveEventLoop, Exit, Reap, Crash, SetPhase
  <2>4. CASE AcceptError(d)
    BY <2>4 DEF AcceptError
  <2> QED
    BY <1>4, <2>1, <2>2, <2>3, <2>4 DEF DaemonStep, BootStep, ExitStep
<1> QED
  BY <1>1, <1>2, <1>3, <1>4 DEF Next

\* No socket is ever linked under two names, with any number of commands,
\* daemons and faults, and whether or not the commands keep apart.
THEOREM OneLink == Spec => []LinkedOnce
<1>1. Init => TypeInv /\ LinkInv
  BY DEF Init, TypeInv, TypeOK, HasArguments, HasPath, LinkInv, LinkedOnce,
         LinkedAfterBind, Exists, Phases, Ops, Points
<1>2. LinkInv => LinkedOnce
  BY DEF LinkInv
<1> QED
  BY <1>1, <1>2, TypeStep, LinkStep, PTL DEF Spec
-----------------------------------------------------------------------------
(* Orderly use: every running session stays reachable                      *)

\* Only its own start command uses the name of a booting daemon.
LEMMA StarterHoldsName ==
  ASSUME OrderlyInv, NEW d \in Daemons, phase[d] \in Booting,
         NEW c \in Commands, path[d] \in InUse(c)
  PROVE  at[c] = "ready" /\ pid[c] = d
<1>1. PICK b \in Commands : at[b] = "ready" /\ pid[b] = d /\ name[b] = path[d]
  BY DEF OrderlyInv, StarterWaits
<1>2. path[d] \in InUse(b)
  BY <1>1 DEF InUse
<1> QED
  BY <1>1, <1>2 DEF OrderlyInv, Orderly, NoOverlap

\* A name a command uses and cannot connect to belongs to no live process.
LEMMA RefusedIsVacant ==
  ASSUME OrderlyInv, NEW c \in Commands, at[c] # "ready",
         NEW n \in Names, n \in InUse(c), ~Connects(n)
  PROVE  Vacant(n)
<1> SUFFICES ASSUME Exists(n), Alive(dir[n]) PROVE FALSE
  BY DEF Vacant, Exists
<1>1. dir[n] \in Daemons /\ path[dir[n]] = n
  BY DEF OrderlyInv, TypeOK, LinkedAtPath, Exists
<1>2. phase[dir[n]] \in Booting
  BY <1>1 DEF Connects, Listening, Alive, OrderlyInv, Orderly, Accepting
<1> QED
  BY <1>1, <1>2, StarterHoldsName

\* The handler of a rename command has the name of the command's session.
LEMMA RenamerHoldsPath ==
  ASSUME OrderlyInv, NEW c \in Commands, at[c] = "move", Alive(pid[c])
  PROVE  /\ path[pid[c]] = name[c]
         /\ name[c] \in InUse(c) /\ newName[c] \in InUse(c)
         /\ phase[pid[c]] \notin Booting
         /\ \A b \in Commands :
              b # c => name[b] \notin {name[c], newName[c]} /\ newName[b] \notin {name[c], newName[c]}
<1>1. name[c] \in Names /\ newName[c] \in Names /\ pid[c] \in Daemons
  BY DEF OrderlyInv, HasArguments
<1>2. path[pid[c]] = name[c]
  BY DEF OrderlyInv, RenamesByPath
<1>3. name[c] \in InUse(c) /\ newName[c] \in InUse(c)
  BY <1>1, RegistryAssumption DEF InUse
<1>4. \A b \in Commands :
        b # c => name[b] \notin {name[c], newName[c]} /\ newName[b] \notin {name[c], newName[c]}
  BY <1>1, RegistryAssumption DEF OrderlyInv, Orderly, NoOverlap, InUse
<1> QED
  BY <1>1, <1>2, <1>3, <1>4, StarterHoldsName

\* The parts of OrderlyInv that are neither typing nor the discipline itself.
OrderlyParts ==
  /\ LinkedAfterBind /\ LinkedAtPath /\ Anchored /\ CleanupPath
  /\ StarterWaits /\ RemovesVacant /\ KeepsTarget /\ RenamesByPath

\* Every orderly step keeps the strengthened invariant.
LEMMA OrderlyStep ==
  OrderlyInv /\ TypeInv' /\ Orderly' /\ [Next]_vars => OrderlyInv'
<1> SUFFICES ASSUME OrderlyInv, TypeInv', Orderly', [Next]_vars PROVE OrderlyParts'
  BY DEF OrderlyInv, TypeInv, OrderlyParts
<1>0. \A c \in Commands, n \in Names :
        at[c] # "ready" /\ n \in InUse(c) /\ ~Connects(n) => Vacant(n)
  BY RefusedIsVacant
<1> USE RegistryAssumption
    DEF OrderlyInv, OrderlyParts, TypeInv, TypeOK, HasArguments, HasPath, Phases, Ops,
        Points, daemonVars, args, Orderly, NoOverlap, NumeralsReserved, NoRenameAtExit,
        Accepting, InUse, Vacant, Alive, Booting, Running, Exists, Listening,
        LinkedAfterBind, LinkedAtPath, Anchored, CleanupPath, StarterWaits,
        RemovesVacant, KeepsTarget, RenamesByPath
<1>1. CASE UNCHANGED vars
  BY <1>1 DEF vars
<1>2. ASSUME NEW c \in Commands, BeginCommand(c) PROVE OrderlyParts'
  BY <1>2, SMTT(30) DEF BeginCommand, BeginAnonymous, BeginStart, BeginKill, BeginClean,
              BeginRename, Begin
<1>3. ASSUME NEW c \in Commands, CommandStep(c) PROVE OrderlyParts'
  <2>1. CASE Probe(c)
    BY <2>1 DEF Probe, Goto, NotAlive
  <2>2. CASE Connect(c)
    <3>1. name[c] \in Names /\ (Connects(name[c]) \/ Vacant(name[c]))
      BY <1>0, <2>2 DEF Connect
    <3>2. LinkedAfterBind' /\ LinkedAtPath' /\ Anchored' /\ CleanupPath' /\ StarterWaits'
      BY <2>2, SMTT(30) DEF Connect, Goto, Finish, Leave
    <3>3. RemovesVacant'
      <4>1. CASE Connects(name[c])
        BY <2>2, <4>1 DEF Connect, Finish, Leave
      <4>2. CASE Vacant(name[c]) /\ ~Connects(name[c])
        BY <2>2, <4>2 DEF Connect, Goto
      <4> QED
        BY <3>1, <4>1, <4>2
    <3>4. KeepsTarget'
      BY <2>2 DEF Connect, Goto, Finish, Leave
    <3>5. RenamesByPath'
      BY <2>2 DEF Connect, Goto, Finish, Leave
    <3> QED
      BY <3>2, <3>3, <3>4, <3>5
  <2>3. CASE RemoveStale(c)
    BY <2>3 DEF RemoveStale, Unlink, Goto, NotAlive
  <2>4. CASE Spawn(c)
    BY <2>4 DEF Spawn, SetPhase
  <2>5. CASE SpawnFails(c)
    BY <2>5 DEF SpawnFails, Finish, Leave
  <2>6. CASE ReadReady(c)
    BY <2>6 DEF ReadReady, Finish, Leave
  <2>7. CASE KillQuery(c)
    <3>1. LinkedAfterBind' /\ LinkedAtPath' /\ Anchored' /\ CleanupPath' /\ StarterWaits'
      BY <2>7 DEF KillQuery, Found, Goto
    <3>2. RemovesVacant'
      BY <2>7 DEF KillQuery, Found, Goto
    <3>3. KeepsTarget'
      BY <2>7 DEF KillQuery, Found, Goto, Connects
    <3>4. RenamesByPath'
      BY <2>7 DEF KillQuery, Found, Goto
    <3> QED
      BY <3>1, <3>2, <3>3, <3>4
  <2>8. CASE KillTerm(c)
    BY <2>8 DEF KillTerm, Goto
  <2>9. CASE KillLook(c) \/ KillProbe(c) \/ KillForce(c)
    <3>1. LinkedAfterBind' /\ LinkedAtPath' /\ Anchored' /\ CleanupPath' /\ StarterWaits'
      BY <2>9 DEF KillLook, KillProbe, KillForce, Goto, Finish, Leave
    <3>2. RemovesVacant'
      BY <2>9 DEF KillLook, KillProbe, KillForce, Goto, Finish, Leave
    <3>3. KeepsTarget'
      BY <2>9 DEF KillLook, KillProbe, KillForce, Goto, Finish, Leave
    <3>4. RenamesByPath'
      BY <2>9 DEF KillLook, KillProbe, KillForce, Goto, Finish, Leave
    <3> QED
      BY <3>1, <3>2, <3>3, <3>4
  <2>10. CASE RemoveFile(c)
    BY <2>10 DEF RemoveFile, Unlink, Finish, Leave
  <2>11. CASE RenameRequest(c)
    BY <2>11 DEF RenameRequest, Found, Finish, Leave, Connects
  <2>12. CASE RenameCheck(c)
    <3>1. name[c] \in Names /\ newName[c] \in Names
          /\ (Connects(newName[c]) \/ Vacant(newName[c]))
      BY <1>0, <2>12 DEF RenameCheck
    <3>2. LinkedAfterBind' /\ LinkedAtPath' /\ Anchored' /\ CleanupPath' /\ StarterWaits'
      BY <2>12 DEF RenameCheck, Goto, Finish, Leave
    <3>3. RemovesVacant'
      BY <2>12, <3>1 DEF RenameCheck, Goto, Finish, Leave
    <3>4. KeepsTarget'
      BY <2>12 DEF RenameCheck, Goto, Finish, Leave
    <3>5. RenamesByPath'
      BY <2>12 DEF RenameCheck, Goto, Finish, Leave
    <3> QED
      BY <3>2, <3>3, <3>4, <3>5
  <2>13. CASE RenameClear(c)
    BY <2>13 DEF RenameClear, Unlink, Goto
  <2>14. CASE RenameMove(c)
    <3>1. /\ path[pid[c]] = name[c] /\ phase[pid[c]] \notin Booting
          /\ name[c] \in Names /\ newName[c] \in Names /\ pid[c] \in Daemons
      BY <2>14, RenamerHoldsPath DEF RenameMove, Leave
    <3>2. \A b \in Commands :
            b # c => name[b] \notin {name[c], newName[c]} /\ newName[b] \notin {name[c], newName[c]}
      BY <2>14, RenamerHoldsPath DEF RenameMove
    <3>3. LinkedAfterBind' /\ CleanupPath'
      BY <2>14, SMTT(30) DEF RenameMove, Leave
    <3>4. LinkedAtPath'
      BY <2>14 DEF RenameMove, Leave
    <3>5. Anchored'
      BY <2>14, SMTT(30) DEF RenameMove, Leave
    <3>6. StarterWaits'
      BY <2>14, <3>1 DEF RenameMove, Leave
    <3>7. RemovesVacant'
      BY <2>14, <3>1, <3>2 DEF RenameMove, Leave
    <3>8. KeepsTarget'
      BY <2>14, <3>1, <3>2 DEF RenameMove, Leave
    <3>9. RenamesByPath'
      BY <2>14, <3>1, <3>2 DEF RenameMove, Leave
    <3> QED
      BY <3>3, <3>4, <3>5, <3>6, <3>7, <3>8, <3>9
  <2>15. CASE RenameAborted(c)
    BY <2>15 DEF RenameAborted, Finish, Leave
  <2>16. CASE CleanAnswered(c)
    BY <2>16 DEF CleanAnswered, Found, Connects
  <2>17. CASE CleanUnanswered(c)
    BY <2>17 DEF CleanUnanswered, Found, Finish, Leave
  <2>18. CASE CleanPid(c)
    BY <2>18 DEF CleanPid, Goto, Finish, Leave
  <2> QED
    BY <1>3, <2>1, <2>2, <2>3, <2>4, <2>5, <2>6, <2>7, <2>8, <2>9, <2>10, <2>11, <2>12, <2>13, <2>14, <2>15, <2>16, <2>17, <2>18
       DEF CommandStep
<1>4. ASSUME NEW d \in Daemons, DaemonStep(d) PROVE OrderlyParts'
  <2>1. CASE RemoveOld(d)
    BY <2>1 DEF RemoveOld, Unlink, SetPhase
  <2>2. CASE Bind(d)
    <3>1. \A c \in Commands :
            path[d] \in InUse(c) => at[c] = "ready" /\ pid[c] = d
      BY <2>2, StarterHoldsName DEF Bind
    <3>2. LinkedAfterBind' /\ LinkedAtPath' /\ Anchored' /\ CleanupPath' /\ StarterWaits'
      BY <2>2 DEF Bind, SetPhase
    <3>3. RemovesVacant' /\ KeepsTarget' /\ RenamesByPath'
      BY <2>2, <3>1 DEF Bind, SetPhase
    <3> QED
      BY <3>2, <3>3
  <2>3. CASE Listen(d)
    BY <2>3 DEF Listen, SetPhase
  <2>4. CASE EnterEventLoop(d)
    BY <2>4 DEF EnterEventLoop, SetPhase
  <2>5. CASE LeaveEventLoop(d)
    BY <2>5 DEF LeaveEventLoop, SetPhase, Locked
  <2>6. CASE RemoveSocket(d)
    BY <2>6 DEF RemoveSocket, Unlink, SetPhase
  <2>7. CASE Exit(d)
    BY <2>7 DEF Exit, SetPhase
  <2>8. CASE Reap(d)
    BY <2>8 DEF Reap, SetPhase
  <2>9. CASE Crash(d)
    BY <2>9 DEF Crash, SetPhase
  <2>10. CASE AcceptError(d)
    BY <2>10 DEF AcceptError, Listening
  <2> QED
    BY <1>4, <2>1, <2>2, <2>3, <2>4, <2>5, <2>6, <2>7, <2>8, <2>9, <2>10
       DEF DaemonStep, BootStep, ExitStep
<1> QED
  BY <1>1, <1>2, <1>3, <1>4 DEF Next

\* The strengthened invariant holds before anything is started.
LEMMA OrderlyInit == Init => OrderlyInv
  BY RegistryAssumption
     DEF Init, OrderlyInv, TypeOK, HasArguments, HasPath, Phases, Ops, Points, Orderly,
         NoOverlap, NumeralsReserved, NoRenameAtExit, Accepting, InUse, Vacant, Alive,
         Booting, Running, Exists, LinkedAfterBind, LinkedAtPath, Anchored, CleanupPath,
         StarterWaits, RemovesVacant, KeepsTarget, RenamesByPath

\* The strengthened invariant holds in every orderly behaviour.
LEMMA OrderlyInvariance == OrderlySpec => []OrderlyInv
<1>1. OrderlyInv /\ [Next /\ Orderly']_vars => OrderlyInv'
  <2> SUFFICES ASSUME OrderlyInv, [Next /\ Orderly']_vars PROVE OrderlyInv'
    OBVIOUS
  <2>1. Orderly'
    BY DEF OrderlyInv, vars, daemonVars, args, Orderly, NoOverlap, NumeralsReserved,
           NoRenameAtExit, Accepting, InUse, Alive
  <2>2. [Next]_vars
    OBVIOUS
  <2>3. TypeInv'
    BY <2>2, TypeStep DEF TypeInv, OrderlyInv
  <2> QED
    BY <2>1, <2>2, <2>3, OrderlyStep
<1> QED
  BY <1>1, OrderlyInit, PTL DEF OrderlySpec

\* In orderly use every running session is linked at the path it believes in,
\* for any number of names, daemons and commands, with crashes at any step.
THEOREM OrderlyReachable == OrderlySpec => []Reachable
<1>1. OrderlyInv => Reachable
  BY DEF OrderlyInv, Anchored, Reachable
<1> QED
  BY <1>1, OrderlyInvariance, PTL

\* The file that a daemon removes when it leaves is the one it is linked at, and
\* once it is linked nowhere nobody links it again.
LEMMA LeaveStep ==
  ASSUME OrderlyInv, LeavesNoFile, [Next]_vars
  PROVE  LeavesNoFile'
<1> SUFFICES ASSUME NEW d \in Daemons, phase'[d] = "left", NEW n \in Names, dir'[n] = d
             PROVE  FALSE
  BY DEF LeavesNoFile
<1>1. /\ dir \in [Names -> Daemons \cup {None}] /\ phase \in [Daemons -> Phases]
      /\ d # None /\ (phase[d] = "left" => \A m \in Names : dir[m] # d)
  BY RegistryAssumption DEF OrderlyInv, TypeOK, LeavesNoFile
<1>3. ASSUME NEW e \in Daemons, RemoveSocket(e) PROVE FALSE
  <2>1. dir' = [dir EXCEPT ![doomed[e]] = None] /\ phase' = [phase EXCEPT ![e] = "left"]
    BY <1>3 DEF RemoveSocket, Unlink, SetPhase
  <2>2. dir[n] = d
    BY <1>1, <2>1
  <2>3. e = d /\ phase[d] = "leaving"
    BY <1>1, <1>3, <2>1, <2>2 DEF RemoveSocket
  <2>4. path[d] = n /\ doomed[d] = path[d]
    BY <1>1, <2>2, <2>3 DEF OrderlyInv, LinkedAtPath, CleanupPath, Exists, Alive, Running
  <2> QED
    BY <1>1, <2>1, <2>3, <2>4
<1>4. ASSUME NEW e \in Daemons, DaemonStep(e), ~RemoveSocket(e) PROVE FALSE
  <2>1. phase[d] = "left"
    BY <1>1, <1>4 DEF DaemonStep, BootStep, ExitStep, RemoveOld, Bind, Listen, EnterEventLoop,
                      LeaveEventLoop, Exit, Reap, Crash, AcceptError, SetPhase
  <2>2. CASE Bind(e)
    <3>1. phase[e] = "cleared" /\ (dir' = dir \/ dir' = [dir EXCEPT ![path[e]] = e])
      BY <2>2 DEF Bind
    <3> QED
      BY <1>1, <2>1, <3>1
  <2>3. CASE ~Bind(e)
    <3>1. dir' = dir \/ dir' = [dir EXCEPT ![path[e]] = None]
      BY <1>4, <2>3 DEF DaemonStep, BootStep, ExitStep, RemoveOld, Listen, EnterEventLoop,
                        LeaveEventLoop, Exit, Reap, Crash, AcceptError, Unlink
    <3> QED
      BY <1>1, <2>1, <3>1
  <2> QED
    BY <2>2, <2>3
<1>5. ASSUME NEW c \in Commands, BeginCommand(c) \/ CommandStep(c) PROVE FALSE
  <2>1. phase[d] = "left"
    BY <1>1, <1>5 DEF BeginCommand, BeginAnonymous, BeginStart, BeginKill, BeginClean,
         BeginRename, Begin, CommandStep, Probe, Connect, RemoveStale, Spawn, SpawnFails,
         ReadReady, KillQuery, KillTerm, KillLook, KillProbe, KillForce, RemoveFile,
         RenameRequest, RenameCheck,
         RenameClear, RenameMove, RenameAborted, CleanAnswered, CleanUnanswered, CleanPid,
         SetPhase, daemonVars
  <2>2. CASE RenameMove(c)
    <3>1. \/ dir' = dir
          \/ /\ Exists(path[pid[c]])
             /\ dir' = [dir EXCEPT ![path[pid[c]]] = None, ![newName[c]] = dir[path[pid[c]]]]
      BY <2>2 DEF RenameMove
    <3>2. path[pid[c]] \in Names
      BY <2>2 DEF RenameMove, OrderlyInv, HasPath, HasArguments, TypeOK, Alive, Booting, Running
    <3> QED
      BY <1>1, <2>1, <3>1, <3>2
  <2>3. CASE ~RenameMove(c)
    <3>1. dir' = dir \/ Unlink(name[c]) \/ Unlink(newName[c])
      BY <1>5, <2>3 DEF BeginCommand, BeginAnonymous, BeginStart, BeginKill, BeginClean,
           BeginRename, Begin, CommandStep, Probe, Connect, RemoveStale, Spawn, SpawnFails,
           ReadReady, KillQuery, KillTerm, KillLook, KillProbe, KillForce, RemoveFile,
           RenameRequest, RenameCheck,
           RenameClear, RenameAborted, CleanAnswered, CleanUnanswered, CleanPid
    <3> QED
      BY <1>1, <2>1, <3>1 DEF Unlink
  <2> QED
    BY <2>2, <2>3
<1>6. CASE UNCHANGED vars
  BY <1>1, <1>6 DEF vars, daemonVars
<1> QED
  BY <1>3, <1>4, <1>5, <1>6 DEF Next

\* server.rs:682-685: in orderly use, with any renames before, a daemon that has left
\* its event loop and removed its socket is linked nowhere.
THEOREM ExitLeavesNoFile == OrderlySpec => []LeavesNoFile
<1>1. Init => LeavesNoFile
  BY DEF Init, LeavesNoFile
<1>2. OrderlyInv /\ LeavesNoFile /\ [Next /\ Orderly']_vars => LeavesNoFile'
  <2> SUFFICES ASSUME OrderlyInv, LeavesNoFile, [Next /\ Orderly']_vars PROVE LeavesNoFile'
    OBVIOUS
  <2> QED
    BY LeaveStep
<1> QED
  BY <1>1, <1>2, OrderlyInvariance, PTL DEF OrderlySpec

\* What a step removes or replaces has no live process, but for the file of the
\* daemon that leaves and the file that rename moves.
LEMMA StayStep ==
  ASSUME OrderlyInv, TypeOK', [Next]_vars, NEW n \in Names,
         Exists(n), Alive(dir[n]), dir'[n] # dir[n], phase'[dir[n]] = phase[dir[n]]
  PROVE  \E m \in Names : dir'[m] = dir[n]
<1>1. ~Vacant(n)
  BY DEF Vacant, Exists
<1>2. CASE dir' = dir
  BY <1>2
<1>3. ASSUME NEW m, m \in Names => Vacant(m), Unlink(m) PROVE FALSE
  BY <1>1, <1>3 DEF Unlink, OrderlyInv, TypeOK
<1>4. ASSUME NEW c \in Commands, CommandStep(c) PROVE \E m \in Names : dir'[m] = dir[n]
  <2>1. CASE RemoveStale(c) \/ RemoveFile(c)
    BY <1>3, <2>1 DEF RemoveStale, RemoveFile, OrderlyInv, RemovesVacant
  <2>2. CASE RenameClear(c)
    BY <1>3, <2>2 DEF RenameClear, OrderlyInv, RemovesVacant
  <2>3. CASE RenameMove(c)
    <3>1. newName[c] \in Names /\ path[pid[c]] \in Names /\ dir[newName[c]] = None
      BY <2>3, RenamerHoldsPath
         DEF RenameMove, OrderlyInv, HasArguments, HasPath, RemovesVacant
    <3>2. n = path[pid[c]] /\ dir'[newName[c]] = dir[n]
      BY <2>3, <3>1, RegistryAssumption DEF RenameMove, Exists, OrderlyInv, TypeOK
    <3> QED
      BY <3>1, <3>2
  <2>4. CASE \/ Probe(c) \/ Connect(c) \/ Spawn(c) \/ SpawnFails(c) \/ ReadReady(c)
             \/ KillQuery(c) \/ KillTerm(c) \/ KillLook(c) \/ KillProbe(c) \/ KillForce(c)
             \/ RenameRequest(c) \/ RenameCheck(c) \/ RenameAborted(c)
             \/ CleanAnswered(c) \/ CleanUnanswered(c) \/ CleanPid(c)
    BY <1>2, <2>4 DEF Probe, Connect, Spawn, SpawnFails, ReadReady, KillQuery, KillTerm,
                      KillLook, KillProbe, KillForce, RenameRequest, RenameCheck,
                      RenameAborted, CleanAnswered,
                      CleanUnanswered, CleanPid
  <2> QED
    BY <1>4, <2>1, <2>2, <2>3, <2>4 DEF CommandStep
<1>5. ASSUME NEW d \in Daemons, DaemonStep(d) PROVE \E m \in Names : dir'[m] = dir[n]
  <2>1. CASE RemoveOld(d)
    <3>1. Vacant(path[d])
      BY <2>1 DEF RemoveOld, Booting, OrderlyInv, StarterWaits, RemovesVacant
    <3> QED
      BY <1>3, <2>1, <3>1 DEF RemoveOld
  <2>2. CASE Bind(d)
    <3>1. ~Exists(n)
      BY <1>2, <2>2 DEF Bind, Exists, OrderlyInv, TypeOK
    <3> QED
      BY <3>1
  <2>3. CASE RemoveSocket(d)
    <3>1. doomed[d] \in Names /\ dir[doomed[d]] = d /\ phase[d] = "leaving"
      BY <2>3 DEF RemoveSocket, OrderlyInv, CleanupPath, HasPath, Anchored
    <3>2. n = doomed[d]
      BY <2>3, <3>1 DEF RemoveSocket, Unlink, OrderlyInv, TypeOK
    <3>3. phase'[d] = "left"
      BY <2>3 DEF RemoveSocket, SetPhase, OrderlyInv, TypeOK
    <3> QED
      BY <3>1, <3>2, <3>3
  <2>4. CASE \/ Listen(d) \/ EnterEventLoop(d) \/ LeaveEventLoop(d)
             \/ Exit(d) \/ Reap(d) \/ Crash(d) \/ AcceptError(d)
    BY <1>2, <2>4 DEF Listen, EnterEventLoop, LeaveEventLoop, Exit, Reap, Crash,
                      AcceptError
  <2> QED
    BY <1>5, <2>1, <2>2, <2>3, <2>4 DEF DaemonStep, BootStep, ExitStep
<1>6. ASSUME NEW c \in Commands, BeginCommand(c) PROVE dir' = dir
  BY <1>6 DEF BeginCommand, BeginAnonymous, BeginStart, BeginKill, BeginClean,
              BeginRename, Begin
<1>7. CASE UNCHANGED vars
  BY <1>2, <1>7 DEF vars
<1> QED
  BY <1>2, <1>4, <1>5, <1>6, <1>7 DEF Next

\* In orderly use nobody takes the socket of a live process away from it: not a
\* probe, not kill or list --clean, not a rename, not another daemon's bind.
THEOREM SocketsStay == OrderlySpec => LiveSocketStays
<1>1. OrderlyInv /\ OrderlyInv' /\ [Next /\ Orderly']_vars =>
        [\A n \in Names :
           Exists(n) /\ Alive(dir[n]) /\ dir'[n] # dir[n] /\ phase'[dir[n]] = phase[dir[n]]
             => \E m \in Names : dir'[m] = dir[n]]_vars
  BY StayStep DEF OrderlyInv
<1> QED
  BY <1>1, OrderlyInvariance, PTL DEF OrderlySpec, LiveSocketStays
-----------------------------------------------------------------------------
(* The finality of kill                                                    *)

\* Only list --clean goes to "pid" and only rename to the steps of the handler; only
\* a command that looked a process up has one.  The process that a kill found has
\* bound its socket, so only a rename links it again; and a kill that goes on to
\* remove the file has seen to it that the process is dead.
KillInv ==
  \A c \in Commands :
    /\ at[c] = "pid" => op[c] = "clean"
    /\ at[c] \in {"request", "check", "clear", "move"} => op[c] = "rename"
    /\ at[c] \in {"idle", "probe", "connect", "unlink", "spawn", "query", "request"}
         => pid[c] = None
    /\ at[c] \in {"term", "await", "linger", "force"}
         => phase[pid[c]] \notin {"unborn", "booting", "cleared"}
    /\ at[c] = "linger" /\ dir[name[c]] = pid[c] => c \in returned
    /\ op[c] = "kill" /\ at[c] = "remove" /\ pid[c] # None
         => phase[pid[c]] \in {"zombie", "gone"}

\* Every step keeps what is known of a kill command past its SIGTERM.
LEMMA KillStep == TypeInv /\ KillInv /\ [Next]_vars => KillInv'
<1> SUFFICES ASSUME TypeInv, KillInv, [Next]_vars PROVE KillInv'
  OBVIOUS
<1> USE RegistryAssumption
    DEF TypeInv, TypeOK, HasArguments, HasPath, KillInv, Phases, Ops, Points, daemonVars,
        args
<1>1. CASE UNCHANGED vars
  BY <1>1 DEF vars
<1>2. ASSUME NEW c \in Commands, BeginCommand(c) PROVE KillInv'
  BY <1>2 DEF BeginCommand, BeginAnonymous, BeginStart, BeginKill, BeginClean,
              BeginRename, Begin
<1>3. ASSUME NEW c \in Commands, CommandStep(c) PROVE KillInv'
  <2>1. CASE Probe(c)
    BY <2>1 DEF Probe, Goto, NotAlive
  <2>2. CASE Connect(c)
    BY <2>2 DEF Connect, Goto, Finish, Leave
  <2>3. CASE RemoveStale(c)
    BY <2>3 DEF RemoveStale, Unlink, Goto, NotAlive
  <2>4. CASE Spawn(c)
    BY <2>4 DEF Spawn, SetPhase
  <2>5. CASE SpawnFails(c)
    BY <2>5 DEF SpawnFails, Finish, Leave
  <2>6. CASE ReadReady(c)
    BY <2>6 DEF ReadReady, Finish, Leave
  <2>7. CASE KillQuery(c)
    BY <2>7 DEF KillQuery, Found, Goto, Connects, Exists, Listening, Running
  <2>8. CASE KillTerm(c)
    BY <2>8 DEF KillTerm, Goto
  <2>9. CASE KillLook(c) \/ KillProbe(c) \/ KillForce(c)
    BY <2>9 DEF KillLook, KillProbe, KillForce, Exists, Goto, Finish, Leave
  <2>10. CASE RemoveFile(c)
    BY <2>10 DEF RemoveFile, Unlink, Finish, Leave
  <2>11. CASE RenameRequest(c)
    BY <2>11 DEF RenameRequest, Found, Finish, Leave, Connects
  <2>12. CASE RenameCheck(c)
    BY <2>12 DEF RenameCheck, Goto, Finish, Leave, Connects, Locked
  <2>13. CASE RenameClear(c)
    BY <2>13 DEF RenameClear, Unlink, Goto
  <2>14. CASE RenameMove(c)
    BY <2>14 DEF RenameMove, Lingering, Leave
  <2>15. CASE RenameAborted(c)
    BY <2>15 DEF RenameAborted, Finish, Leave
  <2>16. CASE CleanAnswered(c)
    BY <2>16 DEF CleanAnswered, Found, Connects
  <2>17. CASE CleanUnanswered(c)
    BY <2>17 DEF CleanUnanswered, Found, Finish, Leave
  <2>18. CASE CleanPid(c)
    BY <2>18 DEF CleanPid, Goto, Finish, Leave
  <2> QED
    BY <1>3, <2>1, <2>2, <2>3, <2>4, <2>5, <2>6, <2>7, <2>8, <2>9, <2>10, <2>11, <2>12, <2>13, <2>14, <2>15, <2>16, <2>17, <2>18
       DEF CommandStep
<1>4. ASSUME NEW d \in Daemons, DaemonStep(d) PROVE KillInv'
  <2>1. CASE RemoveOld(d)
    BY <2>1 DEF RemoveOld, Unlink, SetPhase
  <2>2. CASE Bind(d)
    BY <2>2 DEF Bind, SetPhase
  <2>3. CASE Listen(d)
    BY <2>3 DEF Listen, SetPhase
  <2>4. CASE EnterEventLoop(d)
    BY <2>4 DEF EnterEventLoop, SetPhase
  <2>5. CASE LeaveEventLoop(d)
    BY <2>5 DEF LeaveEventLoop, SetPhase, Locked
  <2>6. CASE RemoveSocket(d)
    BY <2>6 DEF RemoveSocket, Unlink, SetPhase
  <2>7. CASE Exit(d)
    BY <2>7 DEF Exit, SetPhase
  <2>8. CASE Reap(d)
    BY <2>8 DEF Reap, SetPhase
  <2>9. CASE Crash(d)
    BY <2>9 DEF Crash, SetPhase, Alive, Booting, Running
  <2>10. CASE AcceptError(d)
    BY <2>10 DEF AcceptError, Listening
  <2> QED
    BY <1>4, <2>1, <2>2, <2>3, <2>4, <2>5, <2>6, <2>7, <2>8, <2>9, <2>10
       DEF DaemonStep, BootStep, ExitStep
<1> QED
  BY <1>1, <1>2, <1>3, <1>4 DEF Next

\* A kill command that found its process reports success in one of two ways.
LEMMA KillSucceeds ==
  ASSUME TypeInv, KillInv, [Next]_vars, NEW c \in Commands, op[c] = "kill",
         pid[c] # None, at'[c] = "idle"
  PROVE  KillProbe(c) \/ RemoveFile(c)
<1> USE DEF TypeInv, TypeOK, HasArguments, KillInv, daemonVars, args
<1>1. ~UNCHANGED vars
  BY DEF vars
<1>2. ASSUME NEW b \in Commands, BeginCommand(b) PROVE FALSE
  BY <1>2 DEF BeginCommand, BeginAnonymous, BeginStart, BeginKill, BeginClean,
              BeginRename, Begin
<1>3. ASSUME NEW b \in Commands, CommandStep(b) PROVE KillProbe(c) \/ RemoveFile(c)
  BY <1>3 DEF CommandStep, Probe, Connect, RemoveStale, Spawn, SpawnFails, ReadReady,
              KillQuery, KillTerm, KillLook, KillProbe, KillForce, RemoveFile, RenameRequest,
              RenameCheck, RenameClear, RenameMove, RenameAborted, CleanAnswered,
              CleanUnanswered, CleanPid, Goto, Finish, Leave, Found
<1>4. ASSUME NEW d \in Daemons, DaemonStep(d) PROVE FALSE
  BY <1>4 DEF DaemonStep, BootStep, ExitStep, RemoveOld, Bind, Listen, EnterEventLoop, LeaveEventLoop, RemoveSocket, Exit, Reap, Crash, AcceptError
<1> QED
  BY <1>1, <1>2, <1>3, <1>4 DEF Next

\* kill.rs:52-57: kill reports success only of a dead process, and the name does not
\* lead to it unless a rename brought it back between the two tests.
THEOREM KillFinality == Spec => KillIsFinal
<1> DEFINE Final(c) == /\ phase'[pid[c]] \in {"zombie", "gone"}
                       /\ dir'[name[c]] = pid[c] => c \in returned
<1>1. ASSUME TypeInv, KillInv, [Next]_vars, NEW c \in Commands, op[c] = "kill",
             pid[c] # None, at'[c] = "idle"
      PROVE  Final(c)
  <2> USE RegistryAssumption, <1>1
      DEF TypeInv, TypeOK, HasArguments, Phases, Ops, Points, daemonVars, args
  <2>1. CASE KillProbe(c)
    BY <2>1 DEF KillProbe, Goto, Finish, Leave, KillInv
  <2>2. CASE RemoveFile(c)
    BY <2>2 DEF RemoveFile, Unlink, Finish, Leave, KillInv
  <2> QED
    BY <2>1, <2>2, KillSucceeds
<1>2. Init => TypeInv /\ KillInv
  BY DEF Init, TypeInv, TypeOK, HasArguments, HasPath, KillInv, Phases, Ops, Points
<1>3. TypeInv /\ KillInv /\ [Next]_vars =>
        [\A c \in Commands :
           op[c] = "kill" /\ pid[c] # None /\ at'[c] = "idle" => Final(c)]_vars
  BY <1>1
<1> QED
  BY <1>2, <1>3, TypeStep, KillStep, PTL DEF Spec, KillIsFinal
-----------------------------------------------------------------------------
(* The directory implements SessionMap                                     *)

\* A step that changes neither what is linked to running sessions nor who has
\* ended is a stutter of the map.
LEMMA Stutter ==
  ASSUME TypeOK, TypeOK',
         \A n \in Names : dir'[n] # dir[n] =>
           /\ Exists(n) => phase[dir[n]] \notin {"up", "serving"}
           /\ Exists(n)' => phase'[dir'[n]] \notin {"up", "serving"},
         \A d \in Daemons : phase'[d] # phase[d] =>
           /\ phase[d] \in {"up", "serving"} <=> phase'[d] \in {"up", "serving"}
           /\ d \in ended <=> d \in ended'
  PROVE  live' = live /\ ended' = ended
<1>1. ASSUME NEW n \in Names PROVE live'[n] = live[n]
  BY DEF live, Exists, TypeOK
<1>2. live' = live
  BY <1>1 DEF live
<1>3. ended' = ended
  BY DEF ended, TypeOK
<1> QED
  BY <1>2, <1>3

\* A map that differs at one name.
LEMMA OneListed ==
  ASSUME NEW n \in Names, NEW v, live'[n] = v,
         \A m \in Names : m # n => live'[m] = live[m]
  PROVE  live' = [live EXCEPT ![n] = v]
  BY DEF live

\* The end of a process, at whatever phase, is a step of the map.
LEMMA Dies ==
  ASSUME OrderlyInv, TypeOK', NEW d \in Daemons, NEW p \in {"zombie", "leaving"},
         phase[d] # "unborn",
         phase' = [phase EXCEPT ![d] = p],
         p = "leaving" => phase[d] = "serving",
         dir' = dir
  PROVE  [SM!Next]_<<live, ended>>
<1> USE DEF OrderlyInv, TypeOK, Phases, Anchored, HasPath, LinkedAtPath, Exists, Alive,
            Booting, Running
<1>1. CASE phase[d] \in {"leaving", "left", "zombie", "gone"}
  <2>1. live' = live /\ ended' = ended
    BY <1>1, Stutter DEF ended
  <2> QED
    BY <2>1
<1>2. CASE phase[d] \in Booting
  <2>1. live' = live
    BY <1>2 DEF live
  <2>2. ended' = ended \cup {d}
    BY <1>2 DEF ended
  <2>3. ~SM!Listed(d)
    BY <1>2, RegistryAssumption DEF SM!Listed, live
  <2> QED
    BY <2>1, <2>2, <2>3 DEF SM!Next, SM!Abandon
<1>3. CASE phase[d] \in {"up", "serving"}
  <2>1. path[d] \in Names /\ dir[path[d]] = d /\ d # None
    BY <1>3, RegistryAssumption
  <2>2. live[path[d]] = d
    BY <1>3, <2>1 DEF live
  <2>3. live' = [live EXCEPT ![path[d]] = None]
    <3>1. ASSUME NEW n \in Names, n # path[d] PROVE live'[n] = live[n]
      BY <1>3, <3>1, <2>1 DEF live
    <3>2. live'[path[d]] = None
      BY <2>1 DEF live
    <3> QED
      BY <2>1, <3>1, <3>2, OneListed
  <2>4. ended' = ended \cup {d}
    BY <1>3 DEF ended
  <2> QED
    BY <2>1, <2>2, <2>3, <2>4 DEF SM!Next, SM!End
<1> QED
  BY <1>1, <1>2, <1>3

\* READY lists a session under a name that was free.
LEMMA Appears ==
  ASSUME OrderlyInv, TypeOK', NEW d \in Daemons, Listen(d)
  PROVE  SM!Next
<1> USE DEF OrderlyInv, TypeOK, Phases, Anchored, HasPath, LinkedAtPath, Exists, Alive,
            Booting, Running, Listen, SetPhase
<1>1. path[d] \in Names /\ dir[path[d]] = d /\ d # None
  BY RegistryAssumption
<1>2. live[path[d]] = None
  BY <1>1 DEF live
<1>3. ~SM!Listed(d) /\ d \notin ended
  BY RegistryAssumption DEF SM!Listed, live, ended
<1>4. live' = [live EXCEPT ![path[d]] = d]
  <2>1. ASSUME NEW n \in Names, n # path[d] PROVE live'[n] = live[n]
    BY <1>1, <2>1 DEF live
  <2>2. live'[path[d]] = d
    BY <1>1 DEF live
  <2> QED
    BY <1>1, <2>1, <2>2, OneListed
<1>5. ended' = ended
  BY DEF ended
<1> QED
  BY <1>1, <1>2, <1>3, <1>4, <1>5 DEF SM!Next, SM!Create

\* A rename that moves the file moves the session in the map.
LEMMA Moves ==
  ASSUME OrderlyInv, TypeOK', NEW c \in Commands, RenameMove(c)
  PROVE  [SM!Next]_<<live, ended>>
<1> DEFINE d == pid[c]
           n == name[c]
           m == newName[c]
<1>1. /\ d \in Daemons /\ n \in Names /\ m \in Names
      /\ Alive(d) /\ phase[d] \notin Booting /\ path[d] = n
  BY RenamerHoldsPath DEF RenameMove, OrderlyInv, HasArguments
<1>2. dir[m] = None /\ phase[d] # "leaving"
  BY DEF RenameMove, OrderlyInv, RemovesVacant, Orderly, NoRenameAtExit
<1>3. ended' = ended
  BY DEF RenameMove, ended
<1>4. CASE ~Exists(n)
  <2>1. live' = live
    BY <1>1, <1>4 DEF RenameMove, live, Exists
  <2> QED
    BY <1>3, <2>1
<1>5. CASE Exists(n)
  <2>1. dir' = [dir EXCEPT ![n] = None, ![m] = dir[n]] /\ phase' = phase
    BY <1>1, <1>5 DEF RenameMove
  <2>2. n # m
    BY <1>2, <1>5 DEF Exists
  <2>3. CASE phase[d] \in {"up", "serving"}
    <3>1. dir[n] = d /\ d # None
      BY <1>1, <2>3, RegistryAssumption DEF OrderlyInv, Anchored
    <3>2. live[n] = d /\ live[m] = None
      BY <1>1, <1>2, <1>5, <2>3, <3>1 DEF live, Exists
    <3>3. live' = [live EXCEPT ![n] = None, ![m] = live[n]]
      <4>1. ASSUME NEW k \in Names, k # n, k # m PROVE live'[k] = live[k]
        BY <2>1, <4>1 DEF live, Exists, OrderlyInv, TypeOK
      <4>2. live'[n] = None /\ live'[m] = d
        BY <1>1, <2>1, <2>2, <2>3, <3>1 DEF live, Exists, OrderlyInv, TypeOK
      <4> QED
        BY <1>1, <2>2, <3>2, <4>1, <4>2 DEF live
    <3> QED
      BY <1>1, <1>3, <3>1, <3>2, <3>3 DEF SM!Next, SM!Move
  <2>4. CASE phase[d] = "left"
    <3>1. phase[dir[n]] \notin {"up", "serving"}
      BY <1>1, <1>5, <2>4 DEF RenameMove, OrderlyInv, KeepsTarget, Vacant, Alive, Running,
                             Exists
    <3>2. live' = live /\ ended' = ended
      BY <1>1, <1>2, <2>1, <2>2, <3>1, Stutter DEF Exists, OrderlyInv, TypeOK
    <3> QED
      BY <3>2
  <2> QED
    BY <1>1, <1>2, <2>3, <2>4 DEF Alive, Booting, Running
<1> QED
  BY <1>4, <1>5

\* Removing a file no live process has is invisible in the map.
LEMMA Unseen ==
  ASSUME OrderlyInv, TypeOK', NEW n, n \in Names => Vacant(n), Unlink(n), phase' = phase
  PROVE  live' = live /\ ended' = ended
<1>1. \A m \in Names : dir'[m] # dir[m] =>
         /\ Exists(m) => phase[dir[m]] \notin {"up", "serving"}
         /\ Exists(m)' => phase'[dir'[m]] \notin {"up", "serving"}
  BY DEF Vacant, Unlink, Exists, Alive, Running, OrderlyInv, TypeOK
<1> QED
  BY <1>1, Stutter DEF OrderlyInv

\* Every orderly step is a step of the map or invisible in it.
LEMMA MapStep ==
  ASSUME OrderlyInv, TypeOK', [Next]_vars
  PROVE  [SM!Next]_<<live, ended>>
<1>0. CASE dir' = dir /\ phase' = phase
  BY <1>0 DEF live, ended, Exists
<1>1. ASSUME live' = live /\ ended' = ended PROVE [SM!Next]_<<live, ended>>
  BY <1>1
<1>2. TypeOK
  BY DEF OrderlyInv
<1>3. ASSUME NEW c \in Commands, CommandStep(c) PROVE [SM!Next]_<<live, ended>>
  <2>1. CASE RemoveStale(c) \/ RemoveFile(c)
    <3>1. Vacant(name[c]) /\ Unlink(name[c]) /\ phase' = phase
      BY <2>1 DEF RemoveStale, RemoveFile, daemonVars, OrderlyInv, RemovesVacant
    <3> QED
      BY <1>1, <3>1, Unseen
  <2>2. CASE RenameClear(c)
    <3>1. Vacant(newName[c]) /\ Unlink(newName[c]) /\ phase' = phase
      BY <2>2 DEF RenameClear, daemonVars, OrderlyInv, RemovesVacant
    <3> QED
      BY <1>1, <3>1, Unseen
  <2>3. CASE Spawn(c)
    <3>1. dir' = dir /\ \A d \in Daemons :
            phase'[d] # phase[d] => phase[d] = "unborn" /\ phase'[d] = "booting"
      BY <1>2, <2>3 DEF Spawn, SetPhase, TypeOK
    <3> QED
      BY <1>1, <1>2, <3>1, Stutter DEF ended
  <2>4. CASE KillTerm(c) \/ KillLook(c) \/ KillProbe(c) \/ KillForce(c)
    <3>1. pid[c] \in Daemons /\ phase[pid[c]] # "unborn" /\ dir' = dir
      BY <2>4 DEF KillTerm, KillLook, KillProbe, KillForce, OrderlyInv, HasArguments
    <3>2. phase' = phase \/ phase' = [phase EXCEPT ![pid[c]] = "zombie"]
      BY <1>2, <2>4 DEF KillTerm, KillLook, KillProbe, KillForce, TypeOK, daemonVars
    <3> QED
      BY <1>0, <3>1, <3>2, Dies
  <2>5. CASE RenameMove(c)
    BY <2>5, Moves
  <2>6. CASE \/ Probe(c) \/ Connect(c) \/ SpawnFails(c) \/ ReadReady(c)
             \/ KillQuery(c) \/ RenameRequest(c) \/ RenameCheck(c) \/ RenameAborted(c)
             \/ CleanAnswered(c) \/ CleanUnanswered(c) \/ CleanPid(c)
    BY <1>0, <2>6 DEF Probe, Connect, SpawnFails, ReadReady, KillQuery, RenameRequest,
                      RenameCheck, RenameAborted, CleanAnswered, CleanUnanswered,
                      CleanPid, daemonVars
  <2> QED
    BY <1>3, <2>1, <2>2, <2>3, <2>4, <2>5, <2>6 DEF CommandStep
<1>4. ASSUME NEW d \in Daemons, DaemonStep(d) PROVE [SM!Next]_<<live, ended>>
  <2>1. CASE RemoveOld(d)
    <3>1. Vacant(path[d])
      BY <2>1 DEF RemoveOld, Booting, OrderlyInv, StarterWaits, RemovesVacant
    <3>2. path[d] \in Names
      BY <2>1 DEF RemoveOld, OrderlyInv, HasPath
    <3>3. \A n \in Names : dir'[n] # dir[n] =>
            /\ Exists(n) => phase[dir[n]] \notin {"up", "serving"}
            /\ Exists(n)' => phase'[dir'[n]] \notin {"up", "serving"}
      BY <1>2, <2>1, <3>1, <3>2 DEF RemoveOld, Unlink, Vacant, Exists, Alive, Running, TypeOK
    <3>4. \A e \in Daemons : phase'[e] # phase[e] =>
            phase[e] = "booting" /\ phase'[e] = "cleared"
      BY <1>2, <2>1 DEF RemoveOld, SetPhase, TypeOK
    <3> QED
      BY <1>1, <1>2, <3>3, <3>4, Stutter DEF ended
  <2>2. CASE Bind(d) /\ Exists(path[d])
    <3>1. phase[d] # "unborn" /\ phase' = [phase EXCEPT ![d] = "zombie"] /\ dir' = dir
      BY <2>2 DEF Bind, SetPhase
    <3> QED
      BY <3>1, Dies
  <2>3. CASE Bind(d) /\ ~Exists(path[d])
    <3>1. \A n \in Names : dir'[n] # dir[n] => ~Exists(n) /\ dir'[n] = d
      BY <1>2, <2>3 DEF Bind, Exists, TypeOK
    <3>2. phase[d] = "cleared" /\ phase' = [phase EXCEPT ![d] = "bound"]
      BY <2>3 DEF Bind, SetPhase
    <3> QED
      BY <1>1, <1>2, <3>1, <3>2, Stutter DEF ended, TypeOK
  <2>4. CASE Listen(d)
    BY <2>4, Appears
  <2>5. CASE RemoveSocket(d)
    <3>1. doomed[d] \in Names /\ dir[doomed[d]] = d /\ phase[d] = "leaving"
      BY <2>5 DEF RemoveSocket, OrderlyInv, CleanupPath, HasPath, Anchored
    <3>2. \A n \in Names : dir'[n] # dir[n] => dir[n] = d /\ dir'[n] = None
      BY <1>2, <2>5, <3>1 DEF RemoveSocket, Unlink, TypeOK
    <3>3. phase' = [phase EXCEPT ![d] = "left"]
      BY <2>5 DEF RemoveSocket, SetPhase
    <3> QED
      BY <1>1, <1>2, <3>1, <3>2, <3>3, Stutter DEF ended, TypeOK, Exists
  <2>6. CASE EnterEventLoop(d) \/ Exit(d) \/ Reap(d)
    <3>1. dir' = dir /\ \A e \in Daemons : phase'[e] # phase[e] =>
            \/ phase[e] = "up" /\ phase'[e] = "serving"
            \/ phase[e] = "left" /\ phase'[e] = "zombie"
            \/ phase[e] = "zombie" /\ phase'[e] = "gone"
      BY <1>2, <2>6 DEF EnterEventLoop, Exit, Reap, SetPhase, TypeOK
    <3> QED
      BY <1>1, <1>2, <3>1, Stutter DEF ended
  <2>7. CASE LeaveEventLoop(d) \/ Crash(d)
    <3>1. CASE LeaveEventLoop(d)
      BY <3>1, Dies DEF LeaveEventLoop, SetPhase
    <3>2. CASE Crash(d)
      BY <3>2, Dies DEF Crash, SetPhase, Alive, Booting, Running
    <3> QED
      BY <2>7, <3>1, <3>2
  <2>8. CASE AcceptError(d)
    BY <1>0, <2>8 DEF AcceptError
  <2> QED
    BY <1>4, <2>1, <2>2, <2>3, <2>4, <2>5, <2>6, <2>7, <2>8
       DEF DaemonStep, BootStep, ExitStep
<1>5. ASSUME NEW c \in Commands, BeginCommand(c) PROVE [SM!Next]_<<live, ended>>
  BY <1>0, <1>5 DEF BeginCommand, BeginAnonymous, BeginStart, BeginKill, BeginClean,
                    BeginRename, Begin, daemonVars
<1>6. CASE UNCHANGED vars
  BY <1>0, <1>6 DEF vars, daemonVars
<1> QED
  BY <1>3, <1>4, <1>5, <1>6 DEF Next

\* In orderly use the directory is a map from names to sessions: every step of
\* a command or a daemon is one step of SessionMap or none.
THEOREM OrderlyImplements == OrderlySpec => ImplementsSessionMap
<1>1. Init => SM!Init
  BY DEF Init, SM!Init, live, ended, Exists
<1>2. OrderlyInv /\ OrderlyInv' /\ [Next /\ Orderly']_vars => [SM!Next]_<<live, ended>>
  BY MapStep DEF OrderlyInv
<1> QED
  BY <1>1, <1>2, OrderlyInvariance, PTL
     DEF OrderlySpec, ImplementsSessionMap, SM!Spec, SM!svars
=============================================================================
