# TLA+ models of ttyman

ttyman keeps shell sessions alive in background daemons. `ttyman start` forks a
daemon that owns a PTY, a virtual terminal and a Unix socket; `attach`, `watch`,
`read`, `write`, `kill`, `rename`, `list` are separate processes that find the
socket in a runtime directory and talk to the daemon over it. There is no central
server and no lock between commands.

These modules model the parts of the program in which several processes or tasks
meet: the runtime directory, the fan-out of the output to clients, the input, window size
and end of the shell, the detection and delivery of session events, and the client that
goes from session to session; and the one algorithm whose result is hard to foresee, the
text of an event. Paths below are relative to the repository; `server.rs`, `ipc.rs`, ...
are in its `src/` directory.

## Inventory

| component | state | operations | hard behaviour | what makes it correct |
|---|---|---|---|---|
| Runtime directory (`ipc.rs`, `server.rs`, `commands/{start,attach,kill,rename,list}.rs`) | the files `ttyman-<name>`, each daemon's phase and `current_sock_path` | probe, spawn, bind, listen, rename, kill, clean, cleanup at exit | any two commands interleave between two system calls; daemons crash; an accept error ends the accept loop | a running session can be found under its name; nobody removes a live session's socket; kill kills; no command hangs |
| Output fan-out (`server.rs` 76-190, 609-680) | the terminal, the broadcast channel, `clients`, one task per connection | process, send, Attach, Subscribe, forward | slow clients, lag, the gap between snapshot and subscription, several ways out of a handler | the stream of a client has no hole and fits its snapshot; the count of clients is exact; a client cannot stall the shell |
| Session events (`events.rs`, `server.rs` 129-143, 585-607) | `new_text`, `new_line_at`, `last_output`, the events channel | push, miss, tick, shutdown; subscribe, receive, skip | lag, ticks against output, the shutdown against waiting output, the grace period | texts join; a line is told in time; events are ordered; the exit event arrives |
| Virtual terminal, NewText (`terminal.rs`) | screen, scrollback, starting point of the next event | process, redraw, read, push, mark_truncated, take | scrollback at its limit, clears, wrapped lines | the text rendered is the text since the last event |
| End of a session (`server.rs` 621-724) | child, deadline | signal the child and its group, drain, reap | a deadline against the child's end | the child is gone and waited for; what is passed on to it reaches it; the session ends |
| Input (`server.rs` 175-224, 657-672; `commands/write.rs`) | the inject queue, the PTY's input buffer | write, attach input, inject | a non-blocking PTY that takes a part of a write | input arrives in order, and whole while there is room; the loop never waits for the shell |
| Attached client (`commands/attach.rs`) | the history of sessions, the current path, raw mode | menu, switch, detach, fall back when the session ends, resize | sessions that end, are renamed or are replaced while the menu runs | the client is attached, has switched, or has ended with the terminal restored |
| Window size (`server.rs` 48-74, `pty.rs`) | the PTY's size and the terminal's | resize | two clients resize at once | both sizes agree |
| Read, redraw, info, list output | none of their own | one locked read each | - | - |
| Names (`ipc.rs` 278-344, 391 ff.) | none | validate, resolve, find | `$TTYMAN_PID`, two directories | - |
| PTY and raw mode, configuration, command line, completion | none | wrappers and parsing | - | - |

They interact as follows. The commands and the daemons share the directory. Inside a
daemon the PTY event loop writes the terminal (under its lock) and then sends to the
broadcast channel; the tasks of `Attach` and `Subscribe` and the event detector receive
from it; the detector sends to the events channel, from which the tasks of
`SubscribeEvents` receive. When the event loop ends it removes the socket and fires
`shutdown`; the detector sends the exit event and returns; the daemon waits at most
500 ms for the events' receivers, and exits. An attached client sees the end of its
stream, and looks for another session in its history and in the directory.

## Modules

| module | what it is |
|---|---|
| `Registry` | the runtime directory, the daemons' life and the commands, one system call a step |
| `SessionMap` | the abstract specification: a one-to-one map from names to sessions |
| `Fanout` | PTY event loop, broadcast channel, tasks of attach and watch, their clients |
| `OutputStream` | the abstract specification: what a client is shown and sent of the output |
| `Events` | event detector with its clock, events channel, watchers, end of the process |
| `EventLog` | the abstract specification: a log that ends with the exit, and those who follow it |
| `PtyLoop` | the daemon's side of the PTY: input, window size, the shell and its end |
| `NewText` | the text of an event: an emulator, its scrollback and where the text starts |
| `AttachClient` | an attached client: its streams, menu, history and fallback, amid sessions that come and go |
| `RegistryProofs`, `FanoutProofs`, `EventsProofs`, `PtyLoopProofs`, `NewTextProofs`, `AttachClientProofs` | the theorems of each |
| `ExactTextProofs` | the theorems about the text of NewText, with an induction of its own |
| `MCRegistry`, `MCFanout`, `MCEvents`, `MCPtyLoop`, `MCNewText`, `MCAttachClient` | instances for TLC |

### Registry

`dir[n]` is the daemon whose socket is linked as `ttyman-<n>`. `phase[d]` is how far the
process `d` has come; the phases end where another process can see a difference:

| phase | code |
|---|---|
| `booting`, `cleared`, `bound` | `run_daemon_server` up to `bind_unix_listener`: before `remove_file`, before `bind(2)`, before `listen(2)` |
| `up` | listening and READY sent; the signal handlers are not installed yet |
| `serving` | the PTY event loop runs |
| `leaving`, `left` | the path is cloned for the cleanup; the file has been removed |
| `zombie`, `gone` | exited; reaped, so that `kill(pid, 0)` fails |

`path[d]` is `current_sock_path`. A command occupies a slot `c`; `at[c]` is the system
call it is about to make and `op[c]` what it runs. `start` and `attach` go through
`probe`, `connect`, `unlink` (`is_socket_alive`), `spawn` and `ready`; `kill` through
`query`, `term`, `await` (`exists()`), `linger` (`kill(pid, 0)`), `force` (SIGKILL), `remove`;
`rename` through `request` and the three steps of the
handler in the daemon, `check`, `clear` and `move`, under the write lock (`Locked`);
`list --clean` through `query`, `pid`, `remove`, for one file (for each file it does the
same). Bind removes whatever file there is, as `bind_unix_listener` does, and fails when
another daemon binds in between. `returned` is a history variable: the kills to whose name a
rename brought the process back while they were at `linger`. `NumeralOf[n]` is the process whose pid a name spells:
anonymous sessions are named by their pid, and `list --clean` takes a numeral for one.

### Fanout

Chunks and messages are numbered, so a snapshot is the number of chunks the terminal had
processed and a client's stream is a sequence of numbers. `Process` and `Send` are two
steps because a task can take its snapshot between them; this is how an attach may be
sent a chunk twice, and why at most one. `Subscribe` is before the snapshot in a watch
and after it has been written in an attach. `Lagged` is `RecvError::Lagged`:
`while let Ok` ends the stream. `Write` succeeds only as long as the client's socket has
room (`SockBuf` writes), so a client that does not read stalls its own task.

`OutputStream` is what the clients see of this: a screen that is up to date when it is shown
(it may show one chunk that is about to be sent, and not the notice of a signal), then
messages that were sent, each after the one before it, until the stream ends for good. Of a
watch nothing is lost between screen and stream, to an attach at most one chunk is repeated.
The channel, its capacity, the sockets, the steps of the tasks and the client count are hidden;
`stages` says what a client sees of its task, `TakeSnapshot` is `Show`, `Forward` is `Deliver`,
`Send` (and `EndLoop` with a notice) is `Make`, and every way out of a task is `End`.

### Events

A text is the sequence of the numbers of the chunks it shows. The detector's branches of
`select!` are actions, in any order when several are ready. `Elapse` is one unit of time;
it cannot pass a tick that is due (the runtime handles ticks in time), but output, lag
and the shutdown may come at any time. A watcher that is overtaken continues with the
oldest event that is left.

`EventLog` is what watchers see of this: a log to which `Tell` adds an event with output that
was not told before, none after the exit, and followers who get what is added after they came,
in order, unless it is not kept any more. Time, the text under way, the lag of the detector and
the steps of a watcher's task are hidden; `due` is the event that a watcher is to be written
next, whether its task has received it or not.

### PtyLoop

`loop` is where the daemon's main task is:

| stage | code |
|---|---|
| `forked` | the shell was forked, the signal handlers are not installed (`server.rs` 561-633) |
| `select` | the loop of `run_pty_event_loop` |
| `notice` | the sleep of `forward_signal_and_notify` |
| `hangup` | after the loop: the socket's removal, SIGHUP and SIGTERM to the shell, the master closed |
| `reap`, `probe`, `wait` | `waitpid` until 200 ms have passed, `kill(pid, 0)`, SIGKILL and the blocking `waitpid` |
| `done`, `dead` | it has returned; a signal without a handler, or an error of `AsyncFd::new` or `signal()` (`LoopFails`), has ended the daemon without it |

The shell may exit, stop, read its input or not, and ignore every signal but SIGKILL. It
may leave a job behind that keeps the terminal open (`holders`), so that the loop sees no end
of the PTY; or close the terminal and go on. A pid that was waited for may become another
process's. `chld` and `asked` are what the signal streams of tokio still hold.

Handlers of connections run on other threads. A `write` queues one message of one to four
pieces (its text, the two ends of a bracketed paste, the newline of Enter), an attached
client's keystrokes are messages of one piece. `Inject` is `inject_rx.recv()` with the one
`write(2)` after it, which takes what the PTY has room for; its result is ignored.
`resize_pty` is the two steps `ResizePty` and `ResizeTerminal`. It uses the raw descriptor,
on which nothing happens once the master is closed.

History variables: `typed` (all the PTY has taken), `sent`, `overrun` (it has refused
something), `overlap` (two resizes were under way at once) and `stray` (signals to end it
sent to the pid of a shell that had been waited for: all that the code sends, through
`SendsToShell`, from `forward_signal_and_notify` to SIGKILL; SIGWINCH, which does no harm, is
not counted). When the loop has seen its shell exit, the SIGHUP and SIGTERM of `HangUp` do go
astray, and may hit a process that got the pid. `StraySignals` says which signals never do:
those that the loop passes on, and all that were sent to a shell that is killed in the end.

`InputInOrder` is what can be had: `write.rs` 10 says that `--enter` "submits command
atomically", and the message is indeed never torn apart by another client's input, but when
the shell does not read, its end is dropped, the newline first, and the next message is
typed after what was taken.

### NewText

`back` and `screen` are the rows of NewText's own emulator, each with a flag that says that
its line goes on in the next row. Characters are numbered as they are printed; the cursor's
column is the end of its row. `startRow` and `startCol` are the starting point, `earlier`
and `truncated` the fields of those names. `Put`, `NewLine`, `StepBelow` and `Erased` are the
emulator (the `vt100` library); `StepBelow` is what zsh does to clear below an
autosuggestion, which scrolls on the last row. `Clear` is the part of `push` that finds a
clear; `LinesOf` is `lines` (`Shown` its rows after the starting point, `WithText` those of
them that it does not leave out), `HasNewLine` is `has_new_line`, and `Text` is what `take` would
return now. `due` is the reference: the lines printed since the last text, told from each
other by what ended them and not by where they are on the screen.

The starting point is counted from the oldest row of the scrollback. `scrollback_full`
sees to it that a number that is off is not used: the text is then all there is, and is
marked. What the properties leave open shows the limits of this:

- `scrollback_full` holds as soon as the scrollback is as long as it can be, one row before
  the first is dropped. The text is then marked though nothing is missing, and begins with
  rows that were on the screen, and told, before.
- After a clear with a full scrollback, the lines taken out at the clear are told again by
  `take`, and again for each further clear.
- `push` finds the last clear of a chunk, and only in that spelling (`ClearUnseen`): lines
  that another clear erased are lost without a mark, and as the starting point stays where it
  was, so is what is printed above it. All properties exclude this by `unseen`.
- An empty line right after the starting point is left out with its newline: Enter on an
  empty prompt `% ` gives the text `% `, which joins to `% % `.
- A command line that wraps counts as a new line once its first rows have left the screen.

### AttachClient

`step` is where the client is in the two nested loops of `attach.rs`: `connect`,
`request` and `streaming` in `attach_single_session`, `menu` and `redraw` while and after
the menu command runs, `switch` and `spawn` for `SwitchTo`, `fallback` and `scan` for
`Terminated`, `left` and `failed` at the end. `current`, `stdin` and `history` are
`current_sock_path`, `stdin_open` and `history_stack`; `todo` and `found` are the files the
filter of the fallback has still to try and those it kept. A name stands for the path of
a socket: `dir` and `alive` say which session, if any, answers there. Other users start,
end and rename sessions and daemons crash between any two of the client's connections.
`CutStream` is the daemon's end of the stream of a client that lags (`Lagged` in `Fanout`).

Four history variables serve the properties and guide no step of the client: `visits`
and `lastVisit` count and date the client's visits (`visits` also bounds the runs);
`recent` is the history when the stream ended and `steady` the names that have been
connectable ever since, which is what a fallback can be held to, as it looks at one name
after the other. When the client has ended the sessions are not followed any more.

## Runs

| run | instance | states | what it shows |
|---|---|---|---|
| `RegistryOrderly` | 3 daemons, 2 commands, names `a` and the pid of `d1`, crashes | 0.2 M with symmetry | `Reachable`, `LeavesNoFile`, `LiveSocketStays`, `ImplementsSessionMap` in orderly use |
| `RegistryFree` | 1 daemon, 2 commands, 2 names, crashes and accept errors | 0.1 M | `TypeOK`, `LinkedOnce`, `KillIsFinal`, `CommandsFinish` |
| `FanoutLoop` | an attach, a watch, capacity 1, 2 chunks and the notice | 0.2 M | `TypeOK`, `NoHole`, `WatchSeamless`, `AttachRepeatsAtMostOne`, `ClientsExact`, `SlowClientsDontStall`, `DeliveredOrClosed`, `ImplementsOutputStream` |
| `EventsLoop` | one watcher, capacities 1, `Tick` 1, `Settle` 2, `MaxWait` 3, 3 chunks | 3.5 M | `TypeOK`, `TextsJoin`, `NothingOverdue`, `LosesOnlyOldEvents`, `ExitReachesWatchers`, `ImplementsEventLog` |
| `PtyLoopSession` | 2 clients, 2 sizes, pastes of 3 pieces and keystrokes, room for 2 pieces, 2 messages | 1.0 M | `TypeOK`, `InputInOrder`, `InputComplete`, `InputIsTaken`, `SizesAgree`, `LeavesNoShell`, `StraySignals`, `SessionEnds` |
| `NewTextScreen` | 3 rows of 2 columns, scrollback 4, 6 characters | 3.5 M | `TypeOK`, `TextIsExact`, `NewestIsTold`, `NewLineCounts` |
| `AttachFallback` | 3 names, 3 sessions, 3 visits before the last menu or cut | 1.3 M | `TypeOK`, `MostRecentLast`, `BackToMostRecent`, `GivesUpAlone`, `Arrives` |

### Orderly use

`Reachable`, `LeavesNoFile`, `LiveSocketStays` and the refinement of `SessionMap` do not hold in
every behaviour: without a lock two commands can always get in each other's way. They hold
under the conditions of `Orderly`, which say how users and daemon have to behave, and
each of which is needed:

- `NoOverlap`: commands that run at the same time use different names. Otherwise two
  starts of one name make the second daemon remove the first one's socket
  (`BadOwnSocket`); a probe takes a daemon between `bind` and `listen` for stale; `kill`
  may, after its deadline, remove the file of a session that was just started under the
  name; and a rename may replace the socket of a session that starts between its
  question and its move.
- `NumeralsReserved`: nobody gives a session another session's pid as its name.
  Otherwise `list --clean`, which takes the name of a session that does not answer within
  150 ms for its pid, removes the socket of a live session; and an anonymous session
  takes the file from a session that is named by its pid.
- `NoRenameAtExit`: no rename handler runs while the daemon removes its socket.
  Otherwise the handler moves the file after the path was cloned, and a file stays (or a
  file of someone else goes).
- `Accepting`: `accept(2)` does not fail. After its first error the daemon refuses all
  connections for good, and the next `start` removes its socket.

Crashes are part of orderly use. `KillIsFinal`, `LinkedOnce` and `CommandsFinish` need
none of these conditions. What they exclude is not shown to be harmless: the races above
happen in the code and in the model.

`KillIsFinal` has one exception, which the code has too. `kill` asks for the file and then for
the process (`kill.rs` 52). A session that has been renamed away may come back between the two,
by a rename that was under way, and then crash and be reaped: there was no file, there is no
process, and "Killed" is printed while the file leads to the dead session. The kills to which
this happens are in `returned`; without them the property fails in `RegistryFree`.

### Where the code and its texts differ

Five runs show a behaviour of the code that a text of the repository excludes.

| run | text | behaviour |
|---|---|---|
| `BadOwnSocket` | README.md:17, every session runs with its own socket | two concurrent starts of a name leave two running daemons with one path |
| `BadCleanRemovesStale` | list.rs:14, `--clean` removes dead sockets | the file of a dead session with an ordinary name is never removed |
| `BadAttachSeamless` | README.md:15, the bytes of the PTY are passed on | chunks sent between the snapshot and the subscription of an attach are lost |
| `BadEofMeansTerminated` | attach.rs:272, the session terminated | a client that lagged takes the end of its stream for the end of its session |
| `BadExitTellsTheRest` | ipc.rs:220, the texts joined read like the screen | the exit event may leave out the last output without marking it |

One text is stronger than the code and has no run of its own: README.md:202, any number of
watchers see the same events. A watcher that falls more than 64 events behind misses some
(`Skip` in `Events`); which ones, and that the exit is not among them, is `LosesOnlyOldEvents`
and `ExitReachesWatchers`.

### Bounds

- Registry: the races are between two commands, or a command and a daemon; a third daemon
  lets a name be taken over, left and taken again. `RegistryFree` has one daemon because
  liveness is costly; `LinkedOnce` and `KillIsFinal` are proved for any number.
- Fanout: tasks share nothing but the count of clients, so one attach and one watch give
  all that a connection can meet; the safety properties are proved for any set of
  connections. Capacity 1 makes lag happen at the second message; with two chunks
  and the notice of the end a client can keep up, fall behind and lag.
- Events: `TICK`, `SETTLE` and `MAX_WAIT` are 200 ms, 500 ms and 10 s; the instance keeps
  their order with 1, 2 and 3, so that a pause can be too short, and `MaxWait` can pass
  before any pause is long enough. Ages stop counting at `AgeBound`, which is beyond every
  comparison. With capacity 1 and 3 chunks the detector can lag twice, and the watcher be
  overtaken by the exit event.
- PtyLoop: two resizes are the fewest that can overlap, and a third client adds only more of
  them. Room 2 takes a keystroke whole and never a paste of three pieces, so a paste is cut
  and a message can follow one that was cut; that longer messages are whole when there is
  room is proved for any room. Output 1 is enough to be read or lost at the end.
- NewText: two columns make a line wrap at its third character. Of a scrollback of 4 and 3
  rows, a text can begin on the screen, scroll off, fill the scrollback and lose rows.
  `MaxEarlier` stops clears from repeating lines for ever (see above); it lets a clear be
  followed by another.
- AttachClient: a fallback among three names can pass over a dead one, find a live one
  and leave one unvisited; with three visits a client can come back to a session, which is
  what reorders its history. Three sessions let a name be taken over while the client
  looks. The safety properties are proved for any numbers.

`CHECK_DEADLOCK FALSE` in the runs of Fanout, Events, PtyLoop and AttachClient: the process
exits and all ends.
In Registry a command can always begin, and in NewText a text be taken, so deadlock is
checked.

### Fairness

- `Registry!FairSpec`: every process that can make a system call makes it (WF on the steps
  of commands, on a daemon's boot and on its exit), and a rename handler that waits for
  the lock gets it some time (SF on `RenameCheck`: tokio's lock is fair, and the steps
  under the lock are finite). Nothing obliges a session to end or a user to run a
  command.
- `Fanout!FairSpec`: the runtime polls the event loop, which never waits in `Process` or
  `Send`. Clients are under no obligation. `DeliveredOrClosed` is about a client that
  reads, and whose task is polled (`Reads`), while others may stall for ever.
- `Events!PromptSpec`: 500 ms suffice for watchers that read, that is, the process exits
  after the watchers' tasks have returned. Without it a watcher may miss the exit event.
- `PtyLoop!FairSpec`: the runtime polls the loop, and `select!` takes ready branches at
  random, so none that stays ready is left out for ever (WF on each branch); the steps
  after the loop are sequential code; and the kernel ends a shell that gets SIGKILL. The
  shell, its jobs and the clients are under no obligation, and time may pass as it likes.
- `AttachClient!FairSpec`: the client's own steps are taken. Its user may leave a menu
  open for ever (the menu is not among the steps from which it has to arrive), and
  nobody has to end, rename or start anything.

## Theorems

Each is proved for every value of the constants that satisfies the module's assumption.

**Registry.** `TypeCorrect` needs `HasArguments` and `HasPath`: which arguments a command
has at which point. `OneLink` is inductive with `LinkedAfterBind`: a process whose
socket is linked has bound it, so the daemon that binds has no link yet. `KillFinality`
rests on `KillInv`: the process that a kill has found has bound its socket, so only a rename
links it again, and the kill that waits between its two tests is then in `returned`; a kill that
goes on to remove the file has seen to it that the process is dead; and which command can be at
which point.
`OrderlyReachable`, `ExitLeavesNoFile`, `SocketsStay` and `OrderlyImplements` share `OrderlyInv`. It says that a
linked socket belongs to a process that has bound it (`LinkedAfterBind`) and, as long as
the process lives, to the path it believes in (`LinkedAtPath`); that running processes are
linked (`Anchored`); that the path cloned at the exit is still the path (`CleanupPath`);
that the start command of a booting daemon still waits for it and so holds its name
(`StarterWaits`, which is what makes `NoOverlap` protect a daemon between `bind` and
`listen`); that what a command is about to remove has no live owner (`RemovesVacant`);
that nobody else takes the name of a process a command deals with (`KeepsTarget`); and
that a rename handler has the name of its daemon (`RenamesByPath`). The refinement maps
`live[n]` to the linked daemon that is `up` or `serving`; `Listen` is `Create`,
`RenameMove` is `Move`, every end of a listed session is `End`, the end of one that was
never listed is `Abandon`, and all else is a stutter. `ExitLeavesNoFile` (`LeavesNoFile`) follows
from `CleanupPath` and `LinkedAtPath`: what is removed is the only link there is, and only a
link that exists can be moved.

**Fanout.** `FanoutTypeCorrect` with `CountInv` (the count is the number of attaches
between `start` and `closed`, an invariant that is inductive with the types);
`CountExact`. `StreamHasNoHole`, `WatchIsSeamless` and `AttachRepeats` share `StreamInv`:
the loop is at most one chunk ahead of what it has sent; a snapshot shows at most
what was processed; the log of a connection ends where its receiver is; a watch
subscribed before its snapshot, an attach after. `FanoutImplements` (`ImplementsOutputStream`)
adds `ReceiverInv`: a receiver is at a message or at the one to come, so what is in the hands
of a task was sent. With it each step of `Next` is one of `OutputStream` or a stutter.

**Events.** `EventsTypeCorrect`. `Timely` (`NothingOverdue`) rests on `TimeInv`: since the
last tick the ages have grown by no more than the time since it. `TextsAlwaysJoin` rests on
`TextInv`: the text under way shows what was seen since the last event, all of it unless
it is marked. `LosesOnlyOld` rests on what the receiver's position says of the last event
written. `EventsImplement` (`ImplementsEventLog`) takes from `TextInv` that the text under way
joins the log, and adds `LogInv`: the detector that has sent the exit has returned, and the
event that a watcher writes is in the log.

**PtyLoop.** `PtyTypeCorrect`: the types with the PTY's room, which `Inject` keeps because it
types no more than there is (`TakesRoom`). `InputArrivesInOrder` rests on `InputInv`: the
queue holds the messages sent last, whole and in order, and the last piece typed belongs to
a message that was taken, so the first piece of the next one can follow it. `InputIsComplete` (`InputComplete`) is the same
invariant with an empty queue.
`SizesAgreeAtRest` rests on `SizeInv`: who is under way alone has given the PTY the size that
the terminal gets next. `ShellIsWaitedFor` and `SignalsReachTheShell` (`StraySignals`) share
`EndInv`: no signal goes astray before the shell was waited for, the loop waits for it only as
it ends, and who is killed was there until then. `Probe` returns only for a pid that is gone,
and `Wait` only when the shell is.

**NewText.** `LinesAreNoticed` (`NewLineCounts`) rests on `LineInv`, which numbers the rows as
NewText does: from the starting point to the cursor all rows go on in the next one until a
line is ended, and from then on one does not. `ScrollKeepsNumbers` shows that scrolling
renumbers nothing while the scrollback has room, and `FullStaysFull` that without room it
stays full, in which case the text counts anyway.

`TextTypeCorrect` (`TypeOK`), `TextIsAlwaysExact` (`TextIsExact`) and `NewestAlwaysTold`
(`NewestIsTold`) share `TextInv`, which TLC has found to hold on the instance of the run, too.
It has four parts: `LineInv`; `TextTypes`, the types with the width of every row and with text
in every line that was taken out or is due; `OpenInv`, the row of the cursor ends with the
line that is open; and `ExactInv`: as long as the scrollback has room and no clear went
unnoticed, the lines taken out and the rows with text from the starting point on are the lines
due, and the last of these rows has text exactly if a line is open. Of every step of the
emulator one shows that it adds a row (`ExactAppend`) or lengthens the last one
(`ExactExtend`), wherever the row is, in the scrollback or on the screen; after a clear and
after `take` there is nothing yet (`ExactFresh`). With a full scrollback the starting point is
not used and the text has all rows there are (`FullTellsAll`). What `WithText` does needs
induction over the length of a sequence, which the theorems of the library give only as
operators on operators: `Induction` gets it for sets of numbers, from the least number of a
set (`LeastOf`), and each fact about `WithText` is the set of lengths for which it holds.

**AttachClient.** `ClientTypeCorrect` with `HasTarget`: a client that switches has a name to
switch to. `HistoryInOrder` (`MostRecentLast`) is inductive with `VisitsCounted`, no visit
is later than the last: so the path that is pushed has the latest, and `retain` keeps
the order of the others (`WithoutOrder`, `WithoutSorted`). `FallsBackToMostRecent` and
`GivesUpOnlyAlone` share `FallInv`: steady names are connectable (`SteadyConnects`), what
is left of the history is the beginning of `recent` and no popped name is steady
(`PoppedGone`), the search begins with an empty history (`ScanLast`) and each steady name
is the current one, still to be tried, or found (`ScanKeeps`).

### Only model-checked

The liveness properties `CommandsFinish`, `SlowClientsDontStall`, `DeliveredOrClosed`,
`ExitReachesWatchers`, `InputIsTaken`, `SessionEnds` and `Arrives`: the prover does not treat
liveness under fairness. Every other property that a run checks is a theorem.

## Not modelled

- How a command comes by its name: the two `TTYMAN_` variables, nested sessions and the refusal
  to attach to oneself (`prepare_session_target`, `resolve_socket_path`). A command of
  `Registry` begins with a name, or none.
- Of a connection: several requests on it, one after the other, and the limit of 16 MB on a line.
- Output before `NewText::new` has run: the detector is subscribed before it is spawned, so such
  a chunk may be in the copy of the screen and be pushed again. It is told once all the same, as
  a text starts behind what the copy shows; how it looks when drawn twice is left out, and
  `Events` starts with an empty text.
- Two runtime directories (`$XDG_RUNTIME_DIR` and the fallback in `/tmp`), name
  validation, `$TTYMAN_PID`, reuse of pids.
- The reads `read`, `redraw`, `info`, `ping`: one locked read each, no state. (`read`
  without a number of lines returns the last rows of scrollback and screen down to the
  cursor, as many as the screen has; when the cursor is not on the last row, after a clear
  for instance, some of them are no longer visible.)
- In NewText: the alternate screen (`has_new_line` and `take` are not asked while it is on,
  but for the exit event), changes of the terminal's size, and text printed over or below
  the cursor, of which the text keeps the last state.
- VT100 parsing: the `vt100` library. Configuration, argument parsing, completion, the
  menu script.
- Raw mode: a `RawGuard` leaves it when it is dropped, on every way out of `attach_client`.
  The bytes a user types before the menu key.
- That an attached client never learns of a rename: its menu command is told, and redraw and
  resize requests go to, the name it connected to (`OpenMenu` after `Rename` in
  `AttachClient`).

## Plan

Done, in this order: `Registry` and `SessionMap`, their proofs; `Fanout`, its proofs;
`Events`, its proofs; `AttachClient`, its proofs; `PtyLoop`, its proofs; `NewText`, the
proof of `NewLineCounts` and those about its text.

Next, by importance:

1. Names: `resolve_socket_path` and `find_socket_for_name` with the environment of a shell
   whose session was renamed, and the two directories.
2. A composition of `Fanout` and `Events` over one output channel, with the end of the loop
   from `PtyLoop` and the shutdown of `Registry`.
3. NewText: repaints in place, the alternate screen and changes of size.
