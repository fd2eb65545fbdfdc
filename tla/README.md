# Verification of remote-debugger-mcp

TLA+ models of the Go server in this repository, the TLC runs that check them on
small instances, and TLAPS proofs of the most important invariants for every
value of the constants. `PROJECT.json` maps each definition to the lines it
models; line numbers below are those of the same commit.

## 1. Inventory

`cmd/debugger/main.go` creates an MCP server, registers five tools and serves
HTTP. The go-sdk calls a tool's handler in a goroutine of its own for every
request, so everything a tool keeps is shared between concurrent calls.

| Component | State it keeps | Operations | Interacts with |
|---|---|---|---|
| Delve tool (`pkg/tools/delve`) | `sessions` (id -> session) under `sessionMu`; per session `mu`, `lastUsed`, pipes, process, context | connect, command, disconnect; the sweep every 5 minutes | dlv processes by pipes and signals; the reaper goroutine of each; the clock |
| Delve channel (`executeCommand`) | the pipes, one reader goroutine per command, channel `done` | write, scan to a prompt, time out | dlv; cleanup and `Wait`, which close the pipes |
| Kube connector (`pkg/connectors/kube`) | `portForwardCmd` under `mu` | PortForward, StopPortForward (others run one kubectl each) | kubectl, its reaper goroutine |
| Kube tool (`pkg/tools/kube`) | `lastConnector` under `mu` | port-forward, stop-port-forward, get/create/delete/apply | connectors, local ports, kubectl |
| sshexec tool (`pkg/tools/sshexec`) | none; the remote host's files are the shared state | execute mode, kill mode | ssh connector |
| SSH connector (`pkg/connectors/ssh`) | none | run, copy, chmod, remove | ssh, scp |
| Pagination (in four tools) | none: the tool runs anew for each page | cut output by offset and max_lines | a client that pages |
| sysinfo tool (`pkg/tools/sysinfo`) | none | thirteen commands per call, memory and usage computed, a report | shell, ssh connector |
| pprof tool (`pkg/tools/pprof`) | none | one profile per call, list of profiles | HTTP, `go tool pprof` |
| Server, main | the SDK's | register, Shutdown (does nothing) | the tools; the processes they leave |

What is hard here, and what would be correct:

- **Delve tool.** Three mutexes' worth of interleavings: the id check, the start
  of dlv and the insert must be one critical section; commands use a session
  after they let go of `sessionMu`; the cleanup takes `sessionMu` but never
  `session.mu`; `lastUsed` is written under one lock and read under the other;
  the reaper frees pids that the cleanup signals; writes to stdin have no time
  limit. Correct: no dlv is lost, the table leads to intact sessions only,
  nothing is delivered to a session that has been removed, calls return, what is
  cleaned up is collected, what is abandoned is swept.
- **Delve channel.** Timeouts that leave a reader and a late answer behind, an
  unread greeting, any line with a `>` taken for the prompt, chunks that end behind
  one, pipes closed during a Read. Correct: a reply is the answer to its command, no
  line is delivered twice, no reader stays in a closed pipe.
- **Kube connector and tool.** A blocking `Wait` under the mutex, two waiters for
  one process whose number may be another's by then, one remembered connector for
  many forwards, a stop between "remember" and "start", a port probed long before it
  is bound, kubectls that a restart of the server leaves behind. Correct: a forward
  that runs can be stopped, a stop that says so has stopped it and nothing else, and
  a promised port is the forward's own.
- **sshexec.** Four remote steps per call, each of which can fail before or after
  it takes effect, on paths that calls share; background executions whose pids are
  killed later. Correct: a call runs what it has copied and leaves the host as asked,
  and a kill reaches what it is aimed at.
- **sysinfo.** Every command may fail by itself, a pipeline hides failures, stderr of
  ssh mixes with output, counters stand still. Correct: each figure is the host's or
  is missing for a reason, and memory adds up.
- **Pagination.** Four copies of nearly the same arithmetic with different tests
  at the boundaries, on ints of finite width. Correct: pages are the slices asked
  for, a client that follows the notices reads each line once, and it stops even if the
  text changes between two pages.

`PROJECT.json` lists every hazard at its line with the properties that watch it.

## 2. Modules

| Module | Models | Built on |
|---|---|---|
| `SessionRegistry` | what the session table promises, abstractly | |
| `DelveTool` | table, locks, handlers, sweep, dlv processes, pids, idle time | implements `SessionRegistry` |
| `DelveChannel` | the text channel of one session | |
| `KubeConnector` | connectors, their mutex, kubectl processes | |
| `KubeTool` | port-forward and stop-port-forward, ports | EXTENDS `KubeConnector` |
| `SshExec` | execute and kill mode, and the remote host | |
| `Paging` | operators: the pages of the four tools | |
| `SysInfo` | operators: what sysinfo makes of a host, and its report | |
| `Reports` | a client that pages through the tools' output | EXTENDS `Paging`, `SysInfo` |
| `DelveTool_proofs`, `DelveChannel_proofs`, `KubeConnector_proofs`, `SshExec_proofs`, `Reports_proofs` | theorems | their components |
| `KubeTool_proofs` | theorems | EXTENDS `KubeTool`, `KubeConnector_proofs` |
| `MCDelveTool`, `MCDelveChannel`, `MCKubeTool`, `MCSshExec`, `MCReports` | symmetry sets and definitions for the .cfg files | their components |

Mutants: an operator commented "Mutant of X" stands before X and is X with a
plausible slip. It is used by no specification; each property is shown to fail
when its mutant takes the place of the original, so no property holds merely by
the shape of a model.

### DelveTool

A goroutine has a control state `pc`, the id `arg` and the session `ses` it works
on. The sweeper is one more goroutine. `sessionMu` records the writer that holds
it. A read section (`handleCommand`'s lookup) is one step that needs the mutex
free. `pc` stops where other goroutines can see a difference: after taking a lock,
after a blocking write, in a sleep, before a signal.

| Action | Code |
|---|---|
| `Invoke` | `DelveHandler`, `handleSessionOperation` |
| `ConnectCheck`, `ConnectStart`, `ConnectStartFails`, `ConnectPublish` | `handleConnect`, `connectSession` |
| `CommandLookup`, `CommandAcquire`, `CommandWrite`, `CommandWriteFails`, `CommandDone` | `handleCommand`, `executeCommand` |
| `DisconnectCheck` | `disconnectSession` up to the cleanup |
| `SweepStart`, `SweepNext`, `SweepEnd` | `cleanupStaleSessions` |
| `CleanupExit`, `CleanupClose`, `CleanupKill`, `CleanupFinish` | `cleanupSession`, then `delete` and `Unlock` |
| `Reap` | the goroutine with `cmd.Wait()` |
| `DlvReads`, `DlvExits`, `Tick` | dlv and the clock (external) |

Time is counted in ticks of minutes: `Tick` does not pass the bounded waits (500ms
startup, 5s reply, 100ms before the close) but does pass a blocked write. The
unsynchronised read of `lastUsed` gives the old or the new time: the sweep loop
may meet the entry before or after `CommandAcquire`; a mixture of the two words of
a `time.Time` with a monotonic reading compares like one or the other. Session
objects are reused once their process has been reaped and no goroutine refers to
them, which stands for garbage collection and keeps the model finite.

### DelveChannel

One session, `N` commands in order. `Next1` is the session's mutex. A reader
goroutine is entering `Read` (Go's file lock admits one at a time), in it, sending
on `done`, or gone. `ReadChunk` takes any number of the lines in the pipe, since
every command has a scanner of its own whose buffer is lost behind the prompt. dlv
answers commands in order; which lines of an answer the reader takes for the prompt is
a constant, and in the runs it may be the first or the last. `executeCommand` relies on
its being the last and the only one (delve.go:229); dlv prints its prompt without a line
break, and shows a stop as `> main.main() ...`, so it can be neither. `EndsAtPrompt` says
what it relies on, and `ReplyIsOwnUnlessLate` is stated up to the first answer that is
not so: its own answer is then cut short, and the rest belongs to the next reply.

### KubeConnector and KubeTool

`KubeConnector` has one action per step of `PortForward`, `StopPortForward` and
`stopPortForward`; `StopWait` is enabled when the process has ended, whether the
reaper or this call collects it. `KubeTool` runs the handlers on top: while a
goroutine is inside a connector its steps are the connector's, with the tool's
variables unchanged; `New` takes an object that nobody refers to and whose processes
have been collected. The connector's `StrayTermOnlyByReuse` is checked again over this
composition, in which connectors are made anew and a new program meets the kubectls
of the one before. A process number is in use from `Start` until the process
has been collected, and then free to be given to another; a stopped connector may
hold the old number for ever (`StopKill`). `Restart` is the end of the server by a
signal or a crash, and its next start: calls, connectors and `lastConnector` are gone,
the kubectls go on and keep their ports (Setpgid, and no context ties them to a
request); only one restart is considered. The run of `get`, the probe and kubectl's bind appear by their outcome;
ports are `1..MaxPort`, and a port is bound by another program, a probe in progress or
a listening kubectl. Other programs bind and release the ports of `Foreign` at any time
(`ProgramBinds`, `ProgramReleases`), between a call's probe and its kubectl's bind
included; `preempted` is a history variable with the calls that have lost the port they
had found free to one of them. `hist` is a history variable: it records whether a forward was
ever made beside another ("supplanted"), a stop overlapped a forward
("overlapped"), two were after one port at a time ("contested") or the server was
restarted; only properties read the two, and `Restart` its own bound.

### SshExec

Each call is made once, with any path, binary and flags. The remote shell of a call
has its own steps and lives on when the connection breaks. scp truncates, then
writes: while a call is copying, the file's content is that call; two copies into
one file may mix (`Partial`). That a file that is executing cannot be overwritten is
not modelled (`CopyFails` allows it to fail at any time). Processes on the host have
numbers, which are given out again when a process has ended; a background execution
shows its own in the reply, and a kill is aimed at a number or at a name. What
`pkill -x` does with a name is up to the host: it is an extended regular expression that
has to match the whole of the first 15 characters of a process's name, so it can hit the
processes of several paths, of one, or of none, in particular none when the name is longer.
A name is therefore the set of paths whose processes it hits (`Names`), and the runs take
every such set. A process has the name of its binary once it runs it; the remote shells,
whose own names are those of shells, are not considered as what a name hits. `met` is a
history variable with the calls that were at work on the same path at the same time.

### Paging, SysInfo and Reports

A text is a sequence of lines. `DelvePage`, `PprofPage` and `ExecPage` compute a page
as the tools do, with `Wrap` for the overflow of an int, whose largest value is the
constant `MaxInt`. `Gather` is `gatherSystemInfo` over a host given by which commands
fail, which files it lacks, in which files that it has grep finds nothing (`keyless`: no
"cpu cores" or "model name" in the /proc/cpuinfo of many machines, no PRETTY_NAME), and
what stderr says: the right answer to a command is the
name of the command, so that a figure which is neither the host's nor missing would show;
`IsHost` says which hosts there are, in particular that available memory, and free and
cached memory, are parts of the total. CPU usage is a fraction instead of a float. `Format` is
the report, by its lines. In `Reports`, `Read` is a client that asks for the lines behind
the last page as long as the notice names lines short of the last; each request runs the
tool anew, on a source that may have changed once. `ReadFails` is any failure of the
tool; `Probe` is a lone request with any offset.

## 3. Runs

Passing runs check each module's type invariant besides what is listed.

| Run | Shows | Bounds |
|---|---|---|
| `DelveTool_safety` | `NoLostDebugger`, `TableIntact`, `DeliveredToBound`, `StraySignalOnlyByReuse`; implements `SessionRegistry` | 2 callers, sweeper, 2 ids, 2 sessions, 2 pids, stdin of 1 line, `MaxIdle` 1 |
| `DelveTool_liveness` | calls return, cleaned-up dlvs are collected, abandoned sessions swept | 2 callers, 1 id, 1 session |
| `DelveChannel_replies` | `ReplyIsOwnUnlessLate`, no line twice, leaks only by timeouts; Close frees readers | 3 commands, answers of 2 lines with the prompt first or last, with and without a greeting |
| `KubeConnector` | `ForwardIsHeld`, `StopStops`, `StrayTermOnlyByReuse`; calls return unless kubectl ignores SIGTERM | 2 callers, 2 connectors, 2 processes, 2 pids |
| `KubeTool_safety` | sequential forwards are stoppable and stopped; who else listens at a promised port came after the probe; `StrayTermOnlyByReuse` | 2 callers, 2 connectors, 2 processes, 2 pids, 2 ports, of which other programs take and leave the wanted one, one restart |
| `SshExec` | a call alone on its path runs and leaves what it should, a file waits for its shell, kills go where they are aimed | 2 executions, 1 kill by number or by any name, 2 paths, 2 pids |
| `Reports` | slices and headers, also behind the end; complete and finite reading; figures are the host's or missing for a reason, and add up | texts to 7 lines, pages to 4, 7-bit int; 150 hosts |

Why these bounds: the interactions are pairwise. Two callers and the sweeper are
three goroutines for two mutexes; two ids and two sessions let one session be
replaced while another lives, and two pids let a number be reused; a pipe of one
line is full after one write; three commands are a timed-out one, one that gets its
answer, and one behind it; two goroutines can contend for one connector, and a number
given back by one connector's process can be given to the other's. Two ports are
one to prefer and one to fall back to; other programs take the preferred one, since a
second port that is taken only ends a search. The runs of the two divergences of the kube
tool need no other program. Two paths give every kind of name: one that hits both, one or
none. The hosts are a local one, a remote one and one with a
banner, each without one command, file or line (or two, or all), and edge values of memory and
counters. With texts of 7 lines and pages of 4 there are pages that end before, at and
behind the end; 7 bits hold the report of sysinfo and leave offsets that overflow. The
safety runs use symmetry, the runs with liveness do not. The proofs remove the bounds
where there are any.

Deadlock is checked except where a model ends: a session's commands or a
host's calls are used up, or a text is read.

### Divergences

Each of these runs checks one property, taken from what the code or its notes say,
and TLC finds it violated.

| Run | What happens |
|---|---|
| `DelveTool_sweep` | a session used after the sweep looked at it is swept (delve.go:121) |
| `DelveTool_freeze` | cleanup blocks in the exit line, `sessionMu` held (delve.go:272) |
| `DelveChannel_late` | a reply is the late answer to the timed-out command before (delve.go:205) |
| `KubeTool_race` | a stop during a forward makes the forward unstoppable (tools/kube/kube.go:191) |
| `KubeTool_context` | verified in one context, forwarded in another (PROJECT_NOTES.md:297) |

Others were met while modelling. They follow from single steps of the models and
have no run of their own; the passing properties name them as exceptions where they
matter:

- `stop-port-forward` "stops any active port forwarding" (tools/kube/kube.go:280):
  only the last one is remembered. `StoppableWhenSequential` excludes it.
- "Session established" (delve.go:345) and "Forwarding is active" (tools/kube/kube.go:222)
  are said without a look at the process after the delay.
- "Read initial prompt" (delve.go:199) only sleeps: what dlv prints on start becomes
  part of the first reply. `ReplyIsOwnUnlessLate` excludes it.
- A cleanup may signal another session's debugger when its own pid has been reused
  (delve.go:297). `StraySignalOnlyByReuse` shows that this is the only way.
- The port that a forward reports was free when it was probed, not when kubectl binds
  it: another program can take it in between, and two calls can be promised one port.
  `PortIsOwnUnlessContested` shows that these are the only ways to a port that is not the
  forward's own.
- A stop may signal another connector's kubectl when its own was collected by the
  reaper and the number given out again (connectors/kube/kube.go:347);
  `StrayTermOnlyByReuse` shows that this is the only way.
- "Test connection first (for pods)" (tools/kube/kube.go:196): `TestConnection` accepts
  every name with a slash, and pods are always named with one.
- Two sshexec calls with one remote path can run each other's binary; a copy that
  breaks off leaves the file behind (sshexec.go:182); a failed ssh connection is
  returned as exit code 255 with no error (ssh.go:116 against the comment at 120).
- `kill_by_name` kills "by name pattern" (PROJECT_NOTES.md:127 and 279, sshexec.go:30),
  and the comment at sshexec.go:141 promises an "exact process name". `pkill -x`
  (sshexec.go:144) is between the two: the name is an extended regular expression, so
  `a.b` hits `axb`, but it has to match the whole of a name cut off after 15 characters.
  The notes' example `KillByName=remote-debugger-mcp` (PROJECT_NOTES.md:280) is longer and
  hits nothing, nor does 'remote-debugger' as a part of a name (PROJECT_NOTES.md:287).
  A kill of nothing still ends with exit code 0, since the command ends in `||` and an
  echo. `KillGoesWhereAimed` holds for every set of processes that a name may hit; it does
  not say that it is the set the client meant.
- "Use offset parameter to view more" suggests a text that stays: each page runs the
  command again (for delve, `continue` continues again; sshexec copies and executes the
  binary again), so `ReaderReadsAll` holds for texts that do not change.
- The fallback from /etc/os-release to `uname -s` (sysinfo.go:186) is not taken when the
  file is missing or has no PRETTY_NAME: the pipeline ends in `tr`, which succeeds, and the
  name is empty. In the same way a machine whose /proc/cpuinfo has no "cpu cores" is
  reported with 0 cores (sysinfo.go:211), with no sign of an error.
- A banner of ssh, or any stderr, is appended to the output of successful commands
  (ssh.go:92): the numbers of cores and threads become 0, other fields gain lines.
  `FiguresAreTrue` names these as the reasons for which a figure can be missing.
- delve calls a page truncated that ends with the output (delve.go:417); sshexec and
  sysinfo call an empty page truncated when offset + max_lines overflows
  (sshexec.go:248, sysinfo.go:141); pprof shows the first page under a header of lines
  that do not exist when the offset is behind the end (pprof.go:165). `PageIsSlice` states
  what each does there. A client that
  follows the notices from the start meets only the first, as one empty page.

## 4. Fairness

Weak fairness for every step of the program's own goroutines that does not wait for
a mutex: the Go scheduler runs them. Strong fairness for taking a mutex: Go's
mutexes hand over to a waiter that has starved for 1ms. Weak fairness for the
kernel's kill and wait and for the clock. Nothing is assumed of clients, of dlv or of
kubectl: dlv may never read its stdin, kubectl may ignore SIGTERM, which is why the
liveness properties name exactly these as the exceptions (`SomeStalled`, `SomeDeaf`).
In `SshExec` the remote shell runs, a connection may or may not break and a binary
need not end. In `DelveChannel` only the readers are assumed to run, which is all that
`CloseFreesReaders` needs; in `Reports` the client goes on as long as the notices tell it to.

## 5. Proofs

Every safety invariant and every action property of the passing runs is also a theorem
for all values of the constants, from the modules' named assumptions alone. Each proof
has the same shape: an inductive invariant, checked by TLC first; that the initial
states have it; that each action preserves each of its conjuncts; and the properties
as its consequences, action properties as consequences of it and one step.

`DelveTool_proofs`, from `DelveAssumption`: `None` is no other value, the sweeper is no
caller, and the pipe and the idle time are positive.

- `TableIntact` and `NoLostDebugger` are not inductive. `IInv` adds: a goroutine
  past the check of its lock has an id and a session where its `pc` says so
  (`WellPlaced`); the goroutines between Lock and Unlock are exactly the holder
  of `sessionMu`, so there is at most one (`LockInv`); a session being started
  is in nobody else's hands and its id is free, and one being cleaned up is still
  the table's entry for the id (`PlaceInv`); no two ids share a session
  (`TableInv`); the context of a session in the table is live until the last step of
  its cleanup (`LiveInv`); its pipes are closed only by the reaper or by its
  cleanup (`ClosedInv`). `Inductive` is `Spec => []IInv`; each of its steps is one
  action.
- `TypeCorrect`, `NoDebuggerIsLost`, `PublishedIsIntact` follow. `InputToPublished`
  shows the action property from it: a write needs open pipes, and a session that a
  caller still holds after its removal has closed ones.
- `StraySignalIsReuse`: processes that have not been collected have different pids
  (`PidInv`), and what a goroutine or the table refers to has been started
  (`StartedInv`), so a signal meets another session's dlv only after its own was reaped.
- `RegistryImplemented`: with `busy` mapped to the session in the hands of the
  holder of `sessionMu`, each action is `Open`, `Publish`, `Close`, `Retire`,
  `Accept`, `Drain` or a stutter (`RegistryStep`).

`DelveChannel_proofs`, from `ChannelAssumption`, for any number of commands, any answers
and any greeting. `ChunkMoves`, `PrintMoves` and `TakeMoves` first say how lines
move from one sequence to the next (`Joined`, `Rest`), and `RestOrder`, `JoinedFrom`
and `JoinedOrder` what that does to the order of lines.

- `LeaksAreTimeouts` needs no more than the types.
- `LinesAreDeliveredOnce`: the lines of each reply come before those in stdout, and
  these before those dlv has yet to print (`FlowInv`), as commands wait in stdin in their
  order (`OrderInv`, `QueueInv`). Two replies share no line because whatever is appended
  to one was in the pipe, behind all that was received before.
- `UndisturbedRepliesAreOwn`: as long as no earlier command has timed out or ended early
  (`Undisturbed`), a command finds the pipe empty (`Drained`), and while it is read the
  reply, stdout and what dlv has yet to print are together its answer (`Streaming`).
  This carries from one command to the next only if the reader took all of the answer,
  which is where the prompt has to be the last line and dlv alive (`OwnAt`).

`KubeConnector_proofs`, from `ConnectorAssumption`: the type invariant
(`ConnectorTypes`), that a running kubectl is the one its connector holds
(`ForwardAlwaysHeld`), and that a successful stop leaves none running
(`StopLeavesNone`). The strengthening says which caller holds the mutex at which
control state, that a caller in `wait` has a process to wait for, and that no two
processes which have not been collected share a number (`PidInv`). From the last,
`StrayTermIsReuse`: the signal of a stop reaches another kubectl only when the
connector's own was collected and its number given to that one.

`KubeTool_proofs`, on top of it. The lemma `UsesStep` reduces the steps of the tool to the
connectors' actions, a fresh connector and a new server, so the connector's invariant is
kept by lemmas about those. Only `KnownInv`, that a connector of
this server has started each kubectl that runs, does not survive a restart, and with it
`ForwardIsHeld`, which is therefore a theorem about the connector alone.
`ToolStopsStop` and `ToolStraysByReuse` carry the connector's two promises over.

- `SequentiallyStoppable`, `SequentialStopTrue`: while `hist` is empty, no stop runs
  beside a forward, every call in a forward works on `lastConnector`, and every kubectl
  belongs to it (`SequentialInv`). A fresh connector is remembered only when there is
  no kubectl left, or `hist` becomes "supplanted" by that very step.
- `UncontestedPortIsOwn`: a port that another program holds was taken from each call that
  has chosen it after the choice, and a port is chosen by one call at a time and no other
  call's kubectl was told of it, or "contested" is in `hist` (`PortInv`).

`SshExec_proofs`, from `SshExecAssumption`, for any number of calls, paths and numbers.
Calls at work on one path have met (`MetInv`); a call that met nobody has its own,
executable binary at its path until its shell has started it (`OwnInv`), and so ran its
own unless it was signalled (`RanInv`); a path that nobody else has named keeps or loses
it as asked (`LeaveInv`). `AloneAlwaysRunsOwn`, `FileIsThere` and `AloneAlwaysLeaves`
follow. `KillAlwaysAimed` uses that two live processes have different numbers, and that a
process which has the name of its binary has run what was at its path (`PlaceInv`); of names
it assumes nothing but that they hit some set of paths.

`Reports_proofs`, from `PagingAssumption` and `ReportsAssumption`.

- `DelveCuts`, `PprofCuts` and `ExecCuts` show that the three ways to compute a page have
  a contract in common (`Cut`), for any length, page size, offset and `MaxInt`, also
  where `offset + max_lines` wraps around; `FormatIsSeq` that the report of sysinfo is
  a sequence of lines. `Behind` adds what each tool does with an offset behind the end:
  an empty page, or pprof's first page under a header of lines that do not exist.
  `PagesAreSlices` is both read as a set of line numbers and a header, without exempting
  an offset.
- `ReaderGetsAll`: what has been received is the beginning of the text up to `offset`,
  and the reader goes on exactly while that is short of the end (`ReadInv`), if the text
  has not changed; if it has, the offset still does not overflow (`ReportsTypes`).
- `MemoryAlwaysAddsUp`, `FiguresAlwaysTrue`: by cases over what fails. `IsHost` assumes
  of the kernel that the parts of its memory are no more than the total, without which
  used memory could be negative.

Only model-checked: all liveness (`CallsReturnUnlessStalled`, `CleanedDebuggerReaped`,
`AbandonedSessionsSwept`, `CloseFreesReaders`, `ReturnsUnlessDeaf`, `ReaderEnds`), which
is out of the prover's reach with its fairness. The divergences of section 3 are
counterexamples and need no proof. Neither proved nor checked: liveness of the kube
tool's handlers beyond the connector's, where they take no lock while they wait.

## 6. Not modelled

- kubectl get/create/delete/apply: `handleKubectlCommand` builds an argument list,
  runs kubectl once and returns what it said, errors included. The tool keeps nothing,
  no step can fall between two others, and the cluster is outside the program: a model
  would have one action and one that fails, with nothing to go wrong between them. The
  same holds for the connector's exec, logs, copy and describe, which no tool calls.
- The list of pprof's profiles: one HTTP request, and a regular expression over a page
  that another program writes.
- Of the server, its registration of tools, flags and HTTP; the restart is in `KubeTool`.
  dlv is not in it: it sees the end of its stdin, and no new session can reach it.
- Argument building, quoting, validation of inputs and message texts, lines longer than
  a scanner's buffer, and, on a timeout, the handler's read of the text that the reader
  is still writing (delve.go:248), since the text is then discarded.
- The pprof test programs, which allocate memory for trying the tool.
- Resource exhaustion by clients: the number of sessions and forwards has no limit in
  the code and none in the models but the sets' sizes.

## 7. Plan

Done: the Delve tool, its channel and its registry; the connector and the tool of
port-forward with reused pids and a restart; execute and kill mode; sysinfo, pagination
and their reader; a theorem for every safety property of the passing runs.

Next: what the proofs can say beyond the runs.

1. An abstract specification of a port-forward service (forwards that run, the one
   that a stop ends) implemented by `KubeTool` in sequential use, as `SessionRegistry`
   is by `DelveTool`.
2. An abstract specification of the channel, a queue of answers each received once,
   implemented by `DelveChannel` as long as nothing disturbs it.
3. A composition of `DelveTool` with `DelveChannel` that ties a session's readers to its
   cleanup.
