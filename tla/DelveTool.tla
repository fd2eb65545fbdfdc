------------------------------ MODULE DelveTool ------------------------------
(***************************************************************************)
(* The Delve tool (pkg/tools/delve/delve.go): the table of debugger        *)
(* sessions, the two mutexes that guard it, the three request handlers     *)
(* (connect, command, disconnect), the goroutine that sweeps stale         *)
(* sessions, and the dlv processes behind the sessions.                    *)
(*                                                                         *)
(* Every tool call runs in a goroutine of its own.  A session's text       *)
(* channel is reduced to what the table depends on: whether a write to     *)
(* dlv's stdin succeeds, fails or blocks.  What a command's reply contains *)
(* is the subject of module DelveChannel.                                  *)
(***************************************************************************)
EXTENDS Naturals, FiniteSets

CONSTANTS
    Ids,        \* session ids that clients use
    Calls,      \* request goroutines
    Sweeper,    \* the cleanupStaleSessions goroutine
    Sessions,   \* DelveSession objects; a dead, unreferenced one is reused
    Pids,       \* process ids, which the kernel reuses
    StdinCap,   \* lines that dlv's stdin pipe holds before a write blocks
    MaxIdle,    \* sessionMaxIdleTime, in ticks of the clock
    None        \* "no session", "no holder", "no pid"

ASSUME DelveAssumption ==
    /\ StdinCap \in Nat \ {0}
    /\ MaxIdle \in Nat \ {0}
    /\ Sweeper \notin Calls
    /\ None \notin Ids \cup Calls \cup {Sweeper} \cup Sessions \cup Pids

VARIABLES
    sessions,   \* Tool.sessions: id -> session
    sessionMu,  \* Tool.sessionMu: the goroutine that holds it for writing
    pc,         \* where each goroutine is
    arg,        \* the session id the goroutine works on
    ses,        \* the session the goroutine works on
    stale,      \* sessions unused for too long when the current sweep began
    mu,         \* DelveSession.mu
    idleFor,    \* ticks since DelveSession.lastUsed
    closed,     \* the tool's ends of the session's pipes are closed
    cancelled,  \* DelveSession.ctxCancel has been called
    proc,       \* the dlv process of the session
    pid,        \* cmd.Process.Pid
    termed,     \* a SIGTERM is pending for the process
    inq         \* lines in dlv's stdin pipe

toolVars == <<sessions, sessionMu, pc, arg, ses, stale>>
procVars == <<proc, pid, termed, inq>>
sesVars  == <<mu, idleFor, closed, cancelled>>
vars     == <<toolVars, sesVars, procVars>>

Agents == Calls \cup {Sweeper}

CleanupPC == {"exit", "close", "kill", "finish"}
PCs == {"idle", "connect", "start", "settle", "lookup", "acquire", "write",
        "wait", "disconnect", "sweep"} \cup CleanupPC

\* Goroutines between sessionMu.Lock() and Unlock().
LockedPC == {"start", "settle", "sweep"} \cup CleanupPC

TypeOK ==
    /\ sessions \in [Ids -> Sessions \cup {None}]
    /\ sessionMu \in Agents \cup {None}
    /\ pc \in [Agents -> PCs]
    /\ arg \in [Agents -> Ids \cup {None}]
    /\ ses \in [Agents -> Sessions \cup {None}]
    /\ stale \in SUBSET Sessions
    /\ mu \in [Sessions -> Calls \cup {None}]
    /\ idleFor \in [Sessions -> 0..(MaxIdle + 1)]
    /\ closed \in [Sessions -> BOOLEAN]
    /\ cancelled \in [Sessions -> BOOLEAN]
    /\ proc \in [Sessions -> {"none", "running", "zombie", "reaped"}]
    /\ pid \in [Sessions -> Pids \cup {None}]
    /\ termed \in [Sessions -> BOOLEAN]
    /\ inq \in [Sessions -> 0..StdinCap]

Init ==
    /\ sessions = [i \in Ids |-> None]
    /\ sessionMu = None
    /\ pc = [a \in Agents |-> "idle"]
    /\ arg = [a \in Agents |-> None]
    /\ ses = [a \in Agents |-> None]
    /\ stale = {}
    /\ mu = [s \in Sessions |-> None]
    /\ idleFor = [s \in Sessions |-> 0]
    /\ closed = [s \in Sessions |-> FALSE]
    /\ cancelled = [s \in Sessions |-> FALSE]
    /\ proc = [s \in Sessions |-> "none"]
    /\ pid = [s \in Sessions |-> None]
    /\ termed = [s \in Sessions |-> FALSE]
    /\ inq = [s \in Sessions |-> 0]

-----------------------------------------------------------------------------
(* Vocabulary *)

Bound == {sessions[i] : i \in Ids} \ {None}

\* Sessions that some goroutine creates or cleans up.
Held(s) == \E a \in Agents : pc[a] \in LockedPC /\ ses[a] = s
BeingCleaned(s) == \E a \in Agents : pc[a] \in CleanupPC /\ ses[a] = s

\* A session object nobody can reach any more, whose process is gone.
Fresh(s) ==
    /\ proc[s] \in {"none", "reaped"}
    /\ s \notin Bound
    /\ \A a \in Agents : ses[a] # s

\* The kernel gives out a pid again once its process has been waited for.
FreePid(p) == \A s \in Sessions : proc[s] \in {"running", "zombie"} => pid[s] # p

\* Mutant of Writable: a write never blocks.
WritableUnbounded(s) == ~closed[s] /\ proc[s] = "running"

\* A write to a session's stdin: it blocks while dlv lives but does not read,
\* and fails once the pipe is closed or has no reader.
Writable(s) == ~closed[s] /\ proc[s] = "running" /\ inq[s] < StdinCap
Broken(s)   == closed[s] \/ proc[s] # "running"
Stalled(s)  == ~closed[s] /\ proc[s] = "running" /\ inq[s] = StdinCap

\* The goroutine ends its call, with a result or an error.
Return(c) ==
    /\ pc' = [pc EXCEPT ![c] = "idle"]
    /\ arg' = [arg EXCEPT ![c] = None]
    /\ ses' = [ses EXCEPT ![c] = None]

Goto(a, p) == pc' = [pc EXCEPT ![a] = p]

-----------------------------------------------------------------------------
(* Requests *)

\* A validated request reaches its handler; an absent action means "command".
Invoke(c, op, i) ==
    /\ pc[c] = "idle"
    /\ pc' = [pc EXCEPT ![c] = op]
    /\ arg' = [arg EXCEPT ![c] = i]
    /\ UNCHANGED <<sessions, sessionMu, ses, stale, sesVars, procVars>>

-----------------------------------------------------------------------------
(* connect: sessionMu is held from the check of the id, through the start  *)
(* of dlv and the startup delay, until the session is in the table.        *)

\* Mutant of ConnectCheck: the id is not looked up first.
ConnectCheckUnguarded(c) ==
    /\ pc[c] = "connect"
    /\ sessionMu = None
    /\ sessionMu' = c
    /\ Goto(c, "start")
    /\ UNCHANGED <<sessions, arg, ses, stale, sesVars, procVars>>

ConnectCheck(c) ==
    /\ pc[c] = "connect"
    /\ sessionMu = None
    /\ \/ /\ sessions[arg[c]] # None
          /\ Return(c)
          /\ UNCHANGED sessionMu
       \/ /\ sessions[arg[c]] = None
          /\ sessionMu' = c
          /\ Goto(c, "start")
          /\ UNCHANGED <<arg, ses>>
    /\ UNCHANGED <<sessions, stale, sesVars, procVars>>

\* A pipe or the process cannot be created: no session, the lock is released.
ConnectStartFails(c) ==
    /\ pc[c] = "start"
    /\ sessionMu' = None
    /\ Return(c)
    /\ UNCHANGED <<sessions, stale, sesVars, procVars>>

\* "dlv connect" runs in a process group of its own, with its reaper.
ConnectStart(c) ==
    /\ pc[c] = "start"
    /\ \E s \in Sessions, p \in Pids :
        /\ Fresh(s) /\ FreePid(p)
        /\ ses' = [ses EXCEPT ![c] = s]
        /\ proc' = [proc EXCEPT ![s] = "running"]
        /\ pid' = [pid EXCEPT ![s] = p]
        /\ termed' = [termed EXCEPT ![s] = FALSE]
        /\ inq' = [inq EXCEPT ![s] = 0]
        /\ mu' = [mu EXCEPT ![s] = None]
        /\ idleFor' = [idleFor EXCEPT ![s] = 0]
        /\ closed' = [closed EXCEPT ![s] = FALSE]
        /\ cancelled' = [cancelled EXCEPT ![s] = FALSE]
    /\ Goto(c, "settle")
    /\ UNCHANGED <<sessions, sessionMu, arg, stale>>

\* After the delay the session is published, whatever became of dlv.
ConnectPublish(c) ==
    /\ pc[c] = "settle"
    /\ sessions' = [sessions EXCEPT ![arg[c]] = ses[c]]
    /\ sessionMu' = None
    /\ Return(c)
    /\ UNCHANGED <<stale, sesVars, procVars>>

-----------------------------------------------------------------------------
(* command: the session is looked up under RLock and used after it.        *)

CommandLookup(c) ==
    /\ pc[c] = "lookup"
    /\ sessionMu = None
    /\ \/ /\ sessions[arg[c]] = None
          /\ Return(c)
       \/ /\ sessions[arg[c]] # None
          /\ ses' = [ses EXCEPT ![c] = sessions[arg[c]]]
          /\ Goto(c, "acquire")
          /\ UNCHANGED <<arg>>
    /\ UNCHANGED <<sessions, sessionMu, stale, sesVars, procVars>>

\* session.mu.Lock() and lastUsed = now.
CommandAcquire(c) ==
    /\ pc[c] = "acquire"
    /\ mu[ses[c]] = None
    /\ mu' = [mu EXCEPT ![ses[c]] = c]
    /\ idleFor' = [idleFor EXCEPT ![ses[c]] = 0]
    /\ stale' = stale \ {ses[c]}
    /\ Goto(c, "write")
    /\ UNCHANGED <<sessions, sessionMu, arg, ses, closed, cancelled, procVars>>

CommandWrite(c) ==
    /\ pc[c] = "write"
    /\ Writable(ses[c])
    /\ inq' = [inq EXCEPT ![ses[c]] = @ + 1]
    /\ Goto(c, "wait")
    /\ UNCHANGED <<sessions, sessionMu, arg, ses, stale, sesVars, proc, pid, termed>>

\* Mutant of CommandWriteFails: the error path does not unlock session.mu.
CommandWriteFailsLocked(c) ==
    /\ pc[c] = "write"
    /\ Broken(ses[c])
    /\ Return(c)
    /\ UNCHANGED <<sessions, sessionMu, stale, sesVars, procVars>>

CommandWriteFails(c) ==
    /\ pc[c] = "write"
    /\ Broken(ses[c])
    /\ mu' = [mu EXCEPT ![ses[c]] = None]
    /\ Return(c)
    /\ UNCHANGED <<sessions, sessionMu, stale, idleFor, closed, cancelled, procVars>>

\* A prompt, end of file, a read error or the timeout ends the wait.
CommandDone(c) ==
    /\ pc[c] = "wait"
    /\ mu' = [mu EXCEPT ![ses[c]] = None]
    /\ Return(c)
    /\ UNCHANGED <<sessions, sessionMu, stale, idleFor, closed, cancelled, procVars>>

-----------------------------------------------------------------------------
(* disconnect and the sweep, which share cleanupSession.  Both hold        *)
(* sessionMu throughout and neither takes session.mu.                      *)

\* Mutant of DisconnectCheck: the lock is not kept for the cleanup.
DisconnectCheckUnlocks(c) ==
    /\ pc[c] = "disconnect"
    /\ sessionMu = None
    /\ sessions[arg[c]] # None
    /\ ses' = [ses EXCEPT ![c] = sessions[arg[c]]]
    /\ Goto(c, "exit")
    /\ UNCHANGED <<sessions, sessionMu, arg, stale, sesVars, procVars>>

DisconnectCheck(c) ==
    /\ pc[c] = "disconnect"
    /\ sessionMu = None
    /\ \/ /\ sessions[arg[c]] = None
          /\ Return(c)
          /\ UNCHANGED sessionMu
       \/ /\ sessions[arg[c]] # None
          /\ sessionMu' = c
          /\ ses' = [ses EXCEPT ![c] = sessions[arg[c]]]
          /\ Goto(c, "exit")
          /\ UNCHANGED <<arg>>
    /\ UNCHANGED <<sessions, stale, sesVars, procVars>>

\* The ticker fires: "now" is taken once, under the lock.
SweepStart ==
    /\ pc[Sweeper] = "idle"
    /\ sessionMu = None
    /\ sessionMu' = Sweeper
    /\ stale' = {s \in Sessions : idleFor[s] > MaxIdle}
    /\ Goto(Sweeper, "sweep")
    /\ UNCHANGED <<sessions, arg, ses, sesVars, procVars>>

\* The loop reaches an entry whose lastUsed is still older than now - MaxIdle.
SweepNext ==
    /\ pc[Sweeper] = "sweep"
    /\ \E i \in Ids :
        /\ sessions[i] \in stale
        /\ arg' = [arg EXCEPT ![Sweeper] = i]
        /\ ses' = [ses EXCEPT ![Sweeper] = sessions[i]]
    /\ Goto(Sweeper, "exit")
    /\ UNCHANGED <<sessions, sessionMu, stale, sesVars, procVars>>

\* Mutant of SweepEnd: the sweep ends without Unlock.
SweepEndLocked ==
    /\ pc[Sweeper] = "sweep"
    /\ Bound \cap stale = {}
    /\ stale' = {}
    /\ Goto(Sweeper, "idle")
    /\ UNCHANGED <<sessions, sessionMu, arg, ses, sesVars, procVars>>

SweepEnd ==
    /\ pc[Sweeper] = "sweep"
    /\ Bound \cap stale = {}
    /\ sessionMu' = None
    /\ stale' = {}
    /\ Goto(Sweeper, "idle")
    /\ UNCHANGED <<sessions, arg, ses, sesVars, procVars>>

\* The "exit" line, its error ignored; it blocks like any other write.
CleanupExit(a) ==
    /\ pc[a] = "exit"
    /\ ~Stalled(ses[a])
    /\ inq' = IF Broken(ses[a]) THEN inq ELSE [inq EXCEPT ![ses[a]] = @ + 1]
    /\ Goto(a, "close")
    /\ UNCHANGED <<sessions, sessionMu, arg, ses, stale, sesVars, proc, pid, termed>>

\* Mutant of CleanupClose: the pipes stay open.
CleanupCloseSkipped(a) ==
    /\ pc[a] = "close"
    /\ Goto(a, "kill")
    /\ UNCHANGED <<sessions, sessionMu, arg, ses, stale, sesVars, procVars>>

CleanupClose(a) ==
    /\ pc[a] = "close"
    /\ closed' = [closed EXCEPT ![ses[a]] = TRUE]
    /\ Goto(a, "kill")
    /\ UNCHANGED <<sessions, sessionMu, arg, ses, stale, mu, idleFor, cancelled, procVars>>

\* Mutant of CleanupKill: the group is the server's, which all debuggers share.
CleanupKillShared(a) ==
    /\ pc[a] = "kill"
    /\ termed' = [t \in Sessions |-> termed[t] \/ proc[t] = "running"]
    /\ Goto(a, "finish")
    /\ UNCHANGED <<sessions, sessionMu, arg, ses, stale, sesVars, proc, pid, inq>>

\* kill(-pgid, SIGTERM) reaches the group that has that number now; when
\* there is none, neither SIGTERM nor SIGKILL does anything.
CleanupKill(a) ==
    /\ pc[a] = "kill"
    /\ termed' = [t \in Sessions |->
                    termed[t] \/ (proc[t] = "running" /\ pid[t] = pid[ses[a]])]
    /\ Goto(a, "finish")
    /\ UNCHANGED <<sessions, sessionMu, arg, ses, stale, sesVars, proc, pid, inq>>

\* Mutant of CleanupFinish: a disconnect does not delete the entry.
CleanupFinishKeeps(a) ==
    /\ pc[a] = "finish" /\ a # Sweeper
    /\ cancelled' = [cancelled EXCEPT ![ses[a]] = TRUE]
    /\ sessionMu' = None
    /\ Return(a)
    /\ UNCHANGED <<sessions, stale, mu, idleFor, closed, procVars>>

\* ctxCancel() and delete(); a disconnect then unlocks and returns, the sweep
\* goes on with the next entry.
CleanupFinish(a) ==
    /\ pc[a] = "finish"
    /\ cancelled' = [cancelled EXCEPT ![ses[a]] = TRUE]
    /\ sessions' = [sessions EXCEPT ![arg[a]] = None]
    /\ \/ /\ a = Sweeper
          /\ Goto(a, "sweep")
          /\ arg' = [arg EXCEPT ![a] = None]
          /\ ses' = [ses EXCEPT ![a] = None]
          /\ UNCHANGED <<sessionMu>>
       \/ /\ a # Sweeper
          /\ sessionMu' = None
          /\ Return(a)
    /\ UNCHANGED <<stale, mu, idleFor, closed, procVars>>

-----------------------------------------------------------------------------
(* dlv, the kernel and the clock *)

DlvReads(s) ==
    /\ proc[s] = "running"
    /\ inq[s] > 0
    /\ inq' = [inq EXCEPT ![s] = @ - 1]
    /\ UNCHANGED <<toolVars, sesVars, proc, pid, termed>>

\* dlv ends: it could not connect, its target ended, "exit", EOF, SIGTERM ...
DlvExits(s) ==
    /\ proc[s] = "running"
    /\ proc' = [proc EXCEPT ![s] = "zombie"]
    /\ inq' = [inq EXCEPT ![s] = 0]
    /\ UNCHANGED <<toolVars, sesVars, pid, termed>>

\* exec.CommandContext kills the process once its context is cancelled.
ContextKills(s) == cancelled[s] /\ DlvExits(s)

\* Mutant of Reap: the reaper gives up when the context is cancelled.
ReapUncancelled(s) ==
    /\ proc[s] = "zombie" /\ ~cancelled[s]
    /\ proc' = [proc EXCEPT ![s] = "reaped"]
    /\ closed' = [closed EXCEPT ![s] = TRUE]
    /\ UNCHANGED <<toolVars, mu, idleFor, cancelled, pid, termed, inq>>

\* The reaper's cmd.Wait() collects the process and closes the parent's pipes.
Reap(s) ==
    /\ proc[s] = "zombie"
    /\ proc' = [proc EXCEPT ![s] = "reaped"]
    /\ closed' = [closed EXCEPT ![s] = TRUE]
    /\ UNCHANGED <<toolVars, mu, idleFor, cancelled, pid, termed, inq>>

\* A tick is minutes long: the bounded waits (the 500ms startup, the 5s reply,
\* the 100ms before the close) end within it; a blocked write need not.
Tick ==
    /\ \A a \in Agents : pc[a] \notin {"settle", "wait", "close"}
    /\ idleFor' = [s \in Sessions |->
                     IF idleFor[s] > MaxIdle THEN idleFor[s] ELSE idleFor[s] + 1]
    /\ UNCHANGED <<toolVars, mu, closed, cancelled, procVars>>

-----------------------------------------------------------------------------

Request(c) == \E op \in {"connect", "disconnect", "lookup"}, i \in Ids : Invoke(c, op, i)

\* The steps that wait for sessionMu or session.mu.
Locking(c) == ConnectCheck(c) \/ CommandLookup(c) \/ CommandAcquire(c) \/ DisconnectCheck(c)

Handling(c) ==
    \/ ConnectStartFails(c) \/ ConnectStart(c) \/ ConnectPublish(c)
    \/ CommandWrite(c) \/ CommandWriteFails(c) \/ CommandDone(c)

Cleanup(a) == CleanupExit(a) \/ CleanupClose(a) \/ CleanupKill(a) \/ CleanupFinish(a)

Next ==
    \/ \E c \in Calls : Request(c) \/ Locking(c) \/ Handling(c)
    \/ SweepStart \/ SweepNext \/ SweepEnd
    \/ \E a \in Agents : Cleanup(a)
    \/ \E s \in Sessions : DlvReads(s) \/ DlvExits(s) \/ Reap(s)
    \/ Tick

Spec == Init /\ [][Next]_vars

\* Go's mutexes hand over to the oldest waiter, so a goroutine that waits for
\* one gets it if it keeps becoming free (SF); every other step of the tool
\* runs when it can (WF), and so do the kernel's kill and wait and the clock.
\* Nothing is assumed of clients, nor of dlv: it may never read its stdin.
Fairness ==
    /\ \A c \in Calls : SF_vars(Locking(c)) /\ WF_vars(Handling(c))
    /\ SF_vars(SweepStart) /\ WF_vars(SweepNext \/ SweepEnd)
    /\ \A a \in Agents : WF_vars(Cleanup(a))
    /\ \A s \in Sessions : WF_vars(ContextKills(s)) /\ WF_vars(Reap(s))
    /\ WF_vars(Tick)

FairSpec == Spec /\ Fairness

-----------------------------------------------------------------------------
(* Properties *)

\* No debugger is leaked: a running dlv is in the table, or in the hands of
\* the goroutine that is starting it, or its context has been cancelled
\* (handleConnect's check and insert under one lock; delete only after
\* cleanupSession).
NoLostDebugger ==
    \A s \in Sessions : proc[s] = "running" =>
        s \in Bound \/ cancelled[s] \/ Held(s)

\* A session that a command can find and that nobody is cleaning up is intact:
\* its context is live, its pipes are open unless dlv itself has ended, and no
\* other id leads to it (delete and cleanupSession are one critical section).
TableIntact ==
    \A i \in Ids : LET s == sessions[i] IN
        s # None /\ ~BeingCleaned(s) =>
            /\ ~cancelled[s]
            /\ closed[s] => proc[s] = "reaped"
            /\ \A j \in Ids : sessions[j] = s => j = i

\* A command that looked its session up before a disconnect or a sweep and
\* runs after it is never delivered: only a session still in the table takes
\* input (cleanupSession closes stdin before the entry is deleted).
DeliveredToBound ==
    [][\A s \in Sessions : inq'[s] > inq[s] => s \in Bound]_vars

\* A cleanup terminates the debugger of another session only if its own has been
\* collected before and the other has its pid: until then the number is kept, for
\* the process runs in a group of its own and nobody but the reaper waits for it.
StraySignalOnlyByReuse ==
    [][\A s \in Sessions : termed'[s] /\ ~termed[s] =>
            \E a \in Agents : pc[a] = "kill" /\ (ses[a] = s \/ proc[ses[a]] = "reaped")]_vars

\* The table behaves like SessionRegistry: the session that the holder of
\* sessionMu is starting or cleaning up is the registry's busy one.
BusySession ==
    IF sessionMu # None /\ pc[sessionMu] \in CleanupPC \cup {"settle"}
    THEN ses[sessionMu] ELSE None
Registry == INSTANCE SessionRegistry WITH
    Capacity <- StdinCap, table <- sessions, busy <- BusySession, input <- inq
ImplementsRegistry == Registry!Spec

\* A session's debugger stops reading with its stdin pipe full.
SomeStalled == \E s \in Sessions : Stalled(s)

\* Every tool call returns, and the sweep ends, unless a debugger stops reading
\* its stdin for ever: the tool waits for nothing else without a bound.
CallsReturnUnlessStalled ==
    \A a \in Agents : []<>(pc[a] = "idle") \/ <>[]SomeStalled

\* Once cleanupSession has cancelled the context, dlv is killed and collected,
\* even one that ignores the exit line and SIGTERM ("prevents zombie processes").
CleanedDebuggerReaped ==
    \A s \in Sessions : cancelled[s] ~> proc[s] = "reaped"

\* When clients fall silent the sweeper empties the table, unless a debugger
\* that does not read its stdin stops the sweep.
AbandonedSessionsSwept ==
    <>[](\A c \in Calls : pc[c] = "idle") => <>[](Bound = {} \/ SomeStalled)

-----------------------------------------------------------------------------
(* What comments claim and the code does not do *)

\* "removes sessions that haven't been used for 30 minutes": the session being
\* deleted by the sweep has not been used in that time.
SweepRemovesOnlyIdle ==
    pc[Sweeper] = "finish" => idleFor[ses[Sweeper]] > MaxIdle

\* "cleanupSession properly terminates a Delve session": the cleanup of a
\* session ends.
CleanupEnds == \A a \in Agents : pc[a] \in CleanupPC ~> pc[a] \notin CleanupPC

=============================================================================
