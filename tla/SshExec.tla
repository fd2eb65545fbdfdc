------------------------------ MODULE SshExec ------------------------------
(***************************************************************************)
(* The sshexec tool (pkg/tools/sshexec/sshexec.go) with pkg/connectors/ssh *)
(* on one remote host.  Execute mode copies a binary to the host, makes it *)
(* executable, runs it, in the background or not, and lets the remote      *)
(* shell remove it; kill mode signals a process by number or by name.      *)
(* Each step is an ssh or scp command of its own, which can fail before or *)
(* after it has had its effect.  Calls run concurrently and may name the   *)
(* same remote path, for which the default is /tmp/<base name>.  Each is   *)
(* made once and its binary is its own, so a binary is named by its call.  *)
(***************************************************************************)
EXTENDS Naturals, FiniteSets

CONSTANTS
    Calls,    \* calls in execute mode
    Kills,    \* calls in kill mode
    Paths,    \* remote paths, each with a base name of its own
    Pids,     \* process numbers of the host, which it gives out again
    Partial,  \* what a copy that broke off or was mixed with another leaves
    None

\* What a client kills by is a name, which pkill -x takes for an extended regular
\* expression that must match the whole of the first 15 characters of a process's name.
\* Which processes that hits is up to the host: a name is given by the remote paths
\* whose processes it hits, any number of them, and none if it is a longer name.
Names == [hits : SUBSET Paths]

Inputs == [path: Paths, keep: BOOLEAN, background: BOOLEAN]

ASSUME SshExecAssumption ==
    /\ None \notin Calls \cup Paths \cup Pids \cup {Partial} \cup Inputs \cup Names
    /\ Partial \notin Calls /\ Calls \cap (Paths \cup Names) = {}
    /\ IsFiniteSet(Calls) /\ Cardinality(Pids) >= Cardinality(Calls)

VARIABLES
    pc,        \* where the call is; at the end, what it returned
    input,     \* its arguments
    met,       \* history: calls that were at work on the same path meanwhile
    file,      \* remote path -> content
    exec,      \* remote path -> the file is executable
    remote,    \* where the remote shell of the call is
    pid,       \* number of the process it has forked for the binary
    ran,       \* the content that process has run
    kill,      \* where the call in kill mode is
    aim,       \* the call whose process it is to reach, or a name
    signalled  \* calls whose processes have been sent the signal

hostVars  == <<file, exec>>
shellVars == <<remote, pid, ran>>
killVars  == <<kill, aim, signalled>>
vars      == <<pc, input, met, hostVars, shellVars, killVars>>

Returned == {"error", "output", "ssh_exit"}

TypeOK ==
    /\ pc \in [Calls -> Returned \cup
                {"new", "copy", "copying", "chmod", "remove", "exec", "wait"}]
    /\ input \in [Calls -> Inputs \cup {None}]
    /\ met \in [Calls -> SUBSET Calls]
    /\ file \in [Paths -> Calls \cup {Partial, None}]
    /\ exec \in [Paths -> BOOLEAN]
    /\ remote \in [Calls -> {"none", "start", "running", "rm", "ended"}]
    /\ pid \in [Calls -> Pids \cup {None}]
    /\ ran \in [Calls -> Calls \cup {Partial, None}]
    /\ kill \in [Kills -> {"new", "sent", "done"}]
    /\ aim \in [Kills -> Calls \cup Names \cup {None}]
    /\ signalled \subseteq Calls

Init ==
    /\ pc = [c \in Calls |-> "new"]
    /\ input = [c \in Calls |-> None]
    /\ met = [c \in Calls |-> {}]
    /\ file = [p \in Paths |-> None]
    /\ exec = [p \in Paths |-> FALSE]
    /\ remote = [c \in Calls |-> "none"]
    /\ pid = [c \in Calls |-> None]
    /\ ran = [c \in Calls |-> None]
    /\ kill = [k \in Kills |-> "new"]
    /\ aim = [k \in Kills |-> None]
    /\ signalled = {}

-----------------------------------------------------------------------------

Path(c) == input[c].path

Step(c, from, to) == pc[c] = from /\ pc' = [pc EXCEPT ![c] = to]
ShellStep(c, from, to) == remote[c] = from /\ remote' = [remote EXCEPT ![c] = to]

\* Mutant of After: KeepBinary is ignored.
AfterRemoves(c) == IF input[c].background THEN "ended" ELSE "rm"

\* What the remote shell does after the binary: "; rm -f", unless it is kept or
\* runs in the background.
After(c) == IF input[c].keep \/ input[c].background THEN "ended" ELSE "rm"

\* The call, or the remote shell it has left behind, can still touch its path.
AtWork(c) ==
    \/ pc[c] \notin {"new"} \cup Returned
    \/ remote[c] \in {"start", "rm"}
    \/ remote[c] = "running" /\ After(c) = "rm"

\* Its process exists: the number is in use.
Alive(c) == remote[c] \in {"start", "running"}

Removed(p) ==
    /\ file' = [file EXCEPT ![p] = None]
    /\ exec' = [exec EXCEPT ![p] = FALSE]

-----------------------------------------------------------------------------
(* Execute mode *)

Invoke(c, i) ==
    /\ Step(c, "new", "copy")
    /\ input' = [input EXCEPT ![c] = i]
    /\ LET others == {d \in Calls \ {c} : AtWork(d) /\ Path(d) = i.path} IN
        met' = [d \in Calls |-> IF d = c THEN others
                                ELSE IF d \in others THEN met[d] \cup {c} ELSE met[d]]
    /\ UNCHANGED <<hostVars, shellVars, killVars>>

\* Mutant of CopyStarts: a file that exists is not replaced.
CopyStartsOnce(c) ==
    /\ Step(c, "copy", "copying")
    /\ file' = [file EXCEPT ![Path(c)] = IF @ = None THEN c ELSE @]
    /\ UNCHANGED <<exec, shellVars>>

\* scp truncates a file that exists and keeps its mode; a new file gets the
\* local mode.
CopyStarts(c) ==
    /\ Step(c, "copy", "copying")
    /\ file' = [file EXCEPT ![Path(c)] = c]
    /\ \E x \in BOOLEAN :
        exec' = [exec EXCEPT ![Path(c)] = IF file[Path(c)] = None THEN x ELSE @]
    /\ UNCHANGED shellVars

\* Mutant of CopyEnds: the name is written instead of the content.
CopyEndsName(c) ==
    /\ Step(c, "copying", "chmod")
    /\ file' = [file EXCEPT ![Path(c)] = Path(c)]
    /\ UNCHANGED <<exec, shellVars>>

\* Two copies into one file may mix; what was removed meanwhile stays removed.
CopyEnds(c) ==
    /\ Step(c, "copying", "chmod")
    /\ \/ UNCHANGED file
       \/ /\ file[Path(c)] \notin {c, None}
          /\ file' = [file EXCEPT ![Path(c)] = Partial]
    /\ UNCHANGED <<exec, shellVars>>

\* The local binary is missing, or scp fails: nothing is removed.
CopyFails(c) ==
    /\ \/ Step(c, "copy", "error") /\ UNCHANGED file
       \/ /\ Step(c, "copying", "error")
          /\ \/ file[Path(c)] # c /\ UNCHANGED file
             \/ file[Path(c)] # None /\ file' = [file EXCEPT ![Path(c)] = Partial]
    /\ UNCHANGED <<exec, shellVars>>

MakeExecutable(c) ==
    /\ Step(c, "chmod", "exec")
    /\ file[Path(c)] # None
    /\ exec' = [exec EXCEPT ![Path(c)] = TRUE]
    /\ UNCHANGED <<file, shellVars>>

\* No such file, or the connection fails, perhaps after chmod has worked.
MakeExecutableFails(c) ==
    /\ Step(c, "chmod", "remove")
    /\ \/ UNCHANGED exec
       \/ file[Path(c)] # None /\ exec' = [exec EXCEPT ![Path(c)] = TRUE]
    /\ UNCHANGED <<file, shellVars>>

\* Mutant of RemoveOnError: the handler does not return.
RemoveAndGoOn(c) == Step(c, "remove", "exec") /\ Removed(Path(c)) /\ UNCHANGED shellVars

\* RemoveFile, kept binary or not; its error is ignored.
RemoveOnError(c) ==
    /\ Step(c, "remove", "error")
    /\ Removed(Path(c)) \/ UNCHANGED hostVars
    /\ UNCHANGED shellVars

\* ssh reaches the host and its shell forks a process for the command.
Exec(c) ==
    /\ Step(c, "exec", "wait")
    /\ ShellStep(c, "none", "start")
    /\ \E p \in Pids \ {pid[d] : d \in {e \in Calls : Alive(e)}} :
        pid' = [pid EXCEPT ![c] = p]
    /\ UNCHANGED <<hostVars, ran>>

\* ssh cannot be started, or the call's context is done already: an error.
ExecFails(c) == Step(c, "exec", "error") /\ UNCHANGED <<hostVars, shellVars>>

\* ssh does not reach the host, or loses it, and exits with 255; or it is killed
\* with the call's context and has -1.  Either is returned as the exit code of
\* the remote command, which goes on.
Disconnected(c) ==
    /\ Step(c, "exec", "ssh_exit") \/ Step(c, "wait", "ssh_exit")
    /\ UNCHANGED <<hostVars, shellVars>>

\* The shell has run the command; with "&" it only prints the number.
ExecReturns(c) ==
    /\ Step(c, "wait", "output")
    /\ remote[c] = "ended" \/ (input[c].background /\ Alive(c))
    /\ UNCHANGED <<hostVars, shellVars>>

-----------------------------------------------------------------------------
(* The remote shell.  A file that somebody is writing cannot be executed. *)

CopiedTo(p) == \E d \in Calls : pc[d] = "copying" /\ Path(d) = p

RemoteStart(c) ==
    /\ ShellStep(c, "start", "running")
    /\ file[Path(c)] # None /\ exec[Path(c)]
    /\ \A d \in Calls : file[Path(c)] = d => pc[d] # "copying"
    /\ ran' = [ran EXCEPT ![c] = file[Path(c)]]
    /\ UNCHANGED <<pc, hostVars, pid>>

\* The forked process cannot run the file, or is signalled before it does.
RemoteStartFails(c) ==
    /\ ShellStep(c, "start", After(c))
    /\ file[Path(c)] = None \/ ~exec[Path(c)] \/ CopiedTo(Path(c)) \/ c \in signalled
    /\ UNCHANGED <<pc, hostVars, pid, ran>>

\* The binary ends, by itself or by a signal.
RemoteExit(c) ==
    /\ ShellStep(c, "running", After(c))
    /\ UNCHANGED <<pc, hostVars, pid, ran>>

RemoteRemove(c) ==
    /\ ShellStep(c, "rm", "ended")
    /\ Removed(Path(c))
    /\ UNCHANGED <<pc, pid, ran>>

-----------------------------------------------------------------------------
(* Kill mode *)

\* A client kills what call c has started, by the number that the reply of a
\* background execution shows or ps does, or whatever a name hits.
InvokeKill(k, target) ==
    /\ kill[k] = "new"
    /\ target \in Calls => pid[target] # None
    /\ kill' = [kill EXCEPT ![k] = "sent"]
    /\ aim' = [aim EXCEPT ![k] = target]
    /\ UNCHANGED <<pc, input, met, hostVars, shellVars, signalled>>

\* Mutant of Targets: pkill -f, which looks at command lines: that of a shell that is
\* yet to run the binary has the name in it, too.
TargetsCommandLine(k) ==
    {c \in Calls : Alive(c) /\ IF aim[k] \in Calls THEN pid[c] = pid[aim[k]]
                                                  ELSE Path(c) \in aim[k].hits}

\* Whom "kill -SIGNAL pid" and "pkill -SIGNAL -x name" reach: a process has its
\* name once it runs the binary.
Targets(k) ==
    {c \in Calls : IF aim[k] \in Calls THEN Alive(c) /\ pid[c] = pid[aim[k]]
                                      ELSE remote[c] = "running" /\ Path(c) \in aim[k].hits}

\* The remote kill, or pkill, and the reply; "||" makes its exit code 0 when there
\* is nothing to kill.
KillArrives(k) ==
    /\ kill[k] = "sent"
    /\ signalled' = signalled \cup Targets(k)
    /\ kill' = [kill EXCEPT ![k] = "done"]
    /\ UNCHANGED <<pc, input, met, hostVars, shellVars, aim>>

\* ssh fails before the host has done anything.
KillFails(k) ==
    /\ kill[k] = "sent"
    /\ kill' = [kill EXCEPT ![k] = "done"]
    /\ UNCHANGED <<pc, input, met, hostVars, shellVars, aim, signalled>>

-----------------------------------------------------------------------------

Handler(c) ==
    \/ CopyStarts(c) \/ CopyEnds(c) \/ CopyFails(c)
    \/ MakeExecutable(c) \/ MakeExecutableFails(c) \/ RemoveOnError(c)
    \/ Exec(c) \/ ExecFails(c) \/ Disconnected(c) \/ ExecReturns(c)

Remote(c) == RemoteStart(c) \/ RemoteStartFails(c) \/ RemoteExit(c) \/ RemoteRemove(c)

Next ==
    \/ \E c \in Calls :
        \/ \E i \in Inputs : Invoke(c, i)
        \/ (Handler(c) \/ Remote(c)) /\ UNCHANGED <<input, met, killVars>>
    \/ \E k \in Kills :
        \/ \E target \in Calls \cup Names : InvokeKill(k, target)
        \/ KillArrives(k) \/ KillFails(k)

Spec == Init /\ [][Next]_vars

-----------------------------------------------------------------------------
(* Properties *)

Alone(c) == met[c] = {}

\* A call whose path no other call, nor the remote shell of an earlier call,
\* works on at the same time runs the binary it was given.
AloneRunsOwn ==
    \A c \in Calls : Alone(c) /\ ran[c] # None => ran[c] = c

\* ... and if it returns output then it has run it, or is about to in the
\* background, or was killed before, and the binary is gone, or still there, as
\* the arguments ask: a kill in the foreground does not leave it behind.
AloneLeavesAsAsked ==
    \A c \in Calls :
        pc[c] = "output" /\ Alone(c)
            /\ (\A d \in Calls \ {c} : input[d] # None => Path(d) # Path(c)) =>
                /\ ran[c] = c \/ remote[c] = "start" \/ c \in signalled
                /\ file[Path(c)] = IF input[c].keep \/ input[c].background
                                   THEN c ELSE None

\* Nothing is removed under a binary that is still to run, by the call itself:
\* only another call at work on the path can make its shell find no file.
FileWaitsForShell ==
    \A c \in Calls :
        Alone(c) /\ (pc[c] = "exec" \/ remote[c] = "start") => file[Path(c)] # None

\* A kill by number ends the process it is aimed at and nobody else's, unless that
\* process has ended before and its number is another's by then.  A kill by name ends
\* only what has come to run a file where the name looks for it, for a call alone on its
\* path the binary it was given: never a call that is still on its way there.
KillGoesWhereAimed ==
    [][\A c \in signalled' \ signalled :
            \E k \in Kills :
                /\ kill[k] = "sent" /\ kill'[k] = "done"
                /\ \/ aim[k] = c
                   \/ aim[k] \in Calls /\ ~Alive(aim[k]) /\ pid[c] = pid[aim[k]]
                   \/ aim[k] \notin Calls /\ Path(c) \in aim[k].hits /\ ran[c] # None
                      /\ (Alone(c) => ran[c] = c)]_vars

=============================================================================
