---------------------------- MODULE SshExec_proofs ----------------------------
(***************************************************************************)
(* Proofs about the sshexec tool, for any number of calls, kills, paths    *)
(* and process numbers: what a call promises as long as nobody else works  *)
(* on its path, and whom a kill reaches.                                   *)
(***************************************************************************)
EXTENDS SshExec, TLAPS

-----------------------------------------------------------------------------
(* The inductive invariant *)

\* A call has its arguments from the start, a remote shell once it has asked for one;
\* two processes of the host never have one number at a time.
PlaceInv ==
    /\ \A c \in Calls :
        /\ pc[c] = "new" <=> input[c] = None
        /\ pc[c] \in {"new", "copy", "copying", "chmod", "remove", "exec"} => remote[c] = "none"
        /\ pc[c] \in {"wait", "output"} => remote[c] # "none"
        /\ pc[c] = "output" /\ ~input[c].background => remote[c] = "ended"
        /\ remote[c] \in {"none", "start"} => ran[c] = None
        /\ remote[c] = "running" => ran[c] # None
        /\ remote[c] = "rm" => After(c) = "rm"
        /\ Alive(c) => pid[c] \in Pids
    /\ \A c, d \in Calls : Alive(c) /\ Alive(d) /\ pid[c] = pid[d] => c = d

\* Two calls at work on one path at a time have met.
MetInv == \A c, d \in Calls :
    c # d /\ AtWork(c) /\ AtWork(d) /\ Path(c) = Path(d) => d \in met[c]

\* A call that has met nobody finds its own binary at its path, executable once chmod
\* has succeeded, until the shell has started it ...
OwnInv == \A c \in Calls : Alone(c) =>
    /\ pc[c] \in {"copying", "chmod", "exec"} \/ remote[c] = "start" => file[Path(c)] = c
    /\ pc[c] = "exec" \/ remote[c] = "start" => exec[Path(c)]

\* ... so that only a signal can keep it from running.
RanInv == \A c \in Calls : Alone(c) =>
    /\ remote[c] \in {"running", "rm", "ended"} => ran[c] = c \/ c \in signalled
    /\ ran[c] \in {c, None}

\* A path that one call alone has named holds its binary, or no longer, as it asked.
Sole(c) == \A d \in Calls \ {c} : input[d] # None => Path(d) # Path(c)
LeaveInv == \A c \in Calls : remote[c] # "none" /\ Alone(c) /\ Sole(c) =>
    IF After(c) = "ended" THEN file[Path(c)] = c
                          ELSE remote[c] = "ended" => file[Path(c)] = None

IInv == TypeOK /\ PlaceInv /\ MetInv /\ OwnInv /\ RanInv /\ LeaveInv

-----------------------------------------------------------------------------
(* Types and places *)

\* What the steps of a call and of its shell leave alone.
Same == UNCHANGED <<input, met, killVars>>

\* Every step keeps the variables in their ranges ...
LEMMA TypeStep ==
    ASSUME TypeOK, PlaceInv, [Next]_vars
    PROVE  TypeOK'
<1> USE SshExecAssumption DEF TypeOK, Inputs, Returned, Step, ShellStep, Same, hostVars, shellVars,
       killVars
<1>1. ASSUME NEW c \in Calls, input[c] # None PROVE Path(c) \in Paths
  BY <1>1 DEF Path
<1>2. ASSUME NEW c \in Calls, CopyStarts(c), Same PROVE TypeOK'
  BY <1>1, <1>2 DEF CopyStarts, PlaceInv
<1>3. ASSUME NEW c \in Calls, CopyEnds(c), Same PROVE TypeOK'
  BY <1>1, <1>3 DEF CopyEnds, PlaceInv
<1>4. ASSUME NEW c \in Calls, CopyFails(c), Same PROVE TypeOK'
  <2>1. Path(c) \in Paths
    BY <1>1, <1>4 DEF CopyFails, PlaceInv
  <2>2. UNCHANGED file \/ file' = [file EXCEPT ![Path(c)] = Partial]
    BY <1>4 DEF CopyFails
  <2>3. pc' = [pc EXCEPT ![c] = "error"] /\ UNCHANGED <<exec, shellVars>>
    BY <1>4 DEF CopyFails
  <2>. QED
    BY <1>4, <2>1, <2>2, <2>3
<1>5. ASSUME NEW c \in Calls, MakeExecutable(c), Same PROVE TypeOK'
  BY <1>1, <1>5 DEF MakeExecutable, PlaceInv
<1>6. ASSUME NEW c \in Calls, MakeExecutableFails(c), Same PROVE TypeOK'
  BY <1>1, <1>6 DEF MakeExecutableFails, PlaceInv
<1>7. ASSUME NEW c \in Calls, RemoveOnError(c), Same PROVE TypeOK'
  BY <1>1, <1>7 DEF RemoveOnError, PlaceInv, Removed
<1>8. ASSUME NEW c \in Calls, Exec(c), Same PROVE TypeOK'
  BY <1>1, <1>8 DEF Exec
<1>9. ASSUME NEW c \in Calls, ExecFails(c), Same PROVE TypeOK'
  BY <1>1, <1>9 DEF ExecFails
<1>10. ASSUME NEW c \in Calls, Disconnected(c), Same PROVE TypeOK'
  BY <1>1, <1>10 DEF Disconnected
<1>11. ASSUME NEW c \in Calls, ExecReturns(c), Same PROVE TypeOK'
  BY <1>1, <1>11 DEF ExecReturns
<1>12. ASSUME NEW c \in Calls, RemoteStart(c), Same PROVE TypeOK'
  BY <1>1, <1>12 DEF RemoteStart, PlaceInv
<1>13. ASSUME NEW c \in Calls, RemoteStartFails(c), Same PROVE TypeOK'
  BY <1>1, <1>13 DEF RemoteStartFails, After
<1>14. ASSUME NEW c \in Calls, RemoteExit(c), Same PROVE TypeOK'
  BY <1>1, <1>14 DEF RemoteExit, After
<1>15. ASSUME NEW c \in Calls, RemoteRemove(c), Same PROVE TypeOK'
  BY <1>1, <1>15 DEF RemoteRemove, PlaceInv, Removed
<1>16. ASSUME NEW c \in Calls, NEW i \in Inputs, Invoke(c, i) PROVE TypeOK'
  BY <1>16 DEF Invoke
<1>17. ASSUME NEW k \in Kills, NEW target \in Calls \cup Names, InvokeKill(k, target)
       PROVE  TypeOK'
  BY <1>17 DEF InvokeKill
<1>18. ASSUME NEW k \in Kills, KillArrives(k) \/ KillFails(k) PROVE TypeOK'
  BY <1>18 DEF KillArrives, KillFails, Targets
<1>19. CASE UNCHANGED vars
  BY <1>19 DEF vars
<1> HIDE DEF TypeOK, PlaceInv, killVars
<1>. QED
  BY <1>2, <1>3, <1>4, <1>5, <1>6, <1>7, <1>8, <1>9, <1>10, <1>11, <1>12, <1>13, <1>14, <1>15,
     <1>16, <1>17, <1>18, <1>19
  DEF Next, Handler, Remote

\* ... and every call where its variables say.
LEMMA PlaceStep ==
    ASSUME TypeOK, PlaceInv, [Next]_vars
    PROVE  PlaceInv'
<1> USE SshExecAssumption DEF TypeOK, Inputs, Returned, PlaceInv, Alive, After, Step, ShellStep, Same,
       hostVars, shellVars, killVars
<1>1. ASSUME NEW c \in Calls, CopyStarts(c), Same PROVE PlaceInv'
  BY <1>1 DEF CopyStarts
<1>2. ASSUME NEW c \in Calls, CopyEnds(c), Same PROVE PlaceInv'
  BY <1>2 DEF CopyEnds
<1>3. ASSUME NEW c \in Calls, CopyFails(c), Same PROVE PlaceInv'
  BY <1>3 DEF CopyFails
<1>4. ASSUME NEW c \in Calls, MakeExecutable(c), Same PROVE PlaceInv'
  BY <1>4 DEF MakeExecutable
<1>5. ASSUME NEW c \in Calls, MakeExecutableFails(c), Same PROVE PlaceInv'
  BY <1>5 DEF MakeExecutableFails
<1>6. ASSUME NEW c \in Calls, RemoveOnError(c), Same PROVE PlaceInv'
  BY <1>6 DEF RemoveOnError
<1>7. ASSUME NEW c \in Calls, Exec(c), Same PROVE PlaceInv'
  BY <1>7 DEF Exec
<1>8. ASSUME NEW c \in Calls, ExecFails(c), Same PROVE PlaceInv'
  BY <1>8 DEF ExecFails
<1>9. ASSUME NEW c \in Calls, Disconnected(c), Same PROVE PlaceInv'
  BY <1>9 DEF Disconnected
<1>10. ASSUME NEW c \in Calls, ExecReturns(c), Same PROVE PlaceInv'
  BY <1>10 DEF ExecReturns
<1>11. ASSUME NEW c \in Calls, RemoteStart(c), Same PROVE PlaceInv'
  BY <1>11 DEF RemoteStart
<1>12. ASSUME NEW c \in Calls, RemoteStartFails(c), Same PROVE PlaceInv'
  BY <1>12 DEF RemoteStartFails
<1>13. ASSUME NEW c \in Calls, RemoteExit(c), Same PROVE PlaceInv'
  BY <1>13 DEF RemoteExit
<1>14. ASSUME NEW c \in Calls, RemoteRemove(c), Same PROVE PlaceInv'
  BY <1>14 DEF RemoteRemove
<1>15. ASSUME NEW c \in Calls, NEW i \in Inputs, Invoke(c, i) PROVE PlaceInv'
  BY <1>15 DEF Invoke
<1>16. ASSUME NEW k \in Kills, NEW target \in Calls \cup Names, InvokeKill(k, target)
       PROVE  PlaceInv'
  BY <1>16 DEF InvokeKill
<1>17. ASSUME NEW k \in Kills, KillArrives(k) \/ KillFails(k) PROVE PlaceInv'
  BY <1>17 DEF KillArrives, KillFails, Targets
<1>18. CASE UNCHANGED vars
  BY <1>18 DEF vars
<1> HIDE DEF TypeOK, PlaceInv, killVars
<1>. QED
  BY <1>1, <1>2, <1>3, <1>4, <1>5, <1>6, <1>7, <1>8, <1>9, <1>10, <1>11, <1>12, <1>13, <1>14,
     <1>15, <1>16, <1>17, <1>18
  DEF Next, Handler, Remote

-----------------------------------------------------------------------------
(* Calls that meet *)

\* A call is at work from its first step to the last that touches its path; who
\* begins beside it is noted by both.
LEMMA MetStep ==
    ASSUME TypeOK, PlaceInv, MetInv, [Next]_vars
    PROVE  MetInv'
<1>1. ASSUME NEW c \in Calls, NEW i \in Inputs, Invoke(c, i) PROVE MetInv'
  <2> DEFINE others == {d \in Calls \ {c} : AtWork(d) /\ Path(d) = i.path}
  <2>1. ASSUME NEW d \in Calls, d # c
        PROVE  /\ AtWork(d)' => AtWork(d)
               /\ Path(d)' = Path(d) /\ Path(c)' = i.path
               /\ met'[d] = IF d \in others THEN met[d] \cup {c} ELSE met[d]
    BY <1>1, <2>1 DEF TypeOK, Invoke, Step, AtWork, Path, After, shellVars
  <2>2. met'[c] = others
    BY <1>1 DEF Invoke
  <2> SUFFICES ASSUME NEW d \in Calls, NEW e \in Calls, d # e, AtWork(d)', AtWork(e)',
                      Path(d)' = Path(e)'
               PROVE  e \in met'[d]
    BY DEF MetInv
  <2>3. CASE d = c
    <3>1. e \in others
      BY <2>1, <2>3
    <3>. QED
      BY <2>2, <2>3, <3>1
  <2>4. CASE e = c
    <3>1. d \in others
      BY <2>1, <2>4
    <3>. QED
      BY <2>1, <2>4, <3>1
  <2>5. CASE d # c /\ e # c
    <3>1. e \in met[d]
      BY <2>1, <2>5 DEF MetInv
    <3>. QED
      BY <2>1, <2>5, <3>1
  <2>. QED
    BY <2>3, <2>4, <2>5
<1>2. ASSUME NEW d \in Calls, Handler(d) \/ Remote(d), Same,
             NEW c \in Calls, AtWork(c)'
      PROVE  AtWork(c)
  <2> USE <1>2 DEF TypeOK, PlaceInv, AtWork, After, Alive, Returned, Step, ShellStep, shellVars, Same
  <2>1. CASE c # d
    BY <2>1
    DEF Handler, CopyStarts, CopyEnds, CopyFails, MakeExecutable, MakeExecutableFails, RemoveOnError,
        Exec, ExecFails, Disconnected, ExecReturns, Remote, RemoteStart, RemoteStartFails, RemoteExit,
        RemoteRemove
  <2>2. CASE Handler(c)
    <3>1. pc[c] \notin {"new"} \cup Returned
      BY <2>2
      DEF Handler, CopyStarts, CopyEnds, CopyFails, MakeExecutable, MakeExecutableFails, RemoveOnError,
          Exec, ExecFails, Disconnected, ExecReturns
    <3>. QED
      BY <3>1
  <2>3. CASE Remote(c)
    BY <2>3 DEF Remote, RemoteStart, RemoteStartFails, RemoteExit, RemoteRemove
  <2>. QED
    BY <2>1, <2>2, <2>3
<1>3. ASSUME NEW d \in Calls, Handler(d) \/ Remote(d), Same PROVE MetInv'
  BY <1>2, <1>3 DEF MetInv, Same, Path
<1>4. CASE UNCHANGED <<pc, input, met, remote>>
  BY <1>4 DEF MetInv, AtWork, Path, After
<1>. QED
  BY <1>1, <1>3, <1>4
  DEF Next, Same, InvokeKill, KillArrives, KillFails, shellVars, vars

\* A step of a call, or of its shell, changes no path but its own, and only at work.
LEMMA Touches ==
    ASSUME TypeOK, NEW d \in Calls, Handler(d) \/ Remote(d)
    PROVE  \/ UNCHANGED <<file, exec>>
           \/ /\ AtWork(d)
              /\ \E x : file' = [file EXCEPT ![Path(d)] = x]
              /\ \E x : exec' = [exec EXCEPT ![Path(d)] = x]
<1> DEFINE Touched == /\ AtWork(d)
                      /\ \E x : file' = [file EXCEPT ![Path(d)] = x]
                      /\ \E x : exec' = [exec EXCEPT ![Path(d)] = x]
<1>1. file = [file EXCEPT ![Path(d)] = file[Path(d)]] /\ exec = [exec EXCEPT ![Path(d)] = exec[Path(d)]]
  BY DEF TypeOK
<1>2. ASSUME CopyStarts(d) \/ CopyEnds(d) \/ CopyFails(d) PROVE Touched
  <2>1. AtWork(d)
    BY <1>2 DEF CopyStarts, CopyEnds, CopyFails, Step, AtWork, Returned
  <2>2. CASE CopyStarts(d)
    BY <2>1, <2>2 DEF CopyStarts
  <2>3. CASE CopyEnds(d) \/ CopyFails(d)
    BY <1>1, <2>1, <2>3 DEF CopyEnds, CopyFails
  <2>. QED
    BY <1>2, <2>2, <2>3
<1>3. ASSUME MakeExecutable(d) \/ MakeExecutableFails(d) PROVE Touched
  BY <1>1, <1>3 DEF MakeExecutable, MakeExecutableFails, Step, AtWork, Returned
<1>4. ASSUME RemoveOnError(d) \/ RemoteRemove(d) PROVE Touched
  BY <1>1, <1>4 DEF RemoveOnError, RemoteRemove, Removed, Step, ShellStep, AtWork, Returned, hostVars
<1>5. ASSUME \/ Exec(d) \/ ExecFails(d) \/ Disconnected(d) \/ ExecReturns(d)
             \/ RemoteStart(d) \/ RemoteStartFails(d) \/ RemoteExit(d)
      PROVE  UNCHANGED <<file, exec>>
  BY <1>5
  DEF Exec, ExecFails, Disconnected, ExecReturns, RemoteStart, RemoteStartFails, RemoteExit, hostVars
<1>. QED
  BY <1>2, <1>3, <1>4, <1>5 DEF Handler, Remote

\* While a call is at work, alone, nothing happens to its path but by itself.
LEMMA Undisturbed ==
    ASSUME TypeOK, PlaceInv, MetInv, NEW c \in Calls, NEW d \in Calls, c # d, Alone(c), AtWork(c),
           Handler(d) \/ Remote(d)
    PROVE  file'[Path(c)] = file[Path(c)] /\ exec'[Path(c)] = exec[Path(c)]
<1>1. Path(c) \in Paths
  BY DEF TypeOK, PlaceInv, AtWork, Path, Inputs
<1>2. AtWork(d) => Path(d) # Path(c)
  BY DEF MetInv, Alone
<1>. QED
  BY <1>1, <1>2, Touches DEF TypeOK

-----------------------------------------------------------------------------
(* A call alone on its path *)

\* Its binary stays where it has been copied.
LEMMA OwnStep ==
    ASSUME TypeOK, PlaceInv, MetInv, OwnInv, [Next]_vars
    PROVE  OwnInv'
<1> USE SshExecAssumption DEF OwnInv, Alone
<1>1. ASSUME NEW d \in Calls, NEW i \in Inputs, Invoke(d, i) PROVE OwnInv'
  <2>1. ASSUME NEW c \in Calls, Alone(c)', c # d
        PROVE  Alone(c) /\ pc'[c] = pc[c] /\ Path(c)' = Path(c) /\ UNCHANGED <<hostVars, remote>>
    BY <1>1, <2>1 DEF TypeOK, Invoke, Step, Path, shellVars
  <2>2. pc'[d] = "copy" /\ remote'[d] = "none"
    BY <1>1 DEF TypeOK, PlaceInv, Invoke, Step, shellVars
  <2>. QED
    BY <2>1, <2>2 DEF hostVars
<1>2. ASSUME NEW c \in Calls, Alone(c), NEW d \in Calls, Handler(d) \/ Remote(d), Same
      PROVE  /\ pc'[c] \in {"copying", "chmod", "exec"} \/ remote'[c] = "start" => file'[Path(c)] = c
             /\ pc'[c] = "exec" \/ remote'[c] = "start" => exec'[Path(c)]
  <2> USE <1>2 DEF TypeOK, Step, ShellStep
  <2>0. pc[c] # "new" => Path(c) \in Paths
    BY DEF PlaceInv, Path, Inputs
  <2>1. CASE c # d
    <3>1. pc'[c] = pc[c] /\ remote'[c] = remote[c]
      BY <2>1
      DEF Handler, CopyStarts, CopyEnds, CopyFails, MakeExecutable, MakeExecutableFails, RemoveOnError,
          Exec, ExecFails, Disconnected, ExecReturns, Remote, RemoteStart, RemoteStartFails, RemoteExit,
          RemoteRemove, shellVars
    <3>2. pc[c] \in {"copying", "chmod", "exec"} \/ remote[c] = "start" => AtWork(c)
      BY DEF AtWork, Returned
    <3>. QED
      BY <2>1, <3>1, <3>2, Undisturbed
  <2>2. CASE CopyStarts(c)
    BY <2>0, <2>2 DEF CopyStarts, PlaceInv, shellVars
  <2>3. CASE CopyEnds(c) \/ CopyFails(c)
    BY <2>3 DEF CopyEnds, CopyFails, PlaceInv, shellVars
  <2>4. CASE MakeExecutable(c) \/ MakeExecutableFails(c) \/ RemoveOnError(c)
    BY <2>0, <2>4 DEF MakeExecutable, MakeExecutableFails, RemoveOnError, PlaceInv, shellVars
  <2>5. CASE Exec(c) \/ ExecFails(c) \/ Disconnected(c) \/ ExecReturns(c)
    BY <2>5 DEF Exec, ExecFails, Disconnected, ExecReturns, PlaceInv, hostVars, shellVars
  <2>6. CASE Remote(c)
    BY <2>6 DEF Remote, RemoteStart, RemoteStartFails, RemoteExit, RemoteRemove, After, PlaceInv, hostVars
  <2>. QED
    BY <2>1, <2>2, <2>3, <2>4, <2>5, <2>6 DEF Handler
<1>3. ASSUME NEW d \in Calls, Handler(d) \/ Remote(d), Same PROVE OwnInv'
  BY <1>2, <1>3 DEF Same, Path
<1>4. CASE UNCHANGED <<pc, input, met, hostVars, remote>>
  BY <1>4 DEF Path, hostVars
<1>. QED
  BY <1>1, <1>3, <1>4
  DEF Next, Same, InvokeKill, KillArrives, KillFails, shellVars, vars

\* It runs, unless a kill comes first.
LEMMA RanStep ==
    ASSUME TypeOK, PlaceInv, MetInv, OwnInv, RanInv, [Next]_vars
    PROVE  RanInv'
<1> USE SshExecAssumption DEF TypeOK, RanInv, Alone, Step, ShellStep, shellVars
<1>1. ASSUME NEW d \in Calls, NEW i \in Inputs, Invoke(d, i) PROVE RanInv'
  <2>1. ASSUME NEW c \in Calls, Alone(c)', c # d PROVE Alone(c)
    BY <1>1, <2>1 DEF Invoke
  <2>2. remote[d] = "none" /\ ran[d] = None
    BY <1>1 DEF PlaceInv, Invoke
  <2>. QED
    BY <1>1, <2>1, <2>2 DEF Invoke, killVars
<1>2. ASSUME NEW d \in Calls, Handler(d), Same PROVE RanInv'
  <2>1. CASE Exec(d)
    BY <1>2, <2>1 DEF Exec, PlaceInv, Same, killVars
  <2>2. CASE UNCHANGED <<remote, ran>>
    BY <1>2, <2>2 DEF Same, killVars
  <2>. QED
    BY <1>2, <2>1, <2>2
    DEF Handler, CopyStarts, CopyEnds, CopyFails, MakeExecutable, MakeExecutableFails, RemoveOnError,
        ExecFails, Disconnected, ExecReturns
<1>3. ASSUME NEW d \in Calls, RemoteStart(d), Same PROVE RanInv'
  BY <1>3 DEF RemoteStart, OwnInv, Same, killVars
<1>4. ASSUME NEW d \in Calls, RemoteStartFails(d), Same PROVE RanInv'
  <2>1. ASSUME Alone(d), NEW e \in Calls, pc[e] = "copying", Path(e) = Path(d) PROVE FALSE
    <3>1. e # d
      BY <1>4, <2>1 DEF RemoteStartFails, PlaceInv
    <3>2. AtWork(e) /\ AtWork(d)
      BY <1>4, <2>1 DEF RemoteStartFails, AtWork, Returned
    <3>. QED
      BY <2>1, <3>1, <3>2 DEF MetInv
  <2>2. Alone(d) => d \in signalled
    BY <1>4, <2>1 DEF RemoteStartFails, CopiedTo, OwnInv
  <2>. QED
    BY <1>4, <2>2 DEF RemoteStartFails, Same, killVars
<1>5. ASSUME NEW d \in Calls, RemoteExit(d) \/ RemoteRemove(d), Same PROVE RanInv'
  BY <1>5 DEF RemoteExit, RemoteRemove, Same, killVars
<1>6. ASSUME UNCHANGED <<met, remote, ran>>, signalled \subseteq signalled' PROVE RanInv'
  BY <1>6
<1>. QED
  BY <1>1, <1>2, <1>3, <1>4, <1>5, <1>6
  DEF Next, Same, Remote, InvokeKill, KillArrives, KillFails, killVars, vars

\* Afterwards the path is left as the call asked.
LEMMA LeaveStep ==
    ASSUME TypeOK, PlaceInv, OwnInv, LeaveInv, [Next]_vars
    PROVE  LeaveInv'
<1> USE SshExecAssumption DEF LeaveInv, Alone
<1>1. ASSUME NEW d \in Calls, NEW i \in Inputs, Invoke(d, i) PROVE LeaveInv'
  <2>1. input[d] = None /\ remote[d] = "none" /\ UNCHANGED <<file, remote>>
    BY <1>1 DEF PlaceInv, Invoke, Step, hostVars, shellVars
  <2>2. ASSUME NEW c \in Calls, c # d PROVE input'[c] = input[c] /\ (Alone(c)' => Alone(c))
    BY <1>1, <2>2 DEF TypeOK, Invoke
  <2>3. ASSUME NEW c \in Calls, c # d, Sole(c)' PROVE Sole(c)
    BY <2>1, <2>2, <2>3 DEF Sole, Path
  <2>. QED
    BY <2>1, <2>2, <2>3 DEF After, Path
<1>2. ASSUME NEW d \in Calls, Handler(d) \/ Remote(d), Same,
             NEW c \in Calls, Alone(c), Sole(c), remote'[c] # "none"
      PROVE  IF After(c) = "ended" THEN file'[Path(c)] = c
                                   ELSE remote'[c] = "ended" => file'[Path(c)] = None
  <2> USE <1>2 DEF TypeOK, Step, ShellStep
  <2>1. CASE c # d
    <3>1. remote'[c] = remote[c]
      BY <2>1
      DEF Handler, CopyStarts, CopyEnds, CopyFails, MakeExecutable, MakeExecutableFails, RemoveOnError,
          Exec, ExecFails, Disconnected, ExecReturns, Remote, RemoteStart, RemoteStartFails, RemoteExit,
          RemoteRemove, shellVars
    <3>2. Path(c) \in Paths
      BY <3>1 DEF PlaceInv, Path, Inputs
    <3>3. AtWork(d) => Path(d) # Path(c)
      BY <2>1 DEF Sole, AtWork, PlaceInv
    <3>4. file'[Path(c)] = file[Path(c)]
      BY <3>2, <3>3, Touches
    <3>. QED
      BY <3>1, <3>4
  <2>2. CASE Exec(c)
    BY <2>2 DEF Exec, OwnInv, hostVars
  <2>3. CASE ExecFails(c) \/ Disconnected(c) \/ ExecReturns(c)
    BY <2>3 DEF ExecFails, Disconnected, ExecReturns, hostVars, shellVars
  <2>4. ASSUME \/ CopyStarts(c) \/ CopyEnds(c) \/ CopyFails(c)
               \/ MakeExecutable(c) \/ MakeExecutableFails(c) \/ RemoveOnError(c)
        PROVE  FALSE
    BY <2>4
    DEF CopyStarts, CopyEnds, CopyFails, MakeExecutable, MakeExecutableFails, RemoveOnError, PlaceInv,
        shellVars
  <2>5. CASE RemoteStart(c) \/ RemoteStartFails(c) \/ RemoteExit(c)
    BY <2>5 DEF RemoteStart, RemoteStartFails, RemoteExit, hostVars
  <2>6. CASE RemoteRemove(c)
    <3>1. After(c) = "rm" /\ Path(c) \in Paths
      BY <2>6 DEF RemoteRemove, PlaceInv, Path, Inputs
    <3>. QED
      BY <2>6, <3>1 DEF RemoteRemove, Removed
  <2>. QED
    BY <2>1, <2>2, <2>3, <2>4, <2>5, <2>6 DEF Handler, Remote
<1>3. ASSUME NEW d \in Calls, Handler(d) \/ Remote(d), Same PROVE LeaveInv'
  BY <1>2, <1>3 DEF Same, Sole, Path, After
<1>4. CASE UNCHANGED <<input, met, file, remote>>
  BY <1>4 DEF Path, Sole, After
<1>. QED
  BY <1>1, <1>3, <1>4
  DEF Next, Same, InvokeKill, KillArrives, KillFails, hostVars, shellVars, vars

-----------------------------------------------------------------------------
(* What follows *)

\* The invariant holds in every state that the tool and the host can reach.
THEOREM SshInductive == Spec => []IInv
<1>1. Init => IInv
  BY SshExecAssumption
  DEF Init, IInv, TypeOK, Returned, PlaceInv, Alive, MetInv, AtWork, OwnInv, RanInv, LeaveInv
<1>2. IInv /\ [Next]_vars => IInv'
  BY TypeStep, PlaceStep, MetStep, OwnStep, RanStep, LeaveStep DEF IInv
<1>. QED
  BY <1>1, <1>2, PTL DEF Spec

\* The variables of the sshexec tool always have their types.
THEOREM SshTypes == Spec => []TypeOK
<1>1. IInv => TypeOK
  BY DEF IInv
<1>. QED
  BY <1>1, SshInductive, PTL

\* A call that has its path for itself while it is at work runs the binary it was given.
THEOREM AloneAlwaysRunsOwn == Spec => []AloneRunsOwn
<1>1. IInv => AloneRunsOwn
  BY DEF IInv, RanInv, AloneRunsOwn
<1>. QED
  BY <1>1, SshInductive, PTL

\* Then its shell finds a file, until it has run it.
THEOREM FileIsThere == Spec => []FileWaitsForShell
<1>1. IInv => FileWaitsForShell
  BY SshExecAssumption DEF IInv, OwnInv, FileWaitsForShell
<1>. QED
  BY <1>1, SshInductive, PTL

\* If nobody else ever names its path, the file is left, or removed, as it asked, also
\* when its process was killed.
THEOREM AloneAlwaysLeaves == Spec => []AloneLeavesAsAsked
<1>1. IInv => AloneLeavesAsAsked
  <2> SUFFICES ASSUME IInv, NEW c \in Calls, pc[c] = "output", Alone(c), Sole(c)
               PROVE  /\ ran[c] = c \/ remote[c] = "start" \/ c \in signalled
                      /\ file[Path(c)] = IF input[c].keep \/ input[c].background
                                         THEN c ELSE None
    BY DEF AloneLeavesAsAsked, Sole
  <2>1. remote[c] # "none"
    BY DEF IInv, PlaceInv
  <2>2. ran[c] = c \/ remote[c] = "start" \/ c \in signalled
    BY <2>1 DEF IInv, TypeOK, RanInv
  <2>3. ~(input[c].keep \/ input[c].background) => remote[c] = "ended"
    BY DEF IInv, PlaceInv
  <2>. QED
    BY <2>1, <2>2, <2>3 DEF IInv, LeaveInv, After
<1>. QED
  BY <1>1, SshInductive, PTL

\* A kill by number reaches what it is aimed at, or what has the number of it since it
\* ended; one by name, whatever the name matches, only what has come to run a file.
THEOREM KillAlwaysAimed == Spec => KillGoesWhereAimed
<1>1. ASSUME IInv, [Next]_vars, NEW c \in signalled' \ signalled
      PROVE  \E k \in Kills :
                /\ kill[k] = "sent" /\ kill'[k] = "done"
                /\ \/ aim[k] = c
                   \/ aim[k] \in Calls /\ ~Alive(aim[k]) /\ pid[c] = pid[aim[k]]
                   \/ aim[k] \notin Calls /\ Path(c) \in aim[k].hits /\ ran[c] # None
                      /\ (Alone(c) => ran[c] = c)
  <2>1. PICK k \in Kills : KillArrives(k)
    BY <1>1 DEF Next, Invoke, Same, InvokeKill, KillFails, killVars, vars
  <2>2. c \in Targets(k) /\ kill[k] = "sent" /\ kill'[k] = "done"
    BY <1>1, <2>1 DEF KillArrives, IInv, TypeOK
  <2>3. c \in Calls
    BY <2>2 DEF Targets
  <2>4. CASE aim[k] \in Calls
    BY <1>1, <2>2, <2>4 DEF Targets, IInv, PlaceInv
  <2>5. CASE aim[k] \notin Calls
    <3>1. remote[c] = "running" /\ Path(c) \in aim[k].hits
      BY <2>2, <2>5 DEF Targets
    <3>2. ran[c] # None /\ (Alone(c) => ran[c] = c)
      BY <1>1, <2>3, <3>1 DEF IInv, PlaceInv, RanInv
    <3>. QED
      BY <2>2, <2>3, <2>5, <3>1, <3>2
  <2>. QED
    BY <2>4, <2>5
<1>2. IInv /\ [Next]_vars =>
        [\A c \in signalled' \ signalled :
            \E k \in Kills :
                /\ kill[k] = "sent" /\ kill'[k] = "done"
                /\ \/ aim[k] = c
                   \/ aim[k] \in Calls /\ ~Alive(aim[k]) /\ pid[c] = pid[aim[k]]
                   \/ aim[k] \notin Calls /\ Path(c) \in aim[k].hits /\ ran[c] # None
                      /\ (Alone(c) => ran[c] = c)]_vars
  BY <1>1
<1>. QED
  BY <1>2, SshInductive, PTL DEF Spec, KillGoesWhereAimed

=============================================================================
