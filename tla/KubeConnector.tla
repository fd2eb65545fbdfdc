---------------------------- MODULE KubeConnector ----------------------------
(***************************************************************************)
(* The kubernetes connector's background port-forward                      *)
(* (pkg/connectors/kube/kube.go): PortForward and StopPortForward on       *)
(* connectors that several goroutines may share, the mutex of each         *)
(* connector, the kubectl processes and the goroutine that reaps each.     *)
(***************************************************************************)
EXTENDS Naturals, FiniteSets

CONSTANTS
    Callers,     \* goroutines
    Connectors,  \* Connector objects
    Cmds,        \* exec.Cmd objects; a dead, unreferenced one is reused
    Pids,        \* process numbers, given out again once collected
    None

ASSUME ConnectorAssumption == None \notin Callers \cup Connectors \cup Cmds \cup Pids

VARIABLES
    cpc,     \* where each goroutine is inside the connector
    doing,   \* the method it called
    on,      \* the connector it works on
    cmu,     \* Connector.mu
    pfc,     \* Connector.portForwardCmd
    proc,    \* the kubectl process of a Cmd
    pid,     \* its number, and that of its process group
    by,      \* the connector that started it
    termed   \* it runs and has been sent SIGTERM

callVars  == <<cpc, doing, on>>
connVars  == <<callVars, cmu, pfc, proc, pid, by, termed>>

InConnector == {"stop", "wait", "start"}

ConnectorTypeOK ==
    /\ cpc \in [Callers -> {"idle", "lock", "ok", "error"} \cup InConnector]
    /\ doing \in [Callers -> {"forward", "stop"}]
    /\ on \in [Callers -> Connectors \cup {None}]
    /\ cmu \in [Connectors -> Callers \cup {None}]
    /\ pfc \in [Connectors -> Cmds \cup {None}]
    /\ proc \in [Cmds -> {"none", "running", "zombie", "reaped"}]
    /\ pid \in [Cmds -> Pids \cup {None}]
    /\ by \in [Cmds -> Connectors \cup {None}]
    /\ termed \in [Cmds -> BOOLEAN]

ConnectorInit ==
    /\ cpc = [c \in Callers |-> "idle"]
    /\ doing = [c \in Callers |-> "stop"]
    /\ on = [c \in Callers |-> None]
    /\ cmu = [k \in Connectors |-> None]
    /\ pfc = [k \in Connectors |-> None]
    /\ proc = [m \in Cmds |-> "none"]
    /\ pid = [m \in Cmds |-> None]
    /\ by = [m \in Cmds |-> None]
    /\ termed = [m \in Cmds |-> FALSE]

-----------------------------------------------------------------------------

At(c, p) == cpc' = [cpc EXCEPT ![c] = p]

\* The deferred Unlock and the return.
Leave(c, p) ==
    /\ At(c, p)
    /\ cmu' = [cmu EXCEPT ![on[c]] = None]

\* A goroutine calls a method of connector k.
Call(c, method, k) ==
    /\ cpc[c] = "idle"
    /\ At(c, "lock")
    /\ doing' = [doing EXCEPT ![c] = method]
    /\ on' = [on EXCEPT ![c] = k]
    /\ UNCHANGED <<cmu, pfc, proc, pid, by, termed>>

\* ... and takes what it returned.
Taken(c) ==
    /\ cpc[c] \in {"ok", "error"}
    /\ At(c, "idle")
    /\ doing' = [doing EXCEPT ![c] = "stop"]
    /\ on' = [on EXCEPT ![c] = None]
    /\ UNCHANGED <<cmu, pfc, proc, pid, by, termed>>

\* Mutant of Lock: the mutex records the connector, not the goroutine.
LockAnonymous(c) ==
    /\ cpc[c] = "lock"
    /\ cmu[on[c]] = None
    /\ cmu' = [cmu EXCEPT ![on[c]] = on[c]]
    /\ At(c, "stop")
    /\ UNCHANGED <<doing, on, pfc, proc, pid, by, termed>>

Lock(c) ==
    /\ cpc[c] = "lock"
    /\ cmu[on[c]] = None
    /\ cmu' = [cmu EXCEPT ![on[c]] = c]
    /\ At(c, "stop")
    /\ UNCHANGED <<doing, on, pfc, proc, pid, by, termed>>

\* stopPortForward has done its work: PortForward goes on, StopPortForward ends.
Stopped(c) ==
    \/ doing[c] = "forward" /\ At(c, "start") /\ UNCHANGED cmu
    \/ doing[c] = "stop" /\ Leave(c, "ok")

\* Mutant of StopNothing: the early return does not look at portForwardCmd.
StopNothingAlways(c) ==
    /\ cpc[c] = "stop"
    /\ Stopped(c)
    /\ UNCHANGED <<doing, on, pfc, proc, pid, by, termed>>

StopNothing(c) ==
    /\ cpc[c] = "stop"
    /\ pfc[on[c]] = None
    /\ Stopped(c)
    /\ UNCHANGED <<doing, on, pfc, proc, pid, by, termed>>

\* A process has its number until it has been collected.
Alive(m) == proc[m] \in {"running", "zombie"}

\* Mutant of StopKill: kubectl was left in a group that all of them share.
StopKillShared(c) ==
    /\ cpc[c] = "stop"
    /\ pfc[on[c]] # None
    /\ termed' = [m \in Cmds |-> termed[m] \/ proc[m] = "running"]
    /\ At(c, "wait")
    /\ UNCHANGED <<doing, on, cmu, pfc, proc, pid, by>>

\* kill(-pgid, SIGTERM) reaches whoever has the number by now; if nobody has, that
\* is no error.
StopKill(c) ==
    /\ cpc[c] = "stop"
    /\ pfc[on[c]] # None
    /\ termed' = [m \in Cmds |-> termed[m]
                    \/ (proc[m] = "running" /\ pid[m] = pid[pfc[on[c]]])]
    /\ At(c, "wait")
    /\ UNCHANGED <<doing, on, cmu, pfc, proc, pid, by>>

\* Mutant of StopKillFails: the error path does not unlock.
StopKillFailsLocked(c) ==
    /\ cpc[c] = "stop"
    /\ pfc[on[c]] # None
    /\ proc[pfc[on[c]]] = "reaped"
    /\ At(c, "error")
    /\ UNCHANGED <<doing, on, cmu, pfc, proc, pid, by, termed>>

\* Neither signal can be sent, though the error is not "no such process": the
\* process has been reaped and its number belongs to somebody else's group.
StopKillFails(c) ==
    /\ cpc[c] = "stop"
    /\ pfc[on[c]] # None
    /\ proc[pfc[on[c]]] = "reaped"
    /\ Leave(c, "error")
    /\ UNCHANGED <<doing, on, pfc, proc, pid, by, termed>>

\* Mutant of StopWait: the process is forgotten without Wait.
StopWaitNot(c) ==
    /\ cpc[c] = "wait"
    /\ pfc' = [pfc EXCEPT ![on[c]] = None]
    /\ Stopped(c)
    /\ UNCHANGED <<doing, on, proc, pid, by, termed>>

\* cmd.Wait() returns when the process has ended, whoever collects it.
StopWait(c) ==
    /\ cpc[c] = "wait"
    /\ proc[pfc[on[c]]] \in {"zombie", "reaped"}
    /\ proc' = [proc EXCEPT ![pfc[on[c]]] = "reaped"]
    /\ pid' = [pid EXCEPT ![pfc[on[c]]] = None]
    /\ pfc' = [pfc EXCEPT ![on[c]] = None]
    /\ Stopped(c)
    /\ UNCHANGED <<doing, on, by, termed>>

StartFails(c) ==
    /\ cpc[c] = "start"
    /\ Leave(c, "error")
    /\ UNCHANGED <<doing, on, pfc, proc, pid, by, termed>>

FreshCmd(m) ==
    /\ proc[m] \in {"none", "reaped"}
    /\ \A k \in Connectors : pfc[k] # m

\* kubectl runs detached from the request's context and process group.
Start(c, m) ==
    /\ cpc[c] = "start"
    /\ FreshCmd(m)
    /\ proc' = [proc EXCEPT ![m] = "running"]
    /\ \E n \in Pids \ {pid[l] : l \in {j \in Cmds : Alive(j)}} :
        pid' = [pid EXCEPT ![m] = n]
    /\ by' = [by EXCEPT ![m] = on[c]]
    /\ pfc' = [pfc EXCEPT ![on[c]] = m]
    /\ Leave(c, "ok")
    /\ UNCHANGED <<doing, on, termed>>

KubectlExits(m) ==
    /\ proc[m] = "running"
    /\ proc' = [proc EXCEPT ![m] = "zombie"]
    /\ termed' = [termed EXCEPT ![m] = FALSE]
    /\ UNCHANGED <<callVars, cmu, pfc, pid, by>>

\* The goroutine started with the process.
Reap(m) ==
    /\ proc[m] = "zombie"
    /\ proc' = [proc EXCEPT ![m] = "reaped"]
    /\ UNCHANGED <<callVars, cmu, pfc, pid, by, termed>>

-----------------------------------------------------------------------------

Stopping(c) == StopNothing(c) \/ StopKill(c) \/ StopKillFails(c) \/ StopWait(c)
Starting(c) == StartFails(c) \/ \E m \in Cmds : Start(c, m)

ConnectorNext ==
    \/ \E c \in Callers :
        \/ \E k \in Connectors : Call(c, "forward", k) \/ Call(c, "stop", k)
        \/ Taken(c) \/ Lock(c) \/ Stopping(c) \/ Starting(c)
    \/ \E m \in Cmds : KubectlExits(m) \/ Reap(m)

ConnectorSpec == ConnectorInit /\ [][ConnectorNext]_connVars

\* Go's mutex is fair to its waiters and goroutines run; kubectl may ignore
\* SIGTERM and callers may stop calling.
ConnectorFairness ==
    /\ \A c \in Callers :
        /\ SF_connVars(Lock(c))
        /\ WF_connVars(Stopping(c))
        /\ WF_connVars(Starting(c))
    /\ \A m \in Cmds : WF_connVars(Reap(m))

ConnectorFairSpec == ConnectorSpec /\ ConnectorFairness

-----------------------------------------------------------------------------
(* Properties *)

\* A connector never loses a forward it started: a kubectl that runs is the
\* portForwardCmd of its connector, so at most one runs per connector and
\* StopPortForward can reach it (stopPortForward waits before it sets nil).
ForwardIsHeld ==
    \A m \in Cmds : proc[m] = "running" => pfc[by[m]] = m

\* When StopPortForward returns without error nothing that the connector
\* started is running, until somebody calls PortForward on it again.
StopStops ==
    [][\A c \in Callers :
        cpc[c] \in InConnector /\ doing[c] = "stop" /\ cpc'[c] = "ok" =>
            \A m \in Cmds : by'[m] = on[c] => proc'[m] # "running"]_connVars

\* A stop signals the kubectl of another connector only when its own has ended, was
\* collected by the goroutine that waits for it, and had its number given to the
\* other: stopPortForward cannot know.
StrayTermOnlyByReuse ==
    [][\A c \in Callers, m \in Cmds :
        cpc[c] = "stop" /\ cpc'[c] = "wait" /\ ~termed[m] /\ termed'[m] =>
            LET own == pfc[on[c]] IN
            m = own \/ (proc[own] = "reaped" /\ pid[m] = pid[own])]_connVars

\* A kubectl that has been sent SIGTERM and does not end.
SomeDeaf == \E m \in Cmds : termed[m]

\* Every call into a connector returns, unless a kubectl ignores SIGTERM for
\* ever: there is no SIGKILL after it, and Wait holds the mutex.
ReturnsUnlessDeaf ==
    \A c \in Callers : []<>(cpc[c] \notin {"lock"} \cup InConnector) \/ <>[]SomeDeaf

=============================================================================
