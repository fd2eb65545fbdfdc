------------------------------ MODULE KubeTool ------------------------------
(***************************************************************************)
(* The kube tool's port forwarding (pkg/tools/kube/kube.go): the handlers  *)
(* of "port-forward" and "stop-port-forward", each call in a goroutine of  *)
(* its own, the one connector the tool remembers, and the local ports that *)
(* probes and kubectl processes bind.  The connector is KubeConnector's.   *)
(***************************************************************************)
EXTENDS KubeConnector

CONSTANTS
    MaxPort,    \* local ports are 1..MaxPort
    Wanted,     \* local ports that clients ask for
    MaxOffset,  \* maxPortOffset: the ports tried from the wanted one on
    Foreign,    \* local ports that other programs bind at times
    Contexts,   \* contexts of the kubeconfig
    Default,    \* its current context
    Resources   \* kinds of resource that clients name

Requests == [port: Wanted, resource: Resources, context: Contexts]

ASSUME ToolAssumption ==
    /\ MaxPort \in Nat \ {0} /\ MaxOffset \in Nat \ {0}
    /\ Foreign \cup Wanted \subseteq 1..MaxPort
    /\ Default \in Contexts /\ None \notin Contexts \cup Requests
    /\ Resources \subseteq {"pod", "workload"}

VARIABLES
    lastConnector, \* Tool.lastConnector
    tpc,           \* where each call is inside its handler
    req,           \* its arguments
    port,          \* the local port it tries, then uses
    probing,       \* the port its probe has bound, 0 for none
    conn,          \* its connector variable
    checked,       \* the context in which it has verified the resource
    portOf,        \* the local port a kubectl is to forward
    cluster,       \* the context it works in
    listening,     \* it has bound its port
    occupied,      \* ports that other programs have bound
    preempted,     \* history: calls whose port another program has bound since
    hist           \* history: what can have made a forward unreachable

toolVars == <<lastConnector, tpc, req, port, probing, conn, checked, preempted, hist>>
netVars  == <<portOf, cluster, listening, occupied>>
vars     == <<connVars, toolVars, netVars>>

Ports == 1..MaxPort

TypeOK ==
    /\ ConnectorTypeOK
    /\ lastConnector \in Connectors \cup {None}
    /\ tpc \in [Callers -> {"idle", "probe", "close", "store", "check", "forward",
                            "forwarding", "settle", "stop", "stopping", "clear"}]
    /\ req \in [Callers -> Requests \cup {None}]
    /\ port \in [Callers -> 0..MaxPort]
    /\ probing \in [Callers -> 0..MaxPort]
    /\ conn \in [Callers -> Connectors \cup {None}]
    /\ checked \in [Callers -> Contexts \cup {None}]
    /\ portOf \in [Cmds -> 0..MaxPort]
    /\ cluster \in [Cmds -> Contexts]
    /\ listening \in [Cmds -> BOOLEAN]
    /\ occupied \subseteq Foreign
    /\ preempted \subseteq Callers
    /\ hist \subseteq {"overlapped", "supplanted", "contested", "restarted"}

Init ==
    /\ ConnectorInit
    /\ lastConnector = None
    /\ tpc = [c \in Callers |-> "idle"]
    /\ req = [c \in Callers |-> None]
    /\ port = [c \in Callers |-> 0]
    /\ probing = [c \in Callers |-> 0]
    /\ conn = [c \in Callers |-> None]
    /\ checked = [c \in Callers |-> None]
    /\ portOf = [m \in Cmds |-> 0]
    /\ cluster = [m \in Cmds |-> Default]
    /\ listening = [m \in Cmds |-> FALSE]
    /\ occupied = {}
    /\ preempted = {}
    /\ hist = {}

-----------------------------------------------------------------------------
(* Vocabulary *)

Running == {m \in Cmds : proc[m] = "running"}
BoundPorts ==
    occupied \cup {portOf[m] : m \in {n \in Running : listening[n]}}
            \cup {probing[c] : c \in Callers}

Forwards(c) == req[c] # None
Stops(c) == tpc[c] # "idle" /\ ~Forwards(c)

\* Another forward runs, or its call has stored its connector already.
OtherForward(c) ==
    \/ Running # {}
    \/ \E d \in Callers \ {c} : tpc[d] \in {"check", "forward", "forwarding"}

\* The call has found the port available and counts on it.
Chose(c, p) ==
    port[c] = p /\ tpc[c] \in {"close", "store", "check", "forward", "forwarding", "settle"}

\* Another call counts on the port, or a kubectl is on its way to it.
Contended(c, p) ==
    \/ \E d \in Callers \ {c} : Chose(d, p)
    \/ \E m \in Running : portOf[m] = p /\ ~listening[m]

\* Once restarted, what has happened to the forwards before does not matter.
Note(flag, happened) ==
    hist' = IF happened /\ (flag = "contested" \/ "restarted" \notin hist)
            THEN hist \cup {flag} ELSE hist

Goto(c, p) == tpc' = [tpc EXCEPT ![c] = p] /\ UNCHANGED preempted

\* The call ends, with a reply or an error, and forgets its variables.
Return(c) ==
    /\ tpc' = [tpc EXCEPT ![c] = "idle"]
    /\ preempted' = preempted \ {c}
    /\ req' = [req EXCEPT ![c] = None]
    /\ port' = [port EXCEPT ![c] = 0]
    /\ conn' = [conn EXCEPT ![c] = None]
    /\ checked' = [checked EXCEPT ![c] = None]

\* Objects nobody refers to any more, with no process left running: the one a
\* call will create with New is set aside when the call begins.
FreshConnector(k) ==
    /\ k # lastConnector
    /\ \A c \in Callers : conn[c] # k /\ on[c] # k
    /\ \A m \in Cmds : by[m] = k => proc[m] = "reaped"

-----------------------------------------------------------------------------
(* port-forward *)

Invoke(c, k, r) ==
    /\ tpc[c] = "idle"
    /\ FreshConnector(k)
    /\ Goto(c, "probe")
    /\ req' = [req EXCEPT ![c] = r]
    /\ port' = [port EXCEPT ![c] = r.port]
    /\ conn' = [conn EXCEPT ![c] = k]
    /\ pfc' = [pfc EXCEPT ![k] = None]
    /\ Note("overlapped", \E d \in Callers : Stops(d))
    /\ UNCHANGED <<lastConnector, probing, checked, callVars, cmu, proc, pid, by, termed, netVars>>

\* The resource is malformed, or the client has gone away and no port can be
\* listened on.
Rejected(c) ==
    /\ tpc[c] = "probe"
    /\ Return(c)
    /\ UNCHANGED <<lastConnector, probing, hist, connVars, netVars>>

\* Mutant of ProbeOpens: any port counts as available.
ProbeOpensAny(c) ==
    /\ tpc[c] = "probe"
    /\ Goto(c, "close")
    /\ Note("contested", Contended(c, port[c]))
    /\ UNCHANGED <<lastConnector, req, port, probing, conn, checked, connVars, netVars>>

\* isPortAvailable listens on the port ...
ProbeOpens(c) ==
    /\ tpc[c] = "probe"
    /\ port[c] \notin BoundPorts
    /\ probing' = [probing EXCEPT ![c] = port[c]]
    /\ Goto(c, "close")
    /\ Note("contested", Contended(c, port[c]))
    /\ UNCHANGED <<lastConnector, req, port, conn, checked, connVars, netVars>>

\* Mutant of ProbeFails: the search does not stop at the last port.
ProbeFailsBeyond(c) ==
    /\ tpc[c] = "probe"
    /\ port[c] \in BoundPorts
    /\ port' = [port EXCEPT ![c] = @ + 1]
    /\ UNCHANGED <<lastConnector, tpc, req, probing, conn, checked, preempted, hist,
                   connVars, netVars>>

\* ... or cannot, and findAvailablePort goes on to the next one (it tries the
\* wanted port again first, which is a later probe of the same port).
ProbeFails(c) ==
    /\ tpc[c] = "probe"
    /\ port[c] \in BoundPorts
    /\ \/ /\ port[c] + 1 < req[c].port + MaxOffset
          /\ port[c] + 1 \in Ports
          /\ port' = [port EXCEPT ![c] = @ + 1]
          /\ UNCHANGED <<tpc, req, conn, checked, preempted>>
       \/ /\ port[c] + 1 = req[c].port + MaxOffset \/ port[c] = MaxPort
          /\ Return(c)
    /\ UNCHANGED <<lastConnector, probing, hist, connVars, netVars>>

ProbeCloses(c) ==
    /\ tpc[c] = "close"
    /\ probing' = [probing EXCEPT ![c] = 0]
    /\ Goto(c, "store")
    /\ UNCHANGED <<lastConnector, req, port, conn, checked, hist, connVars, netVars>>

\* Mutant of StoreConnector: the first connector is kept.
StoreConnectorOnce(c) ==
    /\ tpc[c] = "store"
    /\ lastConnector' = IF lastConnector = None THEN conn[c] ELSE lastConnector
    /\ Goto(c, "check")
    /\ Note("supplanted", OtherForward(c))
    /\ UNCHANGED <<req, port, probing, conn, checked, connVars, netVars>>

\* The connector is remembered before anything is known of the resource.
StoreConnector(c) ==
    /\ tpc[c] = "store"
    /\ lastConnector' = conn[c]
    /\ Goto(c, "check")
    /\ Note("supplanted", OtherForward(c))
    /\ UNCHANGED <<req, port, probing, conn, checked, connVars, netVars>>

\* A pod is named "pod/<name>", which TestConnection accepts unseen.
TestConnection(c) ==
    /\ tpc[c] = "check"
    /\ req[c].resource = "pod"
    /\ Goto(c, "forward")
    /\ UNCHANGED <<lastConnector, req, port, probing, conn, checked, hist, connVars, netVars>>

\* kubectl --context ... get finds the resource, or does not.
CheckResourceExists(c) ==
    /\ tpc[c] = "check"
    /\ req[c].resource = "workload"
    /\ \/ /\ checked' = [checked EXCEPT ![c] = req[c].context]
          /\ Goto(c, "forward")
          /\ UNCHANGED <<req, port, conn>>
       \/ Return(c)
    /\ UNCHANGED <<lastConnector, probing, hist, connVars, netVars>>

CallPortForward(c) ==
    /\ tpc[c] = "forward"
    /\ Call(c, "forward", conn[c])
    /\ Goto(c, "forwarding")
    /\ UNCHANGED <<lastConnector, req, port, probing, conn, checked, hist, netVars>>

\* kubectl gets the port, and no context.
StartKubectl(c, m) ==
    /\ Start(c, m)
    /\ portOf' = [portOf EXCEPT ![m] = port[c]]
    /\ cluster' = [cluster EXCEPT ![m] = Default]
    /\ listening' = [listening EXCEPT ![m] = FALSE]
    /\ UNCHANGED <<toolVars, occupied>>

PortForwardReturns(c) ==
    /\ tpc[c] = "forwarding"
    /\ \/ cpc[c] = "ok" /\ Goto(c, "settle") /\ UNCHANGED <<req, port, conn, checked>>
       \/ cpc[c] = "error" /\ Return(c)
    /\ Taken(c)
    /\ UNCHANGED <<lastConnector, probing, hist, netVars>>

\* After startupDelay, whatever kubectl has done in it.
ReplyEstablished(c) ==
    /\ tpc[c] = "settle"
    /\ Return(c)
    /\ UNCHANGED <<lastConnector, probing, hist, connVars, netVars>>

-----------------------------------------------------------------------------
(* stop-port-forward *)

InvokeStop(c) ==
    /\ tpc[c] = "idle"
    /\ Goto(c, "stop")
    /\ Note("overlapped", \E d \in Callers : Forwards(d))
    /\ UNCHANGED <<lastConnector, req, port, probing, conn, checked, connVars, netVars>>

ReadConnector(c) ==
    /\ tpc[c] = "stop"
    /\ \/ /\ lastConnector = None
          /\ Return(c)
       \/ /\ lastConnector # None
          /\ conn' = [conn EXCEPT ![c] = lastConnector]
          /\ Goto(c, "stopping")
          /\ UNCHANGED <<req, port, checked>>
    /\ UNCHANGED <<lastConnector, probing, hist, connVars, netVars>>

\* Mutant of CallStopPortForward: the connector is not called.
CallStopSkipped(c) ==
    /\ tpc[c] = "stopping"
    /\ Goto(c, "clear")
    /\ UNCHANGED <<lastConnector, req, port, probing, conn, checked, hist, connVars, netVars>>

CallStopPortForward(c) ==
    /\ tpc[c] = "stopping"
    /\ Call(c, "stop", conn[c])
    /\ UNCHANGED <<toolVars, netVars>>

StopPortForwardReturns(c) ==
    /\ tpc[c] = "stopping"
    /\ \/ cpc[c] = "ok" /\ Goto(c, "clear") /\ UNCHANGED <<req, port, conn, checked>>
       \/ cpc[c] = "error" /\ Return(c)
    /\ Taken(c)
    /\ UNCHANGED <<lastConnector, probing, hist, netVars>>

\* Whatever the tool remembers by now is forgotten.
ClearConnector(c) ==
    /\ tpc[c] = "clear"
    /\ lastConnector' = None
    /\ Return(c)
    /\ UNCHANGED <<probing, hist, connVars, netVars>>

-----------------------------------------------------------------------------
(* kubectl *)

\* A kubectl that finds its port bound does not listen: it ends.
KubectlListens(m) ==
    /\ proc[m] = "running"
    /\ ~listening[m]
    /\ portOf[m] \notin BoundPorts
    /\ listening' = [listening EXCEPT ![m] = TRUE]
    /\ UNCHANGED <<connVars, toolVars, portOf, cluster, occupied>>

KubectlEnds(m) ==
    /\ KubectlExits(m)
    /\ listening' = [listening EXCEPT ![m] = FALSE]
    /\ portOf' = [portOf EXCEPT ![m] = 0]
    /\ UNCHANGED <<toolVars, cluster, occupied>>

\* A program that has just been started knows nothing of the kubectl processes.
NewProgram ==
    /\ cpc' = [c \in Callers |-> "idle"] /\ doing' = [c \in Callers |-> "stop"]
    /\ on' = [c \in Callers |-> None]
    /\ cmu' = [k \in Connectors |-> None] /\ pfc' = [k \in Connectors |-> None]
    /\ by' = [m \in Cmds |-> None]
    /\ UNCHANGED <<proc, pid, termed>>

\* The server ends, by a signal or a crash, and is started again: Shutdown stops
\* nothing and nothing is saved, so the calls, the connectors and what the tool
\* remembers are gone and each kubectl goes on.  Bound: one restart.
Restart ==
    /\ "restarted" \notin hist
    /\ hist' = {"restarted"}
    /\ NewProgram
    /\ lastConnector' = None
    /\ tpc' = [c \in Callers |-> "idle"] /\ req' = [c \in Callers |-> None]
    /\ port' = [c \in Callers |-> 0] /\ probing' = [c \in Callers |-> 0]
    /\ conn' = [c \in Callers |-> None] /\ checked' = [c \in Callers |-> None]
    /\ preempted' = {}
    /\ UNCHANGED netVars

-----------------------------------------------------------------------------
(* Other programs on the machine *)

\* A probe holds its port only while it runs: once it has let go of it, any program
\* can be there before kubectl.
ProgramBinds(p) ==
    /\ p \notin BoundPorts
    /\ occupied' = occupied \cup {p}
    /\ preempted' = preempted \cup {c \in Callers : Chose(c, p)}
    /\ UNCHANGED <<lastConnector, tpc, req, port, probing, conn, checked, hist, connVars,
                   portOf, cluster, listening>>

ProgramReleases(p) ==
    /\ p \in occupied
    /\ occupied' = occupied \ {p}
    /\ UNCHANGED <<toolVars, connVars, portOf, cluster, listening>>

-----------------------------------------------------------------------------

Forwarding(c) ==
    \/ Rejected(c) \/ ProbeOpens(c) \/ ProbeFails(c) \/ ProbeCloses(c)
    \/ StoreConnector(c) \/ TestConnection(c) \/ CheckResourceExists(c)
    \/ CallPortForward(c) \/ PortForwardReturns(c) \/ ReplyEstablished(c)

StoppingForward(c) ==
    \/ ReadConnector(c) \/ CallStopPortForward(c)
    \/ StopPortForwardReturns(c) \/ ClearConnector(c)

Connecting(c) ==
    \/ (Stopping(c) \/ StartFails(c)) /\ UNCHANGED <<toolVars, netVars>>
    \/ \E m \in Cmds : StartKubectl(c, m)

Next ==
    \/ \E c \in Callers :
        \/ \E k \in Connectors, r \in Requests : Invoke(c, k, r)
        \/ InvokeStop(c)
        \/ Forwarding(c) \/ StoppingForward(c) \/ Connecting(c)
        \/ Lock(c) /\ UNCHANGED <<toolVars, netVars>>
    \/ \E m \in Cmds :
        \/ KubectlListens(m) \/ KubectlEnds(m)
        \/ Reap(m) /\ UNCHANGED <<toolVars, netVars>>
    \/ \E p \in Foreign : ProgramBinds(p) \/ ProgramReleases(p)
    \/ Restart

Spec == Init /\ [][Next]_vars

-----------------------------------------------------------------------------
(* Properties *)

\* The forward of m can be stopped: the tool remembers its connector, or a call
\* that is still running uses it.
Stoppable(m) == by[m] = lastConnector \/ \E c \in Callers : conn[c] = by[m]

\* As long as no forward has been made beside another one and no stop has
\* overlapped a forward, every running kubectl can be stopped ...
StoppableWhenSequential ==
    hist = {} => \A m \in Running : Stoppable(m)

\* ... and a stop that says that forwarding is stopped, or that there is none,
\* leaves no kubectl running.
ReturnsFrom(c, p) == tpc[c] = p /\ tpc'[c] = "idle"
SaysStopped(c) == ReturnsFrom(c, "clear") \/ ReturnsFrom(c, "stop")
SequentialStopStops ==
    [][\A c \in Callers : hist' = {} /\ SaysStopped(c) => Running' = {}]_vars

\* Who listens where a forward was promised came there after the call had found the
\* port free: another program that was faster than kubectl, noted for this very call;
\* or, when two calls, or a call and a kubectl, were after the port at a time, another
\* kubectl.  Neither the ports tried before nor a kubectl of the time before a restart
\* brings a call to a port that is in use.
PortIsOwnUnlessContested ==
    \A c \in Callers : tpc[c] = "settle" =>
        /\ port[c] \in occupied => c \in preempted
        /\ "contested" \notin hist =>
            \A m \in Running : listening[m] /\ portOf[m] = port[c] => by[m] = conn[c]

-----------------------------------------------------------------------------
(* What comments and notes claim and the code does not do *)

\* "Store the connector for cleanup": a forward stays reachable for a stop
\* as long as no second one is made beside it.
StoppableUnlessSupplanted ==
    hist \cap {"supplanted", "restarted"} = {} => \A m \in Running : Stoppable(m)

\* The call's context names the cluster: a forward goes to the cluster in which
\* its resource was verified.
ForwardedWhereVerified ==
    \A c \in Callers, m \in Cmds :
        tpc[c] = "settle" /\ by[m] = conn[c] /\ checked[c] # None =>
            cluster[m] = checked[c]

=============================================================================
