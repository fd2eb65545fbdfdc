------------------------ MODULE KubeConnector_proofs ------------------------
(***************************************************************************)
(* Proofs about the kubernetes connector, for any number of goroutines,    *)
(* connectors and kubectl processes: a connector never loses a forward it  *)
(* started, and a stop that succeeds leaves none running.                  *)
(***************************************************************************)
EXTENDS KubeConnector, TLAPS

\* A goroutine is inside a connector exactly while it holds its mutex.
LockInv ==
    /\ \A c \in Callers : cpc[c] # "idle" => on[c] \in Connectors
    /\ \A c \in Callers, k \in Connectors :
            cmu[k] = c <=> cpc[c] \in InConnector /\ on[c] = k

\* The old process is waited for before anything is started or forgotten.
PlaceInv == \A c \in Callers :
    /\ cpc[c] = "wait" => pfc[on[c]] \in Cmds
    /\ cpc[c] = "start" => pfc[on[c]] = None /\ doing[c] = "forward"

\* Two processes never have one number at a time; a connector remembers a Cmd only
\* once its process has been started.
PidInv ==
    /\ \A m \in Cmds : Alive(m) => pid[m] \in Pids
    /\ \A m, n \in Cmds : Alive(m) /\ Alive(n) /\ pid[m] = pid[n] => m = n
    /\ \A k \in Connectors : pfc[k] # None => proc[pfc[k]] # "none"

\* A connector remembers the kubectl that it started, as long as it runs.
HeldInv == \A m \in Cmds : proc[m] = "running" /\ by[m] # None => pfc[by[m]] = m

\* Nobody but a connector of this program has started a kubectl that runs.
KnownInv == \A m \in Cmds : proc[m] = "running" => by[m] # None

\* KnownInv is apart: after a restart the other parts hold and it does not.
ConnectorInv == ConnectorTypeOK /\ LockInv /\ PlaceInv /\ PidInv /\ HeldInv
IInv == ConnectorInv /\ KnownInv

\* Every step of a connector, of its callers or of kubectl keeps the invariant:
\* two goroutines never work on one connector at a time.
LEMMA ConnectorStep ==
    ASSUME ConnectorInv, [ConnectorNext]_connVars
    PROVE  ConnectorInv'
<1> USE ConnectorAssumption
    DEF ConnectorInv, ConnectorTypeOK, LockInv, PlaceInv, PidInv, HeldInv, InConnector,
        Alive, At, Leave
<1>1. ASSUME NEW c \in Callers, NEW k \in Connectors, Call(c, "forward", k) \/ Call(c, "stop", k)
      PROVE  ConnectorInv'
  BY <1>1 DEF Call
<1>2. ASSUME NEW c \in Callers, Taken(c) PROVE ConnectorInv'
  BY <1>2 DEF Taken
<1>3. ASSUME NEW c \in Callers, Lock(c) PROVE ConnectorInv'
  BY <1>3 DEF Lock
<1>4. ASSUME NEW c \in Callers, StopNothing(c) PROVE ConnectorInv'
  BY <1>4 DEF StopNothing, Stopped
<1>5. ASSUME NEW c \in Callers, StopKill(c) PROVE ConnectorInv'
  BY <1>5 DEF StopKill
<1>6. ASSUME NEW c \in Callers, StopKillFails(c) PROVE ConnectorInv'
  BY <1>6 DEF StopKillFails
<1>7. ASSUME NEW c \in Callers, StopWait(c) PROVE ConnectorInv'
  BY <1>7 DEF StopWait, Stopped
<1>8. ASSUME NEW c \in Callers, StartFails(c) PROVE ConnectorInv'
  BY <1>8 DEF StartFails
<1>9. ASSUME NEW c \in Callers, NEW m \in Cmds, Start(c, m) PROVE ConnectorInv'
  BY <1>9 DEF Start, FreshCmd
<1>10. ASSUME NEW m \in Cmds, KubectlExits(m) PROVE ConnectorInv'
  BY <1>10 DEF KubectlExits, callVars
<1>11. ASSUME NEW m \in Cmds, Reap(m) PROVE ConnectorInv'
  BY <1>11 DEF Reap, callVars
<1>12. CASE UNCHANGED connVars
  BY <1>12 DEF connVars, callVars
<1>. QED
  BY <1>1, <1>2, <1>3, <1>4, <1>5, <1>6, <1>7, <1>8, <1>9, <1>10, <1>11, <1>12
     DEF ConnectorNext, Stopping, Starting

\* A process that is started has been started by a connector.
LEMMA KnownStep ==
    ASSUME ConnectorInv, KnownInv, [ConnectorNext]_connVars
    PROVE  KnownInv'
<1> USE ConnectorAssumption DEF ConnectorInv, ConnectorTypeOK, LockInv, KnownInv
<1>1. ASSUME NEW c \in Callers, NEW m \in Cmds, Start(c, m) PROVE KnownInv'
  BY <1>1 DEF Start
<1>2. ASSUME NEW c \in Callers, StopWait(c) PROVE KnownInv'
  BY <1>2 DEF StopWait, PlaceInv
<1>3. ASSUME NEW m \in Cmds, KubectlExits(m) \/ Reap(m) PROVE KnownInv'
  BY <1>3 DEF KubectlExits, Reap
<1>4. CASE UNCHANGED <<proc, by>>
  BY <1>4
<1>. QED
  BY <1>1, <1>2, <1>3, <1>4
  DEF ConnectorNext, Call, Taken, Lock, Stopping, StopNothing, StopKill, StopKillFails, Starting,
      StartFails, connVars

\* The invariant holds in the first state ...
LEMMA ConnectorStarts == ConnectorInit => IInv
  BY ConnectorAssumption DEF ConnectorInit, IInv, ConnectorInv, ConnectorTypeOK, LockInv, PlaceInv,
     PidInv, Alive, HeldInv, KnownInv, InConnector

\* ... and in every reachable one.
LEMMA ConnectorInductive == ConnectorSpec => []IInv
<1>1. IInv /\ [ConnectorNext]_connVars => IInv'
  BY ConnectorStep, KnownStep DEF IInv
<1>. QED
  BY <1>1, ConnectorStarts, PTL DEF ConnectorSpec

\* The variables of the connectors always have their types.
THEOREM ConnectorTypes == ConnectorSpec => []ConnectorTypeOK
<1>1. IInv => ConnectorTypeOK
  BY DEF IInv, ConnectorInv
<1>. QED
  BY <1>1, ConnectorInductive, PTL

\* A kubectl that runs is the portForwardCmd of the connector that started it,
\* so StopPortForward reaches it, and no connector has two of them.
THEOREM ForwardAlwaysHeld == ConnectorSpec => []ForwardIsHeld
<1>1. IInv => ForwardIsHeld
  BY DEF IInv, ConnectorInv, HeldInv, KnownInv, ForwardIsHeld
<1>. QED
  BY <1>1, ConnectorInductive, PTL

\* A step in which StopPortForward succeeds leaves nothing of its connector running.
LEMMA StopStep ==
    ASSUME ConnectorInv, [ConnectorNext]_connVars
    PROVE  \A c \in Callers :
            cpc[c] \in InConnector /\ doing[c] = "stop" /\ cpc'[c] = "ok" =>
                \A m \in Cmds : by'[m] = on[c] => proc'[m] # "running"
<1>1. ASSUME NEW c \in Callers, NEW m \in Cmds,
             cpc[c] \in InConnector, doing[c] = "stop", cpc'[c] = "ok", by'[m] = on[c]
      PROVE  proc'[m] # "running"
  <2> USE <1>1, ConnectorAssumption
      DEF ConnectorInv, ConnectorTypeOK, LockInv, PlaceInv, HeldInv, InConnector, At, Leave
  <2>1. CASE StopNothing(c)
    BY <2>1 DEF StopNothing
  <2>2. CASE StopWait(c)
    BY <2>2 DEF StopWait
  <2>3. ASSUME NEW d \in Callers, StopKill(d) \/ StopKillFails(d) \/ Taken(d) \/ Lock(d) \/ StartFails(d)
        PROVE  FALSE
    BY <2>3 DEF StopKill, StopKillFails, Taken, Lock, StartFails
  <2>4. ASSUME NEW d \in Callers, d # c, StopNothing(d) \/ StopWait(d) PROVE FALSE
    BY <2>4 DEF StopNothing, StopWait, Stopped
  <2>5. ASSUME NEW d \in Callers, NEW n \in Cmds, Start(d, n) PROVE FALSE
    BY <2>5 DEF Start
  <2>6. ASSUME NEW d \in Callers, NEW k \in Connectors, Call(d, "forward", k) \/ Call(d, "stop", k)
        PROVE  FALSE
    BY <2>6 DEF Call
  <2>7. ASSUME NEW n \in Cmds, KubectlExits(n) \/ Reap(n) PROVE FALSE
    BY <2>7 DEF KubectlExits, Reap, callVars
  <2>8. ASSUME UNCHANGED connVars PROVE FALSE
    BY <2>8 DEF connVars, callVars
  <2>. QED
    BY <2>1, <2>2, <2>3, <2>4, <2>5, <2>6, <2>7, <2>8 DEF ConnectorNext, Stopping, Starting
<1>. QED
  BY <1>1

\* When StopPortForward succeeds, nothing its connector started is running.
THEOREM StopLeavesNone == ConnectorSpec => StopStops
<1>1. IInv /\ [ConnectorNext]_connVars =>
        [\A c \in Callers :
            cpc[c] \in InConnector /\ doing[c] = "stop" /\ cpc'[c] = "ok" =>
                \A m \in Cmds : by'[m] = on[c] => proc'[m] # "running"]_connVars
  BY StopStep DEF IInv
<1>. QED
  BY <1>1, ConnectorInductive, PTL DEF ConnectorSpec, StopStops

\* A step of a stop that signals the kubectl of another connector.
LEMMA StrayStep ==
    ASSUME ConnectorInv, [ConnectorNext]_connVars
    PROVE  \A c \in Callers, m \in Cmds :
            cpc[c] = "stop" /\ cpc'[c] = "wait" /\ ~termed[m] /\ termed'[m] =>
                LET own == pfc[on[c]] IN
                m = own \/ (proc[own] = "reaped" /\ pid[m] = pid[own])
<1>1. ASSUME NEW c \in Callers, NEW m \in Cmds,
             cpc[c] = "stop", cpc'[c] = "wait", ~termed[m], termed'[m]
      PROVE  m = pfc[on[c]] \/ (proc[pfc[on[c]]] = "reaped" /\ pid[m] = pid[pfc[on[c]]])
  <2> USE <1>1, ConnectorAssumption
      DEF ConnectorInv, ConnectorTypeOK, LockInv, PlaceInv, PidInv, InConnector, Alive, At, Leave
  <2>1. CASE StopKill(c)
    BY <2>1 DEF StopKill
  <2>2. ASSUME NEW d \in Callers, StopKill(d), d # c PROVE FALSE
    BY <2>2 DEF StopKill
  <2>3. ASSUME NEW d \in Callers, \/ StopNothing(d) \/ StopKillFails(d) \/ StopWait(d)
                                  \/ Taken(d) \/ Lock(d) \/ StartFails(d)
        PROVE  FALSE
    BY <2>3 DEF StopNothing, StopKillFails, StopWait, Stopped, Taken, Lock, StartFails
  <2>4. ASSUME NEW d \in Callers, NEW n \in Cmds, Start(d, n) PROVE FALSE
    BY <2>4 DEF Start
  <2>5. ASSUME NEW d \in Callers, NEW k \in Connectors, Call(d, "forward", k) \/ Call(d, "stop", k)
        PROVE  FALSE
    BY <2>5 DEF Call
  <2>6. ASSUME NEW n \in Cmds, KubectlExits(n) \/ Reap(n) PROVE FALSE
    BY <2>6 DEF KubectlExits, Reap, callVars
  <2>7. ASSUME UNCHANGED connVars PROVE FALSE
    BY <2>7 DEF connVars, callVars
  <2>. QED
    BY <2>1, <2>2, <2>3, <2>4, <2>5, <2>6, <2>7 DEF ConnectorNext, Stopping, Starting
<1>. QED
  BY <1>1

\* A stop signals another connector's kubectl only when its own has been collected
\* and the number given to the other.
THEOREM StrayTermIsReuse == ConnectorSpec => StrayTermOnlyByReuse
<1>1. IInv /\ [ConnectorNext]_connVars =>
        [\A c \in Callers, m \in Cmds :
            cpc[c] = "stop" /\ cpc'[c] = "wait" /\ ~termed[m] /\ termed'[m] =>
                LET own == pfc[on[c]] IN
                m = own \/ (proc[own] = "reaped" /\ pid[m] = pid[own])]_connVars
  BY StrayStep DEF IInv
<1>. QED
  BY <1>1, ConnectorInductive, PTL DEF ConnectorSpec, StrayTermOnlyByReuse

=============================================================================
