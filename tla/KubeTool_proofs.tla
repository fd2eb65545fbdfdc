--------------------------- MODULE KubeTool_proofs ---------------------------
(***************************************************************************)
(* Proofs about the kube tool's port forwarding, for any number of calls,  *)
(* connectors, processes, ports and other programs: a stop keeps what the  *)
(* connector promises, also behind fresh connectors and restarts; in       *)
(* sequential use every forward can be stopped; and who else listens at a  *)
(* promised port has come there after the call had found it free.          *)
(***************************************************************************)
EXTENDS KubeTool, KubeConnector_proofs

-----------------------------------------------------------------------------
(* The inductive invariant *)

\* Calls that have chosen a local port and not yet returned.
HasPort == {"close", "store", "check", "forward", "forwarding", "settle"}
ForwardPC == HasPort \cup {"probe"}
StopPC == {"stop", "stopping", "clear"}

\* What a handler's place says of its variables; a call is inside a connector, its
\* own, in two places only.
CallInv == \A c \in Callers :
    /\ tpc[c] \in ForwardPC => req[c] \in Requests /\ conn[c] \in Connectors
    /\ tpc[c] \in {"idle"} \cup StopPC => req[c] = None
    /\ tpc[c] \in {"stopping", "clear"} => conn[c] \in Connectors
    /\ cpc[c] # "idle" =>
        /\ on[c] = conn[c]
        /\ \/ tpc[c] = "forwarding" /\ doing[c] = "forward"
           \/ tpc[c] = "stopping" /\ doing[c] = "stop"

\* In sequential use the tool remembers the connector of every forward there is,
\* until a stop has ended it.
SequentialInv == hist = {} =>
    /\ \A c, d \in Callers : ~(Stops(c) /\ Forwards(d))
    /\ \A c \in Callers : tpc[c] \in {"check", "forward", "forwarding"} => lastConnector = conn[c]
    /\ \A m \in Running : by[m] = lastConnector /\ by[m] # None
    /\ \A c \in Callers : tpc[c] \in {"stopping", "clear"} => lastConnector \in {conn[c], None}
    /\ \A c \in Callers : tpc[c] = "clear" \/ (tpc[c] = "stopping" /\ cpc[c] = "ok") => Running = {}

\* What another program holds of a chosen port it has taken since; who has chosen a port
\* is the only one to have chosen it, and its kubectl the only one to be told of it.
PortInv == \A c \in Callers : tpc[c] \in HasPort =>
    /\ port[c] \in occupied => c \in preempted
    /\ "contested" \notin hist =>
        /\ \A d \in Callers : tpc[d] \in HasPort /\ port[d] = port[c] => d = c
        /\ \A m \in Running : portOf[m] = port[c] => by[m] = conn[c]

Inv == TypeOK /\ ConnectorInv /\ CallInv /\ SequentialInv /\ PortInv

-----------------------------------------------------------------------------
(* The connectors *)

\* What an unreferenced object is replaced by when its processes have ended.
NewConnector ==
    \E k \in Connectors :
        /\ \A c \in Callers : on[c] # k
        /\ \A m \in Cmds : by[m] = k => proc[m] = "reaped"
        /\ pfc' = [pfc EXCEPT ![k] = None]
        /\ UNCHANGED <<callVars, cmu, proc, pid, by, termed>>

\* Whatever a call or a kubectl does, it uses the connectors as their callers may.
LEMMA UsesStep ==
    ASSUME CallInv, [Next]_vars
    PROVE  [ConnectorNext \/ NewConnector \/ NewProgram]_connVars
<1>1. ASSUME NEW c \in Callers, NEW k \in Connectors, NEW r \in Requests, Invoke(c, k, r)
      PROVE  NewConnector
  BY <1>1 DEF Invoke, FreshConnector, NewConnector
<1>2. ASSUME NEW c \in Callers, Forwarding(c) \/ StoppingForward(c)
      PROVE  \/ \E k \in Connectors : Call(c, "forward", k) \/ Call(c, "stop", k)
             \/ Taken(c) \/ UNCHANGED connVars
  <2>1. CASE CallPortForward(c) \/ CallStopPortForward(c)
    BY <2>1 DEF CallPortForward, CallStopPortForward, CallInv, ForwardPC, HasPort
  <2>. QED
    BY <1>2, <2>1
    DEF Forwarding, StoppingForward, Rejected, ProbeOpens, ProbeFails, ProbeCloses, StoreConnector,
        TestConnection, CheckResourceExists, PortForwardReturns, ReplyEstablished, ReadConnector,
        StopPortForwardReturns, ClearConnector
<1>3. ASSUME NEW c \in Callers, Connecting(c) PROVE Stopping(c) \/ Starting(c)
  BY <1>3 DEF Connecting, Starting, StartKubectl
<1>4. ASSUME NEW m \in Cmds, KubectlListens(m) \/ KubectlEnds(m)
      PROVE  KubectlExits(m) \/ UNCHANGED connVars
  BY <1>4 DEF KubectlListens, KubectlEnds
<1>5. ASSUME Restart PROVE NewProgram
  BY <1>5 DEF Restart
<1>6. ASSUME NEW c \in Callers, InvokeStop(c) PROVE UNCHANGED connVars
  BY <1>6 DEF InvokeStop, connVars
<1>7. ASSUME NEW p \in Foreign, ProgramBinds(p) \/ ProgramReleases(p) PROVE UNCHANGED connVars
  BY <1>7 DEF ProgramBinds, ProgramReleases, connVars
<1>. QED
  BY <1>1, <1>2, <1>3, <1>4, <1>5, <1>6, <1>7 DEF Next, vars, ConnectorNext

\* The connectors' invariant also bears that an unreferenced object is replaced,
\* and that the program begins anew beside processes it does not know.
LEMMA ConnectorKept ==
    ASSUME ConnectorInv, [ConnectorNext \/ NewConnector \/ NewProgram]_connVars
    PROVE  ConnectorInv'
<1>1. CASE NewConnector
  BY <1>1, ConnectorAssumption
  DEF NewConnector, callVars, ConnectorInv, ConnectorTypeOK, LockInv, PlaceInv, PidInv, HeldInv,
      InConnector, Alive
<1>2. CASE NewProgram
  BY <1>2, ConnectorAssumption
  DEF NewProgram, ConnectorInv, ConnectorTypeOK, LockInv, PlaceInv, PidInv, HeldInv, InConnector,
      Alive
<1>. QED
  BY <1>1, <1>2, ConnectorStep

-----------------------------------------------------------------------------
(* The calls *)

\* Every step keeps the tool's variables in their ranges ...
LEMMA TypeStep ==
    ASSUME TypeOK, ConnectorTypeOK', CallInv, [Next]_vars
    PROVE  TypeOK'
<1> USE ToolAssumption, ConnectorAssumption
    DEF TypeOK, CallInv, ForwardPC, HasPort, Goto, Return, Note, toolVars, netVars, Ports
<1>1. ASSUME NEW c \in Callers, NEW k \in Connectors, NEW r \in Requests, Invoke(c, k, r)
      PROVE TypeOK'
  BY <1>1 DEF Invoke, Requests
<1>2. ASSUME NEW c \in Callers, Rejected(c) PROVE TypeOK'
  BY <1>2 DEF Rejected
<1>3. ASSUME NEW c \in Callers, ReplyEstablished(c) PROVE TypeOK'
  BY <1>3 DEF ReplyEstablished
<1>4. ASSUME NEW c \in Callers, InvokeStop(c) PROVE TypeOK'
  BY <1>4 DEF InvokeStop
<1>5. ASSUME NEW c \in Callers, ProbeOpens(c) PROVE TypeOK'
  BY <1>5 DEF ProbeOpens
<1>6. ASSUME NEW c \in Callers, ProbeCloses(c) PROVE TypeOK'
  BY <1>6 DEF ProbeCloses
<1>7. ASSUME NEW c \in Callers, StoreConnector(c) PROVE TypeOK'
  BY <1>7 DEF StoreConnector
<1>8. ASSUME NEW c \in Callers, ProbeFails(c) PROVE TypeOK'
  BY <1>8 DEF ProbeFails
<1>9. ASSUME NEW c \in Callers, TestConnection(c) PROVE TypeOK'
  BY <1>9 DEF TestConnection
<1>10. ASSUME NEW c \in Callers, CheckResourceExists(c) PROVE TypeOK'
  BY <1>10 DEF CheckResourceExists, Requests
<1>11. ASSUME NEW c \in Callers, CallPortForward(c) PROVE TypeOK'
  BY <1>11 DEF CallPortForward
<1>12. ASSUME NEW c \in Callers, PortForwardReturns(c) PROVE TypeOK'
  BY <1>12 DEF PortForwardReturns
<1>13. ASSUME NEW c \in Callers, ReadConnector(c) PROVE TypeOK'
  BY <1>13 DEF ReadConnector
<1>14. ASSUME NEW c \in Callers, CallStopPortForward(c) PROVE TypeOK'
  BY <1>14 DEF CallStopPortForward
<1>15. ASSUME NEW c \in Callers, StopPortForwardReturns(c) PROVE TypeOK'
  BY <1>15 DEF StopPortForwardReturns
<1>16. ASSUME NEW c \in Callers, ClearConnector(c) PROVE TypeOK'
  BY <1>16 DEF ClearConnector
<1>17. ASSUME NEW c \in Callers, NEW m \in Cmds, StartKubectl(c, m) PROVE TypeOK'
  BY <1>17 DEF StartKubectl
<1>18. ASSUME NEW m \in Cmds, KubectlListens(m) PROVE TypeOK'
  BY <1>18 DEF KubectlListens
<1>19. ASSUME NEW m \in Cmds, KubectlEnds(m) PROVE TypeOK'
  BY <1>19 DEF KubectlEnds
<1>20. CASE Restart
  BY <1>20 DEF Restart
<1>21. CASE UNCHANGED <<toolVars, netVars>>
  BY <1>21
<1>22. ASSUME NEW p \in Foreign, ProgramBinds(p) PROVE TypeOK'
  BY <1>22 DEF ProgramBinds
<1>23. ASSUME NEW p \in Foreign, ProgramReleases(p) PROVE TypeOK'
  BY <1>23 DEF ProgramReleases
<1>. QED
  BY <1>1, <1>2, <1>3, <1>4, <1>5, <1>6, <1>7, <1>8, <1>9, <1>10, <1>11, <1>12,
     <1>13, <1>14, <1>15, <1>16, <1>17, <1>18, <1>19, <1>20, <1>21, <1>22, <1>23
  DEF Next, Forwarding, StoppingForward, Connecting, vars

\* ... and every call where its variables say.
LEMMA CallStep ==
    ASSUME TypeOK, CallInv, [Next]_vars
    PROVE  CallInv'
<1> USE ToolAssumption, ConnectorAssumption
    DEF TypeOK, ConnectorTypeOK, CallInv, ForwardPC, HasPort, StopPC, InConnector, Goto, Return,
        toolVars, netVars, connVars, callVars, At, Leave
<1>1. ASSUME NEW c \in Callers, NEW k \in Connectors, NEW r \in Requests, Invoke(c, k, r)
      PROVE  CallInv'
  BY <1>1 DEF Invoke
<1>2. ASSUME NEW c \in Callers, Rejected(c) \/ ReplyEstablished(c) \/ ClearConnector(c) PROVE CallInv'
  BY <1>2 DEF Rejected, ReplyEstablished, ClearConnector
<1>3. ASSUME NEW c \in Callers, InvokeStop(c) PROVE CallInv'
  BY <1>3 DEF InvokeStop
<1>4. ASSUME NEW c \in Callers, ProbeOpens(c) \/ ProbeCloses(c) \/ StoreConnector(c) PROVE CallInv'
  BY <1>4 DEF ProbeOpens, ProbeCloses, StoreConnector
<1>5. ASSUME NEW c \in Callers, ProbeFails(c) PROVE CallInv'
  BY <1>5 DEF ProbeFails
<1>6. ASSUME NEW c \in Callers, TestConnection(c) \/ CheckResourceExists(c) PROVE CallInv'
  BY <1>6 DEF TestConnection, CheckResourceExists
<1>7. ASSUME NEW c \in Callers, CallPortForward(c) \/ CallStopPortForward(c) PROVE CallInv'
  BY <1>7 DEF CallPortForward, CallStopPortForward, Call
<1>8. ASSUME NEW c \in Callers, PortForwardReturns(c) \/ StopPortForwardReturns(c) PROVE CallInv'
  BY <1>8 DEF PortForwardReturns, StopPortForwardReturns, Taken
<1>9. ASSUME NEW c \in Callers, ReadConnector(c) PROVE CallInv'
  BY <1>9 DEF ReadConnector
<1>10. ASSUME NEW c \in Callers, cpc[c] # "idle", NEW p \in STRING, At(c, p),
              UNCHANGED <<doing, on, toolVars>>
       PROVE  CallInv'
  BY <1>10
<1>11. ASSUME NEW c \in Callers, Connecting(c) \/ (Lock(c) /\ UNCHANGED <<toolVars, netVars>>)
       PROVE  CallInv'
  BY <1>10, <1>11
  DEF Connecting, Stopping, StopNothing, StopKill, StopKillFails, StopWait, Stopped, StartFails,
      StartKubectl, Start, Lock
<1>12. CASE Restart
  BY <1>12 DEF Restart, NewProgram
<1>13. ASSUME NEW m \in Cmds, KubectlListens(m) \/ KubectlEnds(m)
                               \/ (Reap(m) /\ UNCHANGED <<toolVars, netVars>>)
       PROVE  CallInv'
  BY <1>13 DEF KubectlListens, KubectlEnds, KubectlExits, Reap
<1>14. CASE UNCHANGED vars
  BY <1>14 DEF vars
<1>15. ASSUME NEW p \in Foreign, ProgramBinds(p) \/ ProgramReleases(p) PROVE CallInv'
  BY <1>15 DEF ProgramBinds, ProgramReleases
<1> HIDE DEF TypeOK, ConnectorTypeOK, CallInv, toolVars, netVars
<1>. QED
  BY <1>1, <1>2, <1>3, <1>4, <1>5, <1>6, <1>7, <1>8, <1>9, <1>11, <1>12, <1>13, <1>14, <1>15
  DEF Next, Forwarding, StoppingForward

-----------------------------------------------------------------------------
(* Sequential use *)

\* Who makes a forward in sequential use is remembered; who forgets it has stopped it.
LEMMA SequentialStep ==
    ASSUME TypeOK, ConnectorInv, CallInv, SequentialInv, [Next]_vars
    PROVE  SequentialInv'
<1> SUFFICES ASSUME hist' = {} PROVE SequentialInv'
  BY DEF SequentialInv
<1>1. hist = {}
  <2>1. ASSUME NEW c \in Callers, NEW k \in Connectors, NEW r \in Requests, Invoke(c, k, r)
        PROVE  hist = {}
    BY <2>1 DEF Invoke, Note
  <2>2. ASSUME NEW c \in Callers, InvokeStop(c) \/ ProbeOpens(c) \/ StoreConnector(c)
        PROVE  hist = {}
    BY <2>2 DEF InvokeStop, ProbeOpens, StoreConnector, Note
  <2>3. ASSUME Restart PROVE FALSE
    BY <2>3 DEF Restart
  <2>4. CASE UNCHANGED hist
    BY <2>4
  <2>. QED
    BY <2>1, <2>2, <2>3, <2>4
    DEF Next, Forwarding, StoppingForward, Connecting, Rejected, ProbeFails, ProbeCloses,
        TestConnection, CheckResourceExists, CallPortForward, PortForwardReturns, ReplyEstablished,
        ReadConnector, CallStopPortForward, StopPortForwardReturns, ClearConnector, StartKubectl,
        KubectlListens, KubectlEnds, ProgramBinds, ProgramReleases, vars, toolVars
<1> USE ToolAssumption, ConnectorAssumption
    DEF TypeOK, ConnectorTypeOK, CallInv, SequentialInv, ForwardPC, HasPort, StopPC, Stops, Forwards,
        Running, Goto, Return, toolVars, netVars, connVars, callVars
<1>2. ASSUME NEW c \in Callers, NEW k \in Connectors, NEW r \in Requests, Invoke(c, k, r)
      PROVE  SequentialInv'
  BY <1>1, <1>2 DEF Invoke, Note
<1>3. ASSUME NEW c \in Callers, Return(c), UNCHANGED <<lastConnector, hist, connVars>>
      PROVE  SequentialInv'
  BY <1>1, <1>3
<1>4. ASSUME NEW c \in Callers, InvokeStop(c) PROVE SequentialInv'
  BY <1>1, <1>4 DEF InvokeStop, Note
<1>5. ASSUME NEW c \in Callers, ProbeOpens(c) PROVE SequentialInv'
  BY <1>1, <1>5 DEF ProbeOpens
<1>6. ASSUME NEW c \in Callers, ProbeFails(c) PROVE SequentialInv'
  <2>1. CASE UNCHANGED <<tpc, req, conn>>
    BY <1>1, <1>6, <2>1 DEF ProbeFails
  <2>. QED
    BY <1>3, <1>6, <2>1 DEF ProbeFails
<1>7. ASSUME NEW c \in Callers, ProbeCloses(c) PROVE SequentialInv'
  BY <1>1, <1>7 DEF ProbeCloses
<1>8. ASSUME NEW c \in Callers, StoreConnector(c) PROVE SequentialInv'
  BY <1>1, <1>8 DEF StoreConnector, Note, OtherForward
<1>9. ASSUME NEW c \in Callers, TestConnection(c) PROVE SequentialInv'
  BY <1>1, <1>9 DEF TestConnection
<1>10. ASSUME NEW c \in Callers, CheckResourceExists(c) PROVE SequentialInv'
  <2>1. CASE Goto(c, "forward") /\ UNCHANGED <<req, conn>>
    BY <1>1, <1>10, <2>1 DEF CheckResourceExists
  <2>. QED
    BY <1>3, <1>10, <2>1 DEF CheckResourceExists
<1>11. ASSUME NEW c \in Callers, CallPortForward(c) PROVE SequentialInv'
  BY <1>1, <1>11 DEF CallPortForward, Call, At
<1>12. ASSUME NEW c \in Callers, PortForwardReturns(c) PROVE SequentialInv'
  <2>1. CASE Goto(c, "settle") /\ UNCHANGED <<req, conn>>
    BY <1>1, <1>12, <2>1 DEF PortForwardReturns, Taken, At
  <2>2. CASE Return(c)
    BY <1>1, <1>12, <2>2 DEF PortForwardReturns, Taken, At
  <2>. QED
    BY <1>12, <2>1, <2>2 DEF PortForwardReturns
<1>13. ASSUME NEW c \in Callers, ReadConnector(c) PROVE SequentialInv'
  BY <1>1, <1>13 DEF ReadConnector
<1>14. ASSUME NEW c \in Callers, CallStopPortForward(c) PROVE SequentialInv'
  BY <1>1, <1>14 DEF CallStopPortForward, Call, At
<1>15. ASSUME NEW c \in Callers, StopPortForwardReturns(c) PROVE SequentialInv'
  <2>1. CASE cpc[c] = "ok" /\ Goto(c, "clear") /\ UNCHANGED <<req, conn>>
    BY <1>1, <1>15, <2>1 DEF StopPortForwardReturns, Taken, At
  <2>2. CASE Return(c)
    BY <1>1, <1>15, <2>2 DEF StopPortForwardReturns, Taken, At
  <2>. QED
    BY <1>15, <2>1, <2>2 DEF StopPortForwardReturns
<1>16. ASSUME NEW c \in Callers, ClearConnector(c) PROVE SequentialInv'
  BY <1>1, <1>16 DEF ClearConnector
<1>17. ASSUME NEW c \in Callers, StopNothing(c), UNCHANGED <<toolVars, netVars>> PROVE SequentialInv'
  BY <1>1, <1>17 DEF StopNothing, Stopped, At, Leave, ConnectorInv, HeldInv
<1>18. ASSUME NEW c \in Callers, StopKill(c) \/ StopKillFails(c) \/ StartFails(c) \/ Lock(c),
              UNCHANGED <<toolVars, netVars>>
       PROVE  SequentialInv'
  BY <1>1, <1>18 DEF StopKill, StopKillFails, StartFails, Lock, At, Leave
<1>19. ASSUME NEW c \in Callers, StopWait(c), UNCHANGED <<toolVars, netVars>> PROVE SequentialInv'
  BY <1>1, <1>19 DEF StopWait, Stopped, At, Leave, ConnectorInv, HeldInv, PlaceInv
<1>20. ASSUME NEW c \in Callers, NEW m \in Cmds, StartKubectl(c, m) PROVE SequentialInv'
  BY <1>1, <1>20 DEF StartKubectl, Start, At, Leave, ConnectorInv, PlaceInv, LockInv, InConnector
<1>21. ASSUME NEW m \in Cmds, KubectlListens(m) PROVE SequentialInv'
  BY <1>1, <1>21 DEF KubectlListens
<1>22. ASSUME NEW m \in Cmds, KubectlEnds(m) \/ (Reap(m) /\ UNCHANGED <<toolVars, netVars>>)
       PROVE  SequentialInv'
  BY <1>1, <1>22 DEF KubectlEnds, KubectlExits, Reap
<1>23. CASE Restart
  BY <1>23 DEF Restart
<1>24. CASE UNCHANGED vars
  BY <1>1, <1>24 DEF vars
<1>25. ASSUME NEW p \in Foreign, ProgramBinds(p) \/ ProgramReleases(p) PROVE SequentialInv'
  BY <1>1, <1>25 DEF ProgramBinds, ProgramReleases
<1> HIDE DEF TypeOK, ConnectorTypeOK, CallInv, SequentialInv, toolVars, netVars
<1>. QED
  BY <1>2, <1>3, <1>4, <1>5, <1>6, <1>7, <1>8, <1>9, <1>10, <1>11, <1>12, <1>13, <1>14, <1>15,
     <1>16, <1>17, <1>18, <1>19, <1>20, <1>21, <1>22, <1>23, <1>24, <1>25
  DEF Next, Forwarding, StoppingForward, Connecting, Stopping, Rejected, ReplyEstablished

-----------------------------------------------------------------------------
(* Ports *)

\* A port that is chosen while nobody else is after it stays its chooser's.
LEMMA PortStep ==
    ASSUME TypeOK, ConnectorInv, CallInv, PortInv, [Next]_vars
    PROVE  PortInv'
<1> USE ToolAssumption, ConnectorAssumption
    DEF TypeOK, ConnectorTypeOK, CallInv, PortInv, ForwardPC, HasPort, StopPC,
        Running, Goto, Return, toolVars, netVars, connVars, callVars
<1>1. ASSUME NEW c \in Callers, NEW k \in Connectors, NEW r \in Requests, Invoke(c, k, r)
      PROVE  PortInv'
  BY <1>1 DEF Invoke, Note
<1>2. ASSUME NEW c \in Callers, Rejected(c) \/ ReplyEstablished(c) PROVE PortInv'
  BY <1>2 DEF Rejected, ReplyEstablished
<1>3. ASSUME NEW c \in Callers, InvokeStop(c) PROVE PortInv'
  BY <1>3 DEF InvokeStop, Note
<1>4. ASSUME NEW c \in Callers, ProbeOpens(c) PROVE PortInv'
  BY <1>4 DEF ProbeOpens, BoundPorts, Note, Contended, Chose
<1>5. ASSUME NEW c \in Callers, ProbeFails(c) PROVE PortInv'
  BY <1>5 DEF ProbeFails
<1>6. ASSUME NEW c \in Callers, ProbeCloses(c) PROVE PortInv'
  BY <1>6 DEF ProbeCloses
<1>7. ASSUME NEW c \in Callers, StoreConnector(c) PROVE PortInv'
  BY <1>7 DEF StoreConnector, Note
<1>8. ASSUME NEW c \in Callers, TestConnection(c) PROVE PortInv'
  BY <1>8 DEF TestConnection
<1>9. ASSUME NEW c \in Callers, CheckResourceExists(c) PROVE PortInv'
  BY <1>9 DEF CheckResourceExists
<1>10. ASSUME NEW c \in Callers, CallPortForward(c) PROVE PortInv'
  BY <1>10 DEF CallPortForward, Call, At
<1>11. ASSUME NEW c \in Callers, PortForwardReturns(c) PROVE PortInv'
  BY <1>11 DEF PortForwardReturns, Taken, At
<1>12. ASSUME NEW c \in Callers, ReadConnector(c) PROVE PortInv'
  BY <1>12 DEF ReadConnector
<1>13. ASSUME NEW c \in Callers, CallStopPortForward(c) PROVE PortInv'
  BY <1>13 DEF CallStopPortForward, Call, At
<1>14. ASSUME NEW c \in Callers, StopPortForwardReturns(c) PROVE PortInv'
  BY <1>14 DEF StopPortForwardReturns, Taken, At
<1>15. ASSUME NEW c \in Callers, ClearConnector(c) PROVE PortInv'
  BY <1>15 DEF ClearConnector
<1>16. ASSUME NEW c \in Callers, Stopping(c) \/ StartFails(c) \/ Lock(c), UNCHANGED <<toolVars, netVars>>
       PROVE  PortInv'
  <2>1. by' = by /\ \A m \in Cmds : proc'[m] = "running" => proc[m] = "running"
    BY <1>16 DEF Stopping, StopNothing, StopKill, StopKillFails, StopWait, StartFails, Lock
  <2>. QED
    BY <1>16, <2>1
<1>17. ASSUME NEW c \in Callers, NEW m \in Cmds, StartKubectl(c, m) PROVE PortInv'
  <2>1. tpc[c] = "forwarding" /\ on[c] = conn[c]
    BY <1>17 DEF StartKubectl, Start, ConnectorInv, PlaceInv
  <2>. QED
    BY <1>17, <2>1 DEF StartKubectl, Start
<1>18. ASSUME NEW m \in Cmds, KubectlListens(m) PROVE PortInv'
  BY <1>18 DEF KubectlListens
<1>19. ASSUME NEW m \in Cmds, KubectlEnds(m) \/ (Reap(m) /\ UNCHANGED <<toolVars, netVars>>)
       PROVE  PortInv'
  BY <1>19 DEF KubectlEnds, KubectlExits, Reap
<1>20. CASE Restart
  BY <1>20 DEF Restart
<1>21. CASE UNCHANGED vars
  BY <1>21 DEF vars
<1>22. ASSUME NEW p \in Foreign, ProgramBinds(p) PROVE PortInv'
  BY <1>22 DEF ProgramBinds, Chose
<1>23. ASSUME NEW p \in Foreign, ProgramReleases(p) PROVE PortInv'
  BY <1>23 DEF ProgramReleases
<1> HIDE DEF TypeOK, ConnectorTypeOK, CallInv, PortInv, toolVars, netVars
<1>. QED
  BY <1>1, <1>2, <1>3, <1>4, <1>5, <1>6, <1>7, <1>8, <1>9, <1>10, <1>11, <1>12, <1>13, <1>14, <1>15,
     <1>16, <1>17, <1>18, <1>19, <1>20, <1>21, <1>22, <1>23
  DEF Next, Forwarding, StoppingForward, Connecting

-----------------------------------------------------------------------------
(* What follows *)

\* The invariant holds in every state that the tool can reach.
THEOREM ToolInductive == Spec => []Inv
<1>1. Init => Inv
  <2>1. ConnectorInit => ConnectorInv
    BY ConnectorStarts DEF IInv
  <2>. QED
    BY <2>1, ToolAssumption, ConnectorAssumption
    DEF Init, ConnectorInit, Inv, TypeOK, ConnectorInv, CallInv, SequentialInv, PortInv,
        ForwardPC, HasPort, StopPC, Running, Stops, Forwards
<1>2. Inv /\ [Next]_vars => Inv'
  <2>1. Inv /\ [Next]_vars => ConnectorInv'
    BY UsesStep, ConnectorKept DEF Inv
  <2>2. Inv /\ [Next]_vars => TypeOK'
    BY <2>1, TypeStep DEF Inv, ConnectorInv
  <2>. QED
    BY <2>1, <2>2, CallStep, SequentialStep, PortStep DEF Inv
<1>. QED
  BY <1>1, <1>2, PTL DEF Spec

\* The variables of the kube tool always have their types.
THEOREM ToolTypes == Spec => []TypeOK
<1>1. Inv => TypeOK
  BY DEF Inv
<1>. QED
  BY <1>1, ToolInductive, PTL

\* Whatever calls overlap, a StopPortForward that succeeds leaves nothing
\* of its connector running ...
THEOREM ToolStopsStop == Spec => StopStops
<1>1. Inv /\ [Next]_vars =>
        [\A c \in Callers :
            cpc[c] \in InConnector /\ doing[c] = "stop" /\ cpc'[c] = "ok" =>
                \A m \in Cmds : by'[m] = on[c] => proc'[m] # "running"]_connVars
  <2> SUFFICES ASSUME Inv, [Next]_vars
               PROVE  [\A c \in Callers :
                        cpc[c] \in InConnector /\ doing[c] = "stop" /\ cpc'[c] = "ok" =>
                            \A m \in Cmds : by'[m] = on[c] => proc'[m] # "running"]_connVars
    OBVIOUS
  <2>1. CASE [ConnectorNext]_connVars
    BY <2>1, StopStep DEF Inv
  <2>2. CASE NewConnector \/ NewProgram
    BY <2>2 DEF NewConnector, NewProgram, callVars, InConnector
  <2>. QED
    BY <2>1, <2>2, UsesStep DEF Inv
<1>. QED
  BY <1>1, ToolInductive, PTL DEF Spec, StopStops

\* ... and one that signals a kubectl not its own does so by a number given out again.
THEOREM ToolStraysByReuse == Spec => StrayTermOnlyByReuse
<1>1. Inv /\ [Next]_vars =>
        [\A c \in Callers, m \in Cmds :
            cpc[c] = "stop" /\ cpc'[c] = "wait" /\ ~termed[m] /\ termed'[m] =>
                LET own == pfc[on[c]] IN
                m = own \/ (proc[own] = "reaped" /\ pid[m] = pid[own])]_connVars
  <2> SUFFICES ASSUME Inv, [Next]_vars
               PROVE  [\A c \in Callers, m \in Cmds :
                        cpc[c] = "stop" /\ cpc'[c] = "wait" /\ ~termed[m] /\ termed'[m] =>
                            LET own == pfc[on[c]] IN
                            m = own \/ (proc[own] = "reaped" /\ pid[m] = pid[own])]_connVars
    OBVIOUS
  <2>1. CASE [ConnectorNext]_connVars
    BY <2>1, StrayStep DEF Inv
  <2>2. CASE NewConnector \/ NewProgram
    BY <2>2 DEF NewConnector, NewProgram, callVars
  <2>. QED
    BY <2>1, <2>2, UsesStep DEF Inv
<1>. QED
  BY <1>1, ToolInductive, PTL DEF Spec, StrayTermOnlyByReuse

\* As long as no forward has been made beside another and no stop has overlapped
\* one, every kubectl that runs can be stopped through what the tool remembers.
THEOREM SequentiallyStoppable == Spec => []StoppableWhenSequential
<1>1. Inv => StoppableWhenSequential
  BY DEF Inv, SequentialInv, StoppableWhenSequential, Stoppable
<1>. QED
  BY <1>1, ToolInductive, PTL

\* Then a stop that reports success, or that nothing runs, tells the truth.
THEOREM SequentialStopTrue == Spec => SequentialStopStops
<1>1. ASSUME Inv, [Next]_vars, NEW c \in Callers, hist' = {}, SaysStopped(c)
      PROVE  Running' = {}
  <2> USE <1>1, ToolAssumption, ConnectorAssumption
      DEF Inv, TypeOK, SaysStopped, ReturnsFrom, Goto, Return, Running
  <2>1. ASSUME ClearConnector(c) PROVE Running' = {}
    BY <2>1 DEF ClearConnector, connVars, SequentialInv
  <2>2. ASSUME ReadConnector(c) PROVE Running' = {}
    BY <2>2 DEF ReadConnector, connVars, SequentialInv
  <2>3. ASSUME NEW d \in Callers, Forwarding(d) PROVE FALSE
    BY <2>3
    DEF Forwarding, Rejected, ProbeOpens, ProbeFails, ProbeCloses, StoreConnector, TestConnection,
        CheckResourceExists, CallPortForward, PortForwardReturns, ReplyEstablished
  <2>4. ASSUME NEW d \in Callers, CallStopPortForward(d) \/ StopPortForwardReturns(d) PROVE FALSE
    BY <2>4 DEF CallStopPortForward, StopPortForwardReturns, toolVars
  <2>5. ASSUME NEW d \in Callers, d # c, ReadConnector(d) \/ ClearConnector(d) PROVE FALSE
    BY <2>5 DEF ReadConnector, ClearConnector
  <2>6. ASSUME NEW d \in Callers, NEW k \in Connectors, NEW r \in Requests,
               Invoke(d, k, r)
        PROVE  FALSE
    BY <2>6 DEF Invoke
  <2>7. ASSUME NEW d \in Callers, InvokeStop(d) PROVE FALSE
    BY <2>7 DEF InvokeStop
  <2>8. ASSUME Restart PROVE FALSE
    BY <2>8 DEF Restart
  <2>9. ASSUME UNCHANGED tpc PROVE FALSE
    BY <2>9
  <2> HIDE DEF Inv, SaysStopped
  <2>. QED
    BY <2>1, <2>2, <2>3, <2>4, <2>5, <2>6, <2>7, <2>8, <2>9
    DEF Next, StoppingForward, Connecting, StartKubectl, KubectlListens, KubectlEnds, ProgramBinds,
        ProgramReleases, vars, toolVars
<1>2. Inv /\ [Next]_vars => [\A c \in Callers : hist' = {} /\ SaysStopped(c) => Running' = {}]_vars
  BY <1>1
<1>. QED
  BY <1>2, ToolInductive, PTL DEF Spec, SequentialStopStops

\* Another program that holds a promised port has taken it since the call found it free,
\* and no kubectl but the call's own listens there unless two were after the port at a
\* time, a restart in between or not.
THEOREM UncontestedPortIsOwn == Spec => []PortIsOwnUnlessContested
<1>1. Inv => PortIsOwnUnlessContested
  BY DEF Inv, PortInv, HasPort, PortIsOwnUnlessContested
<1>. QED
  BY <1>1, ToolInductive, PTL

=============================================================================
