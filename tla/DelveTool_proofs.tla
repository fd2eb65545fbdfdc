--------------------------- MODULE DelveTool_proofs ---------------------------
(***************************************************************************)
(* Proofs about the Delve tool, for any number of ids, goroutines,         *)
(* sessions and pids: its type invariant, the inductive invariant of its   *)
(* locking, what follows from it, and that it implements SessionRegistry.  *)
(***************************************************************************)
EXTENDS DelveTool, TLAPS

-----------------------------------------------------------------------------
(* The inductive invariant *)

CommandPC == {"acquire", "write", "wait"}

\* sessionMu is held by the goroutine that is inside its critical section.
LockInv == \A a \in Agents : pc[a] \in LockedPC <=> sessionMu = a

\* Where a goroutine works on an id, or on a session, it has one.
WellPlaced == \A a \in Agents :
    /\ pc[a] \in {"connect", "lookup", "disconnect", "start", "settle"} \cup CleanupPC =>
        arg[a] \in Ids
    /\ pc[a] \in {"settle"} \cup CommandPC \cup CleanupPC => ses[a] \in Sessions

\* What the table says of them.
PlaceInv == \A a \in Agents :
    /\ pc[a] \in {"idle", "connect", "start", "lookup", "disconnect", "sweep"} => ses[a] = None
    /\ pc[a] \in {"start", "settle"} => sessions[arg[a]] = None
    /\ pc[a] = "settle" => ses[a] \notin Bound
    /\ pc[a] \in CleanupPC => sessions[arg[a]] = ses[a]

\* Two ids never lead to one session.
TableInv == \A i, j \in Ids : sessions[i] # None /\ sessions[i] = sessions[j] => i = j

\* A published session, or one about to be, is live but for its own cleanup.
LiveInv == \A s \in Sessions :
    s \in Bound \/ (\E a \in Agents : pc[a] = "settle" /\ ses[a] = s) =>
        /\ ~cancelled[s]
        /\ closed[s] => proc[s] = "reaped" \/ BeingCleaned(s)

\* The pipes are closed before the entry is deleted, so that a command which
\* still has the session finds it closed.
ClosedInv == \A a \in Agents :
    /\ pc[a] \in {"kill", "finish"} => closed[ses[a]]
    /\ pc[a] \in CommandPC => ses[a] \in Bound \/ closed[ses[a]]

IInv ==
    /\ TypeOK /\ WellPlaced
    /\ LockInv /\ PlaceInv /\ TableInv /\ LiveInv /\ ClosedInv
    /\ NoLostDebugger

-----------------------------------------------------------------------------
(* Type correctness *)

\* Every step keeps each variable in its range ...
LEMMA TypeStep ==
    ASSUME TypeOK, WellPlaced, [Next]_vars
    PROVE  TypeOK'
<1> USE DelveAssumption DEF TypeOK, Agents, PCs, CleanupPC, Goto, Return, toolVars, procVars, sesVars, WellPlaced, CommandPC
<1>1. ASSUME NEW c \in Calls, Request(c) PROVE TypeOK'
  BY <1>1 DEF Request, Invoke
<1>2. ASSUME NEW c \in Calls, ConnectCheck(c) PROVE TypeOK'
  BY <1>2 DEF ConnectCheck
<1>3. ASSUME NEW c \in Calls, CommandLookup(c) PROVE TypeOK'
  BY <1>3 DEF CommandLookup
<1>4. ASSUME NEW c \in Calls, CommandAcquire(c) PROVE TypeOK'
  BY <1>4 DEF CommandAcquire
<1>5. ASSUME NEW c \in Calls, DisconnectCheck(c) PROVE TypeOK'
  BY <1>5 DEF DisconnectCheck
<1>6. ASSUME NEW c \in Calls, ConnectStartFails(c) PROVE TypeOK'
  BY <1>6 DEF ConnectStartFails
<1>7. ASSUME NEW c \in Calls, ConnectStart(c) PROVE TypeOK'
  BY <1>7 DEF ConnectStart
<1>8. ASSUME NEW c \in Calls, ConnectPublish(c) PROVE TypeOK'
  BY <1>8 DEF ConnectPublish
<1>9. ASSUME NEW c \in Calls, CommandWrite(c) PROVE TypeOK'
  BY <1>9 DEF CommandWrite, Writable
<1>10. ASSUME NEW c \in Calls, CommandWriteFails(c) PROVE TypeOK'
  BY <1>10 DEF CommandWriteFails
<1>11. ASSUME NEW c \in Calls, CommandDone(c) PROVE TypeOK'
  BY <1>11 DEF CommandDone
<1>12. CASE SweepStart
  BY <1>12 DEF SweepStart
<1>13. CASE SweepNext
  BY <1>13 DEF SweepNext
<1>14. CASE SweepEnd
  BY <1>14 DEF SweepEnd
<1>15. ASSUME NEW a \in Agents, CleanupExit(a) PROVE TypeOK'
  BY <1>15 DEF CleanupExit, Stalled, Broken
<1>16. ASSUME NEW a \in Agents, CleanupClose(a) PROVE TypeOK'
  BY <1>16 DEF CleanupClose
<1>17. ASSUME NEW a \in Agents, CleanupKill(a) PROVE TypeOK'
  BY <1>17 DEF CleanupKill
<1>18. ASSUME NEW a \in Agents, CleanupFinish(a) PROVE TypeOK'
  BY <1>18 DEF CleanupFinish
<1>19. ASSUME NEW s \in Sessions, DlvReads(s) PROVE TypeOK'
  BY <1>19 DEF DlvReads
<1>20. ASSUME NEW s \in Sessions, DlvExits(s) PROVE TypeOK'
  BY <1>20 DEF DlvExits
<1>21. ASSUME NEW s \in Sessions, Reap(s) PROVE TypeOK'
  BY <1>21 DEF Reap
<1>22. CASE Tick
  BY <1>22 DEF Tick
<1>23. CASE UNCHANGED vars
  BY <1>23 DEF vars
<1>. QED
  BY <1>1, <1>2, <1>3, <1>4, <1>5, <1>6, <1>7, <1>8, <1>9, <1>10, <1>11, <1>12,
     <1>13, <1>14, <1>15, <1>16, <1>17, <1>18, <1>19, <1>20, <1>21, <1>22, <1>23
     DEF Next, Locking, Handling, Cleanup

\* ... and leaves no goroutine without the id or the session that it needs.
LEMMA PlacedStep ==
    ASSUME TypeOK, WellPlaced, [Next]_vars
    PROVE  WellPlaced'
<1> USE DelveAssumption DEF TypeOK, Agents, PCs, CleanupPC, Goto, Return, toolVars, procVars, sesVars, WellPlaced, CommandPC
<1>1. ASSUME NEW c \in Calls, Request(c) PROVE WellPlaced'
  BY <1>1 DEF Request, Invoke
<1>2. ASSUME NEW c \in Calls, ConnectCheck(c) PROVE WellPlaced'
  BY <1>2 DEF ConnectCheck
<1>3. ASSUME NEW c \in Calls, CommandLookup(c) PROVE WellPlaced'
  BY <1>3 DEF CommandLookup
<1>4. ASSUME NEW c \in Calls, CommandAcquire(c) PROVE WellPlaced'
  BY <1>4 DEF CommandAcquire
<1>5. ASSUME NEW c \in Calls, DisconnectCheck(c) PROVE WellPlaced'
  BY <1>5 DEF DisconnectCheck
<1>6. ASSUME NEW c \in Calls, ConnectStartFails(c) PROVE WellPlaced'
  BY <1>6 DEF ConnectStartFails
<1>7. ASSUME NEW c \in Calls, ConnectStart(c) PROVE WellPlaced'
  BY <1>7 DEF ConnectStart
<1>8. ASSUME NEW c \in Calls, ConnectPublish(c) PROVE WellPlaced'
  BY <1>8 DEF ConnectPublish
<1>9. ASSUME NEW c \in Calls, CommandWrite(c) PROVE WellPlaced'
  BY <1>9 DEF CommandWrite, Writable
<1>10. ASSUME NEW c \in Calls, CommandWriteFails(c) PROVE WellPlaced'
  BY <1>10 DEF CommandWriteFails
<1>11. ASSUME NEW c \in Calls, CommandDone(c) PROVE WellPlaced'
  BY <1>11 DEF CommandDone
<1>12. CASE SweepStart
  BY <1>12 DEF SweepStart
<1>13. CASE SweepNext
  BY <1>13 DEF SweepNext
<1>14. CASE SweepEnd
  BY <1>14 DEF SweepEnd
<1>15. ASSUME NEW a \in Agents, CleanupExit(a) PROVE WellPlaced'
  BY <1>15 DEF CleanupExit, Stalled, Broken
<1>16. ASSUME NEW a \in Agents, CleanupClose(a) PROVE WellPlaced'
  BY <1>16 DEF CleanupClose
<1>17. ASSUME NEW a \in Agents, CleanupKill(a) PROVE WellPlaced'
  BY <1>17 DEF CleanupKill
<1>18. ASSUME NEW a \in Agents, CleanupFinish(a) PROVE WellPlaced'
  BY <1>18 DEF CleanupFinish
<1>19. ASSUME NEW s \in Sessions, DlvReads(s) PROVE WellPlaced'
  BY <1>19 DEF DlvReads
<1>20. ASSUME NEW s \in Sessions, DlvExits(s) PROVE WellPlaced'
  BY <1>20 DEF DlvExits
<1>21. ASSUME NEW s \in Sessions, Reap(s) PROVE WellPlaced'
  BY <1>21 DEF Reap
<1>22. CASE Tick
  BY <1>22 DEF Tick
<1>23. CASE UNCHANGED vars
  BY <1>23 DEF vars
<1>. QED
  BY <1>1, <1>2, <1>3, <1>4, <1>5, <1>6, <1>7, <1>8, <1>9, <1>10, <1>11, <1>12,
     <1>13, <1>14, <1>15, <1>16, <1>17, <1>18, <1>19, <1>20, <1>21, <1>22, <1>23
     DEF Next, Locking, Handling, Cleanup

\* The variables of the Delve tool always have their types.
THEOREM TypeCorrect == Spec => []TypeOK
<1>1. Init => TypeOK /\ WellPlaced
  BY DelveAssumption DEF Init, TypeOK, WellPlaced, CommandPC, CleanupPC, Agents, PCs
<1>2. TypeOK /\ WellPlaced /\ [Next]_vars => (TypeOK /\ WellPlaced)'
  BY TypeStep, PlacedStep
<1>. QED
  BY <1>1, <1>2, PTL DEF Spec

-----------------------------------------------------------------------------
(* The invariant is inductive *)

\* sessionMu is taken on the way into a critical section and released on the
\* way out, by its holder only.
LEMMA LockStep ==
    ASSUME TypeOK, WellPlaced, LockInv, [Next]_vars
    PROVE  LockInv'
<1> USE DelveAssumption DEF TypeOK, Agents, Goto, Return, toolVars, procVars, sesVars, PCs,
       CleanupPC, LockedPC, LockInv
<1>1. ASSUME NEW c \in Calls, Request(c) PROVE LockInv'
  BY <1>1 DEF Request, Invoke
<1>2. ASSUME NEW c \in Calls, ConnectCheck(c) PROVE LockInv'
  BY <1>2 DEF ConnectCheck
<1>3. ASSUME NEW c \in Calls, CommandLookup(c) PROVE LockInv'
  BY <1>3 DEF CommandLookup
<1>4. ASSUME NEW c \in Calls, CommandAcquire(c) PROVE LockInv'
  BY <1>4 DEF CommandAcquire
<1>5. ASSUME NEW c \in Calls, DisconnectCheck(c) PROVE LockInv'
  BY <1>5 DEF DisconnectCheck
<1>6. ASSUME NEW c \in Calls, ConnectStartFails(c) PROVE LockInv'
  BY <1>6 DEF ConnectStartFails
<1>7. ASSUME NEW c \in Calls, ConnectStart(c) PROVE LockInv'
  BY <1>7 DEF ConnectStart
<1>8. ASSUME NEW c \in Calls, ConnectPublish(c) PROVE LockInv'
  BY <1>8 DEF ConnectPublish
<1>9. ASSUME NEW c \in Calls, CommandWrite(c) PROVE LockInv'
  BY <1>9 DEF CommandWrite
<1>10. ASSUME NEW c \in Calls, CommandWriteFails(c) PROVE LockInv'
  BY <1>10 DEF CommandWriteFails
<1>11. ASSUME NEW c \in Calls, CommandDone(c) PROVE LockInv'
  BY <1>11 DEF CommandDone
<1>12. CASE SweepStart
  BY <1>12 DEF SweepStart
<1>13. CASE SweepNext
  BY <1>13 DEF SweepNext
<1>14. CASE SweepEnd
  BY <1>14 DEF SweepEnd
<1>15. ASSUME NEW a \in Agents, CleanupExit(a) PROVE LockInv'
  BY <1>15 DEF CleanupExit
<1>16. ASSUME NEW a \in Agents, CleanupClose(a) PROVE LockInv'
  BY <1>16 DEF CleanupClose
<1>17. ASSUME NEW a \in Agents, CleanupKill(a) PROVE LockInv'
  BY <1>17 DEF CleanupKill
<1>18. ASSUME NEW a \in Agents, CleanupFinish(a) PROVE LockInv'
  BY <1>18 DEF CleanupFinish
<1>19. ASSUME NEW s \in Sessions, DlvReads(s) PROVE LockInv'
  BY <1>19 DEF DlvReads
<1>20. ASSUME NEW s \in Sessions, DlvExits(s) PROVE LockInv'
  BY <1>20 DEF DlvExits
<1>21. ASSUME NEW s \in Sessions, Reap(s) PROVE LockInv'
  BY <1>21 DEF Reap
<1>22. CASE Tick
  BY <1>22 DEF Tick
<1>23. CASE UNCHANGED vars
  BY <1>23 DEF vars
<1>. QED
  BY <1>1, <1>2, <1>3, <1>4, <1>5, <1>6, <1>7, <1>8, <1>9, <1>10, <1>11, <1>12,
     <1>13, <1>14, <1>15, <1>16, <1>17, <1>18, <1>19, <1>20, <1>21, <1>22, <1>23
     DEF Next, Locking, Handling, Cleanup

\* Only the holder of sessionMu changes the table.
LEMMA PlaceStep ==
    ASSUME TypeOK, WellPlaced, LockInv, PlaceInv, TableInv, [Next]_vars
    PROVE  PlaceInv'
<1> USE DelveAssumption DEF TypeOK, Agents, Goto, Return, toolVars, procVars, sesVars, PCs,
       CleanupPC, CommandPC, LockedPC, LockInv, PlaceInv, WellPlaced, TableInv, Bound
<1>1. ASSUME NEW c \in Calls, Request(c) PROVE PlaceInv'
  BY <1>1 DEF Request, Invoke
<1>2. ASSUME NEW c \in Calls, ConnectCheck(c) PROVE PlaceInv'
  BY <1>2 DEF ConnectCheck
<1>3. ASSUME NEW c \in Calls, CommandLookup(c) PROVE PlaceInv'
  BY <1>3 DEF CommandLookup
<1>4. ASSUME NEW c \in Calls, CommandAcquire(c) PROVE PlaceInv'
  BY <1>4 DEF CommandAcquire
<1>5. ASSUME NEW c \in Calls, DisconnectCheck(c) PROVE PlaceInv'
  BY <1>5 DEF DisconnectCheck
<1>6. ASSUME NEW c \in Calls, ConnectStartFails(c) PROVE PlaceInv'
  BY <1>6 DEF ConnectStartFails
<1>7. ASSUME NEW c \in Calls, ConnectStart(c) PROVE PlaceInv'
  BY <1>7 DEF ConnectStart, Fresh
<1>8. ASSUME NEW c \in Calls, ConnectPublish(c) PROVE PlaceInv'
  BY <1>8 DEF ConnectPublish
<1>9. ASSUME NEW c \in Calls, CommandWrite(c) PROVE PlaceInv'
  BY <1>9 DEF CommandWrite
<1>10. ASSUME NEW c \in Calls, CommandWriteFails(c) PROVE PlaceInv'
  BY <1>10 DEF CommandWriteFails
<1>11. ASSUME NEW c \in Calls, CommandDone(c) PROVE PlaceInv'
  BY <1>11 DEF CommandDone
<1>12. CASE SweepStart
  BY <1>12 DEF SweepStart
<1>13. CASE SweepNext
  BY <1>13 DEF SweepNext
<1>14. CASE SweepEnd
  BY <1>14 DEF SweepEnd
<1>15. ASSUME NEW a \in Agents, CleanupExit(a) PROVE PlaceInv'
  BY <1>15 DEF CleanupExit
<1>16. ASSUME NEW a \in Agents, CleanupClose(a) PROVE PlaceInv'
  BY <1>16 DEF CleanupClose
<1>17. ASSUME NEW a \in Agents, CleanupKill(a) PROVE PlaceInv'
  BY <1>17 DEF CleanupKill
<1>18. ASSUME NEW a \in Agents, CleanupFinish(a) PROVE PlaceInv'
  BY <1>18 DEF CleanupFinish
<1>19. ASSUME NEW s \in Sessions, DlvReads(s) PROVE PlaceInv'
  BY <1>19 DEF DlvReads
<1>20. ASSUME NEW s \in Sessions, DlvExits(s) PROVE PlaceInv'
  BY <1>20 DEF DlvExits
<1>21. ASSUME NEW s \in Sessions, Reap(s) PROVE PlaceInv'
  BY <1>21 DEF Reap
<1>22. CASE Tick
  BY <1>22 DEF Tick
<1>23. CASE UNCHANGED vars
  BY <1>23 DEF vars
<1>. QED
  BY <1>1, <1>2, <1>3, <1>4, <1>5, <1>6, <1>7, <1>8, <1>9, <1>10, <1>11, <1>12,
     <1>13, <1>14, <1>15, <1>16, <1>17, <1>18, <1>19, <1>20, <1>21, <1>22, <1>23
     DEF Next, Locking, Handling, Cleanup

\* A session enters the table once.
LEMMA TableStep ==
    ASSUME TypeOK, WellPlaced, LockInv, PlaceInv, TableInv, [Next]_vars
    PROVE  TableInv'
<1> USE DelveAssumption DEF TypeOK, Agents, Goto, Return, toolVars, procVars, sesVars, PCs,
       CleanupPC, CommandPC, LockedPC, LockInv, PlaceInv, WellPlaced, TableInv, Bound
<1>1. ASSUME NEW c \in Calls, Request(c) PROVE TableInv'
  BY <1>1 DEF Request, Invoke
<1>2. ASSUME NEW c \in Calls, ConnectCheck(c) PROVE TableInv'
  BY <1>2 DEF ConnectCheck
<1>3. ASSUME NEW c \in Calls, CommandLookup(c) PROVE TableInv'
  BY <1>3 DEF CommandLookup
<1>4. ASSUME NEW c \in Calls, CommandAcquire(c) PROVE TableInv'
  BY <1>4 DEF CommandAcquire
<1>5. ASSUME NEW c \in Calls, DisconnectCheck(c) PROVE TableInv'
  BY <1>5 DEF DisconnectCheck
<1>6. ASSUME NEW c \in Calls, ConnectStartFails(c) PROVE TableInv'
  BY <1>6 DEF ConnectStartFails
<1>7. ASSUME NEW c \in Calls, ConnectStart(c) PROVE TableInv'
  BY <1>7 DEF ConnectStart
<1>8. ASSUME NEW c \in Calls, ConnectPublish(c) PROVE TableInv'
  BY <1>8 DEF ConnectPublish
<1>9. ASSUME NEW c \in Calls, CommandWrite(c) PROVE TableInv'
  BY <1>9 DEF CommandWrite
<1>10. ASSUME NEW c \in Calls, CommandWriteFails(c) PROVE TableInv'
  BY <1>10 DEF CommandWriteFails
<1>11. ASSUME NEW c \in Calls, CommandDone(c) PROVE TableInv'
  BY <1>11 DEF CommandDone
<1>12. CASE SweepStart
  BY <1>12 DEF SweepStart
<1>13. CASE SweepNext
  BY <1>13 DEF SweepNext
<1>14. CASE SweepEnd
  BY <1>14 DEF SweepEnd
<1>15. ASSUME NEW a \in Agents, CleanupExit(a) PROVE TableInv'
  BY <1>15 DEF CleanupExit
<1>16. ASSUME NEW a \in Agents, CleanupClose(a) PROVE TableInv'
  BY <1>16 DEF CleanupClose
<1>17. ASSUME NEW a \in Agents, CleanupKill(a) PROVE TableInv'
  BY <1>17 DEF CleanupKill
<1>18. ASSUME NEW a \in Agents, CleanupFinish(a) PROVE TableInv'
  BY <1>18 DEF CleanupFinish
<1>19. ASSUME NEW s \in Sessions, DlvReads(s) PROVE TableInv'
  BY <1>19 DEF DlvReads
<1>20. ASSUME NEW s \in Sessions, DlvExits(s) PROVE TableInv'
  BY <1>20 DEF DlvExits
<1>21. ASSUME NEW s \in Sessions, Reap(s) PROVE TableInv'
  BY <1>21 DEF Reap
<1>22. CASE Tick
  BY <1>22 DEF Tick
<1>23. CASE UNCHANGED vars
  BY <1>23 DEF vars
<1>. QED
  BY <1>1, <1>2, <1>3, <1>4, <1>5, <1>6, <1>7, <1>8, <1>9, <1>10, <1>11, <1>12,
     <1>13, <1>14, <1>15, <1>16, <1>17, <1>18, <1>19, <1>20, <1>21, <1>22, <1>23
     DEF Next, Locking, Handling, Cleanup

\* A context is cancelled on the way out of the table; pipes are closed by the
\* reaper of a dead dlv, or by a cleanup.
LEMMA LiveStep ==
    ASSUME TypeOK, WellPlaced, LockInv, PlaceInv, TableInv, LiveInv, [Next]_vars
    PROVE  LiveInv'
<1> USE DelveAssumption DEF TypeOK, Agents, Goto, Return, toolVars, procVars, sesVars, PCs, CleanupPC,
       CommandPC, LockedPC, LockInv, PlaceInv, WellPlaced, TableInv, Bound,
       LiveInv, BeingCleaned
<1>1. ASSUME NEW c \in Calls, Request(c) PROVE LiveInv'
  BY <1>1 DEF Request, Invoke
<1>2. ASSUME NEW c \in Calls, ConnectCheck(c) PROVE LiveInv'
  BY <1>2 DEF ConnectCheck
<1>3. ASSUME NEW c \in Calls, CommandLookup(c) PROVE LiveInv'
  BY <1>3 DEF CommandLookup
<1>4. ASSUME NEW c \in Calls, CommandAcquire(c) PROVE LiveInv'
  BY <1>4 DEF CommandAcquire
<1>5. ASSUME NEW c \in Calls, DisconnectCheck(c) PROVE LiveInv'
  BY <1>5 DEF DisconnectCheck
<1>6. ASSUME NEW c \in Calls, ConnectStartFails(c) PROVE LiveInv'
  BY <1>6 DEF ConnectStartFails
<1>7. ASSUME NEW c \in Calls, ConnectStart(c) PROVE LiveInv'
  BY <1>7 DEF ConnectStart, Fresh
<1>8. ASSUME NEW c \in Calls, ConnectPublish(c) PROVE LiveInv'
  BY <1>8 DEF ConnectPublish
<1>9. ASSUME NEW c \in Calls, CommandWrite(c) PROVE LiveInv'
  BY <1>9 DEF CommandWrite
<1>10. ASSUME NEW c \in Calls, CommandWriteFails(c) PROVE LiveInv'
  BY <1>10 DEF CommandWriteFails
<1>11. ASSUME NEW c \in Calls, CommandDone(c) PROVE LiveInv'
  BY <1>11 DEF CommandDone
<1>12. CASE SweepStart
  BY <1>12 DEF SweepStart
<1>13. CASE SweepNext
  BY <1>13 DEF SweepNext
<1>14. CASE SweepEnd
  BY <1>14 DEF SweepEnd
<1>15. ASSUME NEW a \in Agents, CleanupExit(a) PROVE LiveInv'
  BY <1>15 DEF CleanupExit, Stalled, Broken
<1>16. ASSUME NEW a \in Agents, CleanupClose(a) PROVE LiveInv'
  BY <1>16 DEF CleanupClose
<1>17. ASSUME NEW a \in Agents, CleanupKill(a) PROVE LiveInv'
  BY <1>17 DEF CleanupKill
<1>18. ASSUME NEW a \in Agents, CleanupFinish(a) PROVE LiveInv'
  BY <1>18 DEF CleanupFinish
<1>19. ASSUME NEW s \in Sessions, DlvReads(s) PROVE LiveInv'
  BY <1>19 DEF DlvReads
<1>20. ASSUME NEW s \in Sessions, DlvExits(s) PROVE LiveInv'
  BY <1>20 DEF DlvExits
<1>21. ASSUME NEW s \in Sessions, Reap(s) PROVE LiveInv'
  BY <1>21 DEF Reap
<1>22. CASE Tick
  BY <1>22 DEF Tick
<1>23. CASE UNCHANGED vars
  BY <1>23 DEF vars
<1>. QED
  BY <1>1, <1>2, <1>3, <1>4, <1>5, <1>6, <1>7, <1>8, <1>9, <1>10, <1>11, <1>12,
     <1>13, <1>14, <1>15, <1>16, <1>17, <1>18, <1>19, <1>20, <1>21, <1>22, <1>23
     DEF Next, Locking, Handling, Cleanup

\* Nothing that a command still refers to is reused, and nothing is opened again.
LEMMA ClosedStep ==
    ASSUME TypeOK, WellPlaced, LockInv, PlaceInv, TableInv, ClosedInv, [Next]_vars
    PROVE  ClosedInv'
<1> USE DelveAssumption DEF TypeOK, Agents, Goto, Return, toolVars, procVars, sesVars, PCs, CleanupPC,
       CommandPC, LockedPC, LockInv, PlaceInv, WellPlaced, TableInv, Bound,
       ClosedInv
<1>1. ASSUME NEW c \in Calls, Request(c) PROVE ClosedInv'
  BY <1>1 DEF Request, Invoke
<1>2. ASSUME NEW c \in Calls, ConnectCheck(c) PROVE ClosedInv'
  BY <1>2 DEF ConnectCheck
<1>3. ASSUME NEW c \in Calls, CommandLookup(c) PROVE ClosedInv'
  BY <1>3 DEF CommandLookup
<1>4. ASSUME NEW c \in Calls, CommandAcquire(c) PROVE ClosedInv'
  BY <1>4 DEF CommandAcquire
<1>5. ASSUME NEW c \in Calls, DisconnectCheck(c) PROVE ClosedInv'
  BY <1>5 DEF DisconnectCheck
<1>6. ASSUME NEW c \in Calls, ConnectStartFails(c) PROVE ClosedInv'
  BY <1>6 DEF ConnectStartFails
<1>7. ASSUME NEW c \in Calls, ConnectStart(c) PROVE ClosedInv'
  BY <1>7 DEF ConnectStart, Fresh
<1>8. ASSUME NEW c \in Calls, ConnectPublish(c) PROVE ClosedInv'
  BY <1>8 DEF ConnectPublish
<1>9. ASSUME NEW c \in Calls, CommandWrite(c) PROVE ClosedInv'
  BY <1>9 DEF CommandWrite
<1>10. ASSUME NEW c \in Calls, CommandWriteFails(c) PROVE ClosedInv'
  BY <1>10 DEF CommandWriteFails
<1>11. ASSUME NEW c \in Calls, CommandDone(c) PROVE ClosedInv'
  BY <1>11 DEF CommandDone
<1>12. CASE SweepStart
  BY <1>12 DEF SweepStart
<1>13. CASE SweepNext
  BY <1>13 DEF SweepNext
<1>14. CASE SweepEnd
  BY <1>14 DEF SweepEnd
<1>15. ASSUME NEW a \in Agents, CleanupExit(a) PROVE ClosedInv'
  BY <1>15 DEF CleanupExit, Stalled, Broken
<1>16. ASSUME NEW a \in Agents, CleanupClose(a) PROVE ClosedInv'
  BY <1>16 DEF CleanupClose
<1>17. ASSUME NEW a \in Agents, CleanupKill(a) PROVE ClosedInv'
  BY <1>17 DEF CleanupKill
<1>18. ASSUME NEW a \in Agents, CleanupFinish(a) PROVE ClosedInv'
  BY <1>18 DEF CleanupFinish
<1>19. ASSUME NEW s \in Sessions, DlvReads(s) PROVE ClosedInv'
  BY <1>19 DEF DlvReads
<1>20. ASSUME NEW s \in Sessions, DlvExits(s) PROVE ClosedInv'
  BY <1>20 DEF DlvExits
<1>21. ASSUME NEW s \in Sessions, Reap(s) PROVE ClosedInv'
  BY <1>21 DEF Reap
<1>22. CASE Tick
  BY <1>22 DEF Tick
<1>23. CASE UNCHANGED vars
  BY <1>23 DEF vars
<1>. QED
  BY <1>1, <1>2, <1>3, <1>4, <1>5, <1>6, <1>7, <1>8, <1>9, <1>10, <1>11, <1>12,
     <1>13, <1>14, <1>15, <1>16, <1>17, <1>18, <1>19, <1>20, <1>21, <1>22, <1>23
     DEF Next, Locking, Handling, Cleanup

\* A running dlv stays in the table, in a goroutine's hands, or cancelled.
LEMMA LostStep ==
    ASSUME TypeOK, WellPlaced, LockInv, PlaceInv, TableInv, NoLostDebugger, [Next]_vars
    PROVE  NoLostDebugger'
<1> USE DelveAssumption DEF TypeOK, Agents, Goto, Return, toolVars, procVars, sesVars, PCs, CleanupPC,
       CommandPC, LockedPC, LockInv, PlaceInv, WellPlaced, TableInv, Bound,
       NoLostDebugger, Held
<1>1. ASSUME NEW c \in Calls, Request(c) PROVE NoLostDebugger'
  BY <1>1 DEF Request, Invoke
<1>2. ASSUME NEW c \in Calls, ConnectCheck(c) PROVE NoLostDebugger'
  BY <1>2 DEF ConnectCheck
<1>3. ASSUME NEW c \in Calls, CommandLookup(c) PROVE NoLostDebugger'
  BY <1>3 DEF CommandLookup
<1>4. ASSUME NEW c \in Calls, CommandAcquire(c) PROVE NoLostDebugger'
  BY <1>4 DEF CommandAcquire
<1>5. ASSUME NEW c \in Calls, DisconnectCheck(c) PROVE NoLostDebugger'
  BY <1>5 DEF DisconnectCheck
<1>6. ASSUME NEW c \in Calls, ConnectStartFails(c) PROVE NoLostDebugger'
  BY <1>6 DEF ConnectStartFails
<1>7. ASSUME NEW c \in Calls, ConnectStart(c) PROVE NoLostDebugger'
  BY <1>7 DEF ConnectStart, Fresh
<1>8. ASSUME NEW c \in Calls, ConnectPublish(c) PROVE NoLostDebugger'
  BY <1>8 DEF ConnectPublish
<1>9. ASSUME NEW c \in Calls, CommandWrite(c) PROVE NoLostDebugger'
  BY <1>9 DEF CommandWrite
<1>10. ASSUME NEW c \in Calls, CommandWriteFails(c) PROVE NoLostDebugger'
  BY <1>10 DEF CommandWriteFails
<1>11. ASSUME NEW c \in Calls, CommandDone(c) PROVE NoLostDebugger'
  BY <1>11 DEF CommandDone
<1>12. CASE SweepStart
  BY <1>12 DEF SweepStart
<1>13. CASE SweepNext
  BY <1>13 DEF SweepNext
<1>14. CASE SweepEnd
  BY <1>14 DEF SweepEnd
<1>15. ASSUME NEW a \in Agents, CleanupExit(a) PROVE NoLostDebugger'
  BY <1>15 DEF CleanupExit, Stalled, Broken
<1>16. ASSUME NEW a \in Agents, CleanupClose(a) PROVE NoLostDebugger'
  BY <1>16 DEF CleanupClose
<1>17. ASSUME NEW a \in Agents, CleanupKill(a) PROVE NoLostDebugger'
  BY <1>17 DEF CleanupKill
<1>18. ASSUME NEW a \in Agents, CleanupFinish(a) PROVE NoLostDebugger'
  BY <1>18 DEF CleanupFinish
<1>19. ASSUME NEW s \in Sessions, DlvReads(s) PROVE NoLostDebugger'
  BY <1>19 DEF DlvReads
<1>20. ASSUME NEW s \in Sessions, DlvExits(s) PROVE NoLostDebugger'
  BY <1>20 DEF DlvExits
<1>21. ASSUME NEW s \in Sessions, Reap(s) PROVE NoLostDebugger'
  BY <1>21 DEF Reap
<1>22. CASE Tick
  BY <1>22 DEF Tick
<1>23. CASE UNCHANGED vars
  BY <1>23 DEF vars
<1>. QED
  BY <1>1, <1>2, <1>3, <1>4, <1>5, <1>6, <1>7, <1>8, <1>9, <1>10, <1>11, <1>12,
     <1>13, <1>14, <1>15, <1>16, <1>17, <1>18, <1>19, <1>20, <1>21, <1>22, <1>23
     DEF Next, Locking, Handling, Cleanup

-----------------------------------------------------------------------------
(* What follows *)

\* The invariant holds in every state that the tool can reach.
THEOREM Inductive == Spec => []IInv
<1>1. Init => IInv
  BY DelveAssumption DEF Init, IInv, TypeOK, WellPlaced, LockInv, PlaceInv, TableInv,
     LiveInv, ClosedInv, NoLostDebugger, CommandPC, CleanupPC, LockedPC, Agents, PCs, Bound
<1>2. IInv /\ [Next]_vars => IInv'
  BY TypeStep, PlacedStep, LockStep, PlaceStep, TableStep, LiveStep, ClosedStep, LostStep
     DEF IInv
<1>. QED
  BY <1>1, <1>2, PTL DEF Spec

\* No debugger is leaked, whatever the goroutines' interleaving: a running dlv
\* is in the table, in the hands of the goroutine that starts or cleans it up,
\* or has had its context cancelled.
THEOREM NoDebuggerIsLost == Spec => []NoLostDebugger
<1>1. IInv => NoLostDebugger
  BY DEF IInv
<1>. QED
  BY <1>1, Inductive, PTL

\* A published session that nobody is cleaning up has its context and its
\* pipes, and one id only.
THEOREM PublishedIsIntact == Spec => []TableIntact
<1>1. IInv => TableIntact
  <2> SUFFICES ASSUME IInv, NEW i \in Ids, sessions[i] # None, ~BeingCleaned(sessions[i])
               PROVE  /\ ~cancelled[sessions[i]]
                      /\ closed[sessions[i]] => proc[sessions[i]] = "reaped"
                      /\ \A j \in Ids : sessions[j] = sessions[i] => j = i
    BY DEF TableIntact
  <2>1. sessions[i] \in Sessions /\ sessions[i] \in Bound
    BY DEF IInv, TypeOK, Bound
  <2>2. ~cancelled[sessions[i]] /\ (closed[sessions[i]] => proc[sessions[i]] = "reaped")
    BY <2>1 DEF IInv, LiveInv
  <2>. QED
    BY <2>2 DEF IInv, TableInv
<1>. QED
  BY <1>1, Inductive, PTL

\* A command that found its session before a disconnect or a sweep and writes
\* after it reaches no debugger: input goes to published sessions only.
THEOREM InputToPublished == Spec => DeliveredToBound
<1>1. ASSUME IInv, [Next]_vars, NEW t \in Sessions, inq'[t] > inq[t] PROVE t \in Bound
  <2> USE <1>1, DelveAssumption DEF IInv, TypeOK, Agents, toolVars, procVars, sesVars
  <2>1. ASSUME NEW c \in Calls, CommandWrite(c) PROVE t \in Bound
    BY <2>1 DEF CommandWrite, Writable, ClosedInv, CommandPC
  <2>2. ASSUME NEW a \in Agents, CleanupExit(a) PROVE t \in Bound
    BY <2>2 DEF CleanupExit, Stalled, Broken, PlaceInv, WellPlaced, CleanupPC, Bound
  <2>3. ASSUME NEW c \in Calls, ConnectStart(c) PROVE FALSE
    BY <2>3 DEF ConnectStart
  <2>4. ASSUME NEW s \in Sessions, DlvReads(s) \/ DlvExits(s) PROVE FALSE
    BY <2>4 DEF DlvReads, DlvExits
  <2>5. CASE UNCHANGED inq
    BY <2>5
  <2>. QED
    BY <2>1, <2>2, <2>3, <2>4, <2>5
    DEF Next, Request, Invoke, Locking, ConnectCheck, CommandLookup, CommandAcquire,
        DisconnectCheck, Handling, ConnectStartFails, ConnectPublish, CommandWriteFails,
        CommandDone, SweepStart, SweepNext, SweepEnd, Cleanup, CleanupClose, CleanupKill,
        CleanupFinish, Reap, Tick, vars
<1>2. IInv /\ [Next]_vars => [\A s \in Sessions : inq'[s] > inq[s] => s \in Bound]_vars
  BY <1>1
<1>. QED
  BY <1>2, Inductive, PTL DEF Spec, DeliveredToBound

-----------------------------------------------------------------------------
(* A signal to a debugger *)

\* A session that a goroutine or the table refers to has had its process started, and
\* two processes that have not been collected have different pids.
StartedInv ==
    /\ \A a \in Agents : ses[a] # None => proc[ses[a]] # "none"
    /\ \A i \in Ids : sessions[i] # None => proc[sessions[i]] # "none"
PidInv == \A s, t \in Sessions :
    proc[s] \in {"running", "zombie"} /\ proc[t] \in {"running", "zombie"} /\ pid[s] = pid[t]
        => s = t

\* The kernel gives out no pid twice, and whatever refers to a session got it from
\* the goroutine that started its process.
LEMMA PidStep ==
    ASSUME TypeOK, WellPlaced, StartedInv, PidInv, [Next]_vars
    PROVE  StartedInv' /\ PidInv'
<1> USE DelveAssumption DEF TypeOK, WellPlaced, StartedInv, PidInv, Agents, Return, toolVars, sesVars,
       procVars, CleanupPC, CommandPC
<1>1. ASSUME NEW c \in Calls, ConnectStart(c) PROVE StartedInv' /\ PidInv'
  BY <1>1 DEF ConnectStart, Fresh, FreePid, Bound
<1>2. ASSUME NEW c \in Calls, \/ ConnectCheck(c) \/ CommandLookup(c) \/ DisconnectCheck(c)
                              \/ ConnectStartFails(c) \/ ConnectPublish(c)
                              \/ CommandWriteFails(c) \/ CommandDone(c)
      PROVE  StartedInv' /\ PidInv'
  BY <1>2 DEF ConnectCheck, CommandLookup, DisconnectCheck, ConnectStartFails, ConnectPublish,
     CommandWriteFails, CommandDone
<1>3. ASSUME SweepNext PROVE StartedInv' /\ PidInv'
  BY <1>3 DEF SweepNext
<1>4. ASSUME NEW a \in Agents, CleanupFinish(a) PROVE StartedInv' /\ PidInv'
  BY <1>4 DEF CleanupFinish
<1>5. ASSUME NEW s \in Sessions, DlvExits(s) \/ Reap(s) PROVE StartedInv' /\ PidInv'
  BY <1>5 DEF DlvExits, Reap
<1>6. CASE UNCHANGED <<sessions, ses, proc, pid>>
  BY <1>6
<1>. QED
  BY <1>1, <1>2, <1>3, <1>4, <1>5, <1>6
  DEF Next, Request, Invoke, Locking, CommandAcquire, Handling, CommandWrite, SweepStart, SweepEnd,
      Cleanup, CleanupExit, CleanupClose, CleanupKill, DlvReads, Tick, vars

\* A cleanup that signals the debugger of another session does so because its own
\* had been collected and the pid given out again; nothing else sends a signal.
THEOREM StraySignalIsReuse == Spec => StraySignalOnlyByReuse
<1>1. Init => StartedInv /\ PidInv
  BY DelveAssumption DEF Init, StartedInv, PidInv
<1>2. IInv /\ StartedInv /\ PidInv /\ [Next]_vars => (StartedInv /\ PidInv)'
  BY PidStep DEF IInv
<1>3. ASSUME IInv, StartedInv, PidInv, [Next]_vars, NEW s \in Sessions, termed'[s], ~termed[s]
      PROVE  \E a \in Agents : pc[a] = "kill" /\ (ses[a] = s \/ proc[ses[a]] = "reaped")
  <2> USE <1>3, DelveAssumption DEF IInv, TypeOK, Agents, toolVars, sesVars, procVars
  <2>1. ASSUME NEW a \in Agents, CleanupKill(a)
        PROVE  pc[a] = "kill" /\ (ses[a] = s \/ proc[ses[a]] = "reaped")
    <3>1. pc[a] = "kill" /\ proc[s] = "running" /\ pid[s] = pid[ses[a]]
      BY <2>1 DEF CleanupKill
    <3>2. ses[a] \in Sessions /\ proc[ses[a]] # "none"
      BY <3>1 DEF WellPlaced, CleanupPC, StartedInv
    <3>. QED
      BY <3>1, <3>2 DEF PidInv
  <2>2. ASSUME NEW c \in Calls, ConnectStart(c) PROVE FALSE
    BY <2>2 DEF ConnectStart
  <2>3. ASSUME UNCHANGED termed PROVE FALSE
    BY <2>3
  <2>. QED
    BY <2>1, <2>2, <2>3
    DEF Next, Request, Invoke, Locking, ConnectCheck, CommandLookup, CommandAcquire,
        DisconnectCheck, Handling, ConnectStartFails, ConnectPublish, CommandWrite,
        CommandWriteFails, CommandDone, SweepStart, SweepNext, SweepEnd, Cleanup, CleanupExit,
        CleanupClose, CleanupFinish, DlvReads, DlvExits, Reap, Tick, vars
<1>4. IInv /\ StartedInv /\ PidInv /\ [Next]_vars =>
        [\A s \in Sessions : termed'[s] /\ ~termed[s] =>
            \E a \in Agents : pc[a] = "kill" /\ (ses[a] = s \/ proc[ses[a]] = "reaped")]_vars
  BY <1>3
<1>. QED
  BY <1>1, <1>2, <1>4, Inductive, PTL DEF Spec, StraySignalOnlyByReuse

-----------------------------------------------------------------------------
(* The Delve tool implements SessionRegistry *)

\* The registry's busy session is the one that the holder of sessionMu is
\* starting or cleaning up.
LEMMA Busy ==
    ASSUME IInv
    PROVE  /\ sessionMu = None => BusySession = None
           /\ \A a \in Agents :
                /\ pc[a] \in {"settle"} \cup CleanupPC => BusySession = ses[a]
                /\ pc[a] \in {"start", "sweep"} => BusySession = None
  BY DelveAssumption DEF IInv, LockInv, LockedPC, CleanupPC, BusySession, Agents

\* Every step of the tool is a step of the registry or leaves it unchanged.
LEMMA RegistryStep ==
    ASSUME IInv, IInv', [Next]_vars
    PROVE  [Registry!Next]_(Registry!vars)
<1> USE DelveAssumption DEF IInv, TypeOK, Agents, Goto, Return, toolVars, procVars, sesVars,
        LockInv, LockedPC, CleanupPC
<1> DEFINE Same == UNCHANGED <<sessions, BusySession, inq>>
<1>1. ASSUME NEW c \in Calls, Request(c) PROVE Same
  BY <1>1 DEF Request, Invoke, BusySession
<1>2. ASSUME NEW c \in Calls, ConnectCheck(c) PROVE Same
  BY <1>2 DEF ConnectCheck, BusySession
<1>3. ASSUME NEW c \in Calls, CommandLookup(c) \/ CommandAcquire(c) \/ CommandWriteFails(c) \/ CommandDone(c) PROVE Same
  BY <1>3 DEF CommandLookup, CommandAcquire, CommandWriteFails, CommandDone, BusySession
<1>4. ASSUME NEW c \in Calls, DisconnectCheck(c)
      PROVE  Same \/ \E i \in Ids : Registry!Close(i)
  BY <1>4 DEF DisconnectCheck, BusySession, Registry!Close, WellPlaced
<1>5. ASSUME NEW c \in Calls, ConnectStartFails(c) PROVE Same
  BY <1>5 DEF ConnectStartFails, BusySession
<1>6. ASSUME NEW c \in Calls, ConnectStart(c) PROVE \E s \in Sessions : Registry!Open(s)
  <2>1. PICK s \in Sessions : /\ s \notin Bound
                              /\ ses' = [ses EXCEPT ![c] = s]
                              /\ inq' = [inq EXCEPT ![s] = 0]
    BY <1>6 DEF ConnectStart, Fresh
  <2>2. pc[c] = "start" /\ pc' = [pc EXCEPT ![c] = "settle"] /\ UNCHANGED sessions
    BY <1>6 DEF ConnectStart
  <2>3. BusySession = None /\ BusySession' = s
    BY <2>1, <2>2, Busy DEF BusySession
  <2>. QED
    BY <2>1, <2>2, <2>3 DEF Registry!Open, Registry!Published, Bound
<1>7. ASSUME NEW c \in Calls, ConnectPublish(c) PROVE \E i \in Ids : Registry!Publish(i)
  <2>1. BusySession = ses[c] /\ BusySession' = None
    BY <1>7, Busy DEF ConnectPublish, BusySession
  <2>2. ses[c] \in Sessions \ Bound /\ arg[c] \in Ids /\ sessions[arg[c]] = None
    BY <1>7 DEF ConnectPublish, PlaceInv, WellPlaced
  <2>3. Registry!Publish(arg[c])
    BY <1>7, <2>1, <2>2 DEF ConnectPublish, Registry!Publish, Registry!Published, Bound
  <2>. QED
    BY <2>2, <2>3
<1>8. ASSUME NEW c \in Calls, CommandWrite(c) PROVE \E s \in Sessions : Registry!Accept(s)
  BY <1>8 DEF CommandWrite, Writable, BusySession, Registry!Accept, Registry!Published, Bound,
     WellPlaced, ClosedInv, CommandPC
<1>9. ASSUME SweepStart PROVE Same
  BY <1>9 DEF SweepStart, BusySession
<1>10. ASSUME SweepNext PROVE \E i \in Ids : Registry!Close(i)
  BY <1>10 DEF SweepNext, BusySession, Registry!Close
<1>11. ASSUME SweepEnd PROVE Same
  BY <1>11 DEF SweepEnd, BusySession
<1>12. ASSUME NEW a \in Agents, CleanupExit(a)
       PROVE  Same \/ \E s \in Sessions : Registry!Accept(s)
  <2>1. BusySession = ses[a] /\ BusySession' = ses[a] /\ UNCHANGED sessions
    BY <1>12, Busy DEF CleanupExit, BusySession
  <2>2. ses[a] \in Sessions /\ ses[a] \in Bound
    BY <1>12 DEF CleanupExit, PlaceInv, WellPlaced, Bound
  <2>3. UNCHANGED inq \/ (inq[ses[a]] < StdinCap /\ inq' = [inq EXCEPT ![ses[a]] = @ + 1])
    BY <1>12, <2>2 DEF CleanupExit, Stalled, Broken
  <2>. QED
    BY <2>1, <2>2, <2>3 DEF Registry!Accept, Registry!Published, Bound
<1>13. ASSUME NEW a \in Agents, CleanupClose(a) \/ CleanupKill(a) PROVE Same
  BY <1>13 DEF CleanupClose, CleanupKill, BusySession
<1>14. ASSUME NEW a \in Agents, CleanupFinish(a) PROVE \E i \in Ids : Registry!Retire(i)
  <2>1. BusySession = ses[a] /\ BusySession' = None
    BY <1>14, Busy DEF CleanupFinish, BusySession
  <2>2. ses[a] \in Sessions /\ arg[a] \in Ids /\ sessions[arg[a]] = ses[a]
    BY <1>14 DEF CleanupFinish, PlaceInv, WellPlaced
  <2>3. Registry!Retire(arg[a])
    BY <1>14, <2>1, <2>2 DEF CleanupFinish, Registry!Retire
  <2>. QED
    BY <2>2, <2>3
<1>15. ASSUME NEW s \in Sessions, DlvReads(s) PROVE Registry!Drain(s)
  <2>1. inq[s] - 1 \in 0..StdinCap /\ inq' = [inq EXCEPT ![s] = inq[s] - 1]
    BY <1>15 DEF DlvReads
  <2>2. UNCHANGED <<sessions, BusySession>>
    BY <1>15 DEF DlvReads, BusySession
  <2>3. inq[s] - 1 < inq[s]
    OBVIOUS
  <2>4. \E n \in 0..StdinCap : n < inq[s] /\ inq' = [inq EXCEPT ![s] = n]
    BY <2>1, <2>3
  <2>. QED
    BY <2>2, <2>4 DEF Registry!Drain
<1>16. ASSUME NEW s \in Sessions, DlvExits(s) PROVE Same \/ Registry!Drain(s)
  <2>1. UNCHANGED <<sessions, BusySession>> /\ inq' = [inq EXCEPT ![s] = 0]
    BY <1>16 DEF DlvExits, BusySession
  <2>2. CASE inq[s] = 0
    BY <2>1, <2>2
  <2>3. CASE 0 < inq[s]
    <3>1. 0 \in 0..StdinCap
      OBVIOUS
    <3>2. \E n \in 0..StdinCap : n < inq[s] /\ inq' = [inq EXCEPT ![s] = n]
      BY <2>1, <2>3, <3>1, Zenon
    <3>. QED
      BY <2>1, <3>2 DEF Registry!Drain
  <2>. QED
    BY <2>2, <2>3
<1>17. ASSUME NEW s \in Sessions, Reap(s) PROVE Same
  BY <1>17 DEF Reap, BusySession
<1>18. ASSUME Tick PROVE Same
  BY <1>18 DEF Tick, BusySession
<1>19. ASSUME UNCHANGED vars PROVE Same
  BY <1>19 DEF vars, BusySession
<1>. QED
  BY <1>1, <1>2, <1>3, <1>4, <1>5, <1>6, <1>7, <1>8, <1>9, <1>10, <1>11, <1>12,
     <1>13, <1>14, <1>15, <1>16, <1>17, <1>18, <1>19
     DEF Next, Locking, Handling, Cleanup, Registry!Next, Registry!vars

\* The Delve tool implements SessionRegistry.
THEOREM RegistryImplemented == Spec => ImplementsRegistry
<1>1. Init => Registry!Init
  BY DelveAssumption DEF Init, Registry!Init, BusySession
<1>2. IInv /\ IInv' /\ [Next]_vars => [Registry!Next]_(Registry!vars)
  BY RegistryStep
<1>. QED
  BY <1>1, <1>2, Inductive, PTL DEF Spec, ImplementsRegistry, Registry!Spec

=============================================================================
